---------------------------- MODULE OrderSizing ----------------------------
(***************************************************************************)
(* The quantities a bot orders (botRuntime.go, exchangeClients.go): how    *)
(* openPosition, changePosition and closePosition choose a quantity of one *)
(* symbol, how getBulkQtyList cuts it into orders, and what is left on the *)
(* account when each of them has been accepted or refused. BotTrading has  *)
(* the calls' other conditions and what runs beside them; here a call runs *)
(* under the bot's mutex, alone. Decimals are integers of a unit at least  *)
(* as fine as the symbol's step; side, leverage and prices are left out.   *)
(***************************************************************************)
EXTENDS Integers

CONSTANTS
    Symbols,        \* the lot sizes a symbol can have: MinQty, MaxQty, QtyStep
    MaxQty          \* bound: the largest quantity that is wished or held

(* What the exchange publishes of its symbols; the code does not check it. *)
ASSUME SymbolAssumption ==
    \A s \in Symbols :
        /\ s \in [min : Nat, max : Nat, step : Nat \ {0}]
        /\ s.step <= s.min /\ s.min <= s.max
        /\ s.min % s.step = 0 /\ s.max % s.step = 0
ASSUME BoundAssumption == MaxQty \in Nat

VARIABLES
    sym,            \* handler.excData[exchange].SymbolData[symbol]
    account,        \* the quantity of the position on the account
    held, book,     \* bot.Positions has the position, and its Qty
    call,           \* the call that waits for the results of its orders
    wish,           \* the quantity given to placeOrder
    full, last,     \* orders without a result: how many of MaxQty, the last
    filled,         \* the sum of the orders that were accepted
    refused,        \* an order of the call was refused
    abandoned,      \* history: a close with a refused order was believed
    unread,         \* history: orders were placed, the position not read back
    panicked        \* history: closePosition found no result at all

orderVars == <<wish, full, last, filled, refused>>
bookVars == <<held, book>>
historyVars == <<abandoned, unread, panicked>>
vars == <<sym, account, bookVars, call, orderVars, historyVars>>

TypeOK ==
    /\ sym \in Symbols
    /\ account \in Nat /\ held \in BOOLEAN /\ book \in Nat
    /\ call \in {"none", "open", "add", "reduce", "close"}
    /\ wish \in Nat /\ full \in Nat /\ last \in SUBSET Nat
    /\ filled \in Nat /\ refused \in BOOLEAN
    /\ abandoned \in BOOLEAN /\ unread \in BOOLEAN /\ panicked \in BOOLEAN

Init ==
    /\ sym \in Symbols
    /\ account = 0 /\ held = FALSE /\ book = 0
    /\ call = "none"
    /\ wish = 0 /\ full = 0 /\ last = {} /\ filled = 0 /\ refused = FALSE
    /\ abandoned = FALSE /\ unread = FALSE /\ panicked = FALSE

-----------------------------------------------------------------------------
(* getBulkQtyList: as many orders of the maximum as fit, and one of what   *)
(* remains, cut down to the step, unless that is below the minimum.        *)
NumMax(qty) == qty \div sym.max
Remainder(qty) == qty - sym.max * NumMax(qty)

(* Mutant: the remainder is ordered as it is.                              *)
LastOrder_Uncut(qty) ==
    IF Remainder(qty) < sym.min THEN {} ELSE {Remainder(qty)}

(* Mutant: a remainder that equals the minimum is dropped.                 *)
LastOrder_OffByOne(qty) ==
    IF Remainder(qty) <= sym.min
    THEN {} ELSE {(Remainder(qty) \div sym.step) * sym.step}

LastOrder(qty) ==
    IF Remainder(qty) < sym.min
    THEN {} ELSE {(Remainder(qty) \div sym.step) * sym.step}

PlaceOrder(qty) ==
    /\ wish' = qty
    /\ full' = NumMax(qty) /\ last' = LastOrder(qty)
    /\ filled' = 0 /\ refused' = FALSE

(* openPosition: what the balance and the leverage allow.                  *)
OpenPosition(qty) ==
    /\ call = "none" /\ ~held
    /\ qty >= sym.min
    /\ call' = "open"
    /\ PlaceOrder(qty)
    /\ UNCHANGED <<sym, account, bookVars, historyVars>>

(* changePosition: the share of the position by which the trader's changed,*)
(* which for a decrease is less than all of it.                            *)
ChangePosition(kind, qty) ==
    /\ call = "none" /\ held
    /\ qty >= sym.min
    /\ kind = "reduce" => qty < book
    /\ call' = kind
    /\ PlaceOrder(qty)
    /\ UNCHANGED <<sym, account, bookVars, historyVars>>

(* closePosition: all of it. Without any order results[0] panics, which is *)
(* recovered: the position stays in the book.                              *)
ClosePosition ==
    /\ call = "none" /\ held
    /\ IF NumMax(book) = 0 /\ LastOrder(book) = {}
       THEN panicked' = TRUE /\ UNCHANGED <<call, orderVars>>
       ELSE call' = "close" /\ PlaceOrder(book) /\ UNCHANGED panicked
    /\ UNCHANGED <<sym, account, bookVars, abandoned, unread>>

-----------------------------------------------------------------------------
Reducing == call \in {"reduce", "close"}
Legal(qty) == sym.min <= qty /\ qty <= sym.max /\ qty % sym.step = 0

(* The exchange fills a market order; one that may only reduce a position  *)
(* takes no more than there is, and is refused if there is none (130125).  *)
Accept(qty) ==
    /\ Legal(qty)
    /\ Reducing => account > 0
    /\ account' = IF ~Reducing THEN account + qty
                  ELSE IF qty < account THEN account - qty ELSE 0
    /\ filled' = filled + qty
    /\ UNCHANGED refused

(* It refuses what it does not like, at any time for reasons of its own.   *)
Refuse == refused' = TRUE /\ UNCHANGED <<account, filled>>

(* The result of one of the orders arrives, in any order.                  *)
Result ==
    /\ \/ /\ full > 0
          /\ full' = full - 1 /\ UNCHANGED last
          /\ Accept(sym.max) \/ Refuse
       \/ \E qty \in last :
             /\ last' = last \ {qty} /\ UNCHANGED full
             /\ Accept(qty) \/ Refuse
    /\ UNCHANGED <<sym, bookVars, call, wish, historyVars>>

Collected == full = 0 /\ last = {}

(* With an order accepted, the position is read back into the book.        *)
EndOpen ==
    /\ call = "open" /\ Collected
    /\ call' = "none"
    /\ \/ filled = 0 /\ UNCHANGED <<bookVars, unread>>
       \/ filled > 0 /\ held' = TRUE /\ book' = account /\ UNCHANGED unread
       \/ filled > 0 /\ unread' = TRUE /\ UNCHANGED bookVars
    /\ UNCHANGED <<sym, account, orderVars, abandoned, panicked>>

(* Mutant: the book is changed by what was wished.                         *)
EndChange_Computes ==
    /\ call \in {"add", "reduce"} /\ Collected
    /\ call' = "none"
    /\ book' = IF Reducing THEN book - wish ELSE book + wish
    /\ UNCHANGED <<sym, account, held, orderVars, historyVars>>

EndChange ==
    /\ call \in {"add", "reduce"} /\ Collected
    /\ call' = "none"
    /\ \/ book' = account /\ UNCHANGED unread
       \/ unread' = (unread \/ filled > 0) /\ UNCHANGED book
    /\ UNCHANGED <<sym, account, held, orderVars, abandoned, panicked>>

(* Mutant: the position is read back after a close, too.                   *)
EndClose_ReadsBack ==
    /\ call = "close" /\ Collected
    /\ call' = "none"
    /\ book' = account /\ UNCHANGED held
    /\ abandoned' = (abandoned \/ refused)
    /\ UNCHANGED <<sym, account, orderVars, unread, panicked>>

(* onSuccessfullClose takes it out of the book, whatever the results.      *)
EndClose ==
    /\ call = "close" /\ Collected
    /\ call' = "none"
    /\ held' = FALSE /\ book' = 0
    /\ abandoned' = (abandoned \/ refused)
    /\ UNCHANGED <<sym, account, orderVars, unread, panicked>>

Next ==
    \/ \E qty \in 1 .. MaxQty - account :
          OpenPosition(qty) \/ ChangePosition("add", qty)
    \/ \E qty \in 1 .. MaxQty : ChangePosition("reduce", qty)
    \/ ClosePosition
    \/ Result \/ EndOpen \/ EndChange \/ EndClose

Spec == Init /\ [][Next]_vars

-----------------------------------------------------------------------------
(* Every order is one the exchange can accept (getBulkQtyList, "a list of  *)
(* valid orders", botRuntime.go:250): it keeps the minimum, the maximum    *)
(* and the step, whatever was wished.                                      *)
OrdersLegal == (full > 0 => Legal(sym.max)) /\ \A qty \in last : Legal(qty)

(* When no order was refused, what was ordered is what was wished up to    *)
(* less than the minimum, and never more (botRuntime.go:252-276).          *)
OrderedInFull ==
    Collected /\ ~refused => filled <= wish /\ wish - filled < sym.min

(* What the account has beyond the book is less than an order, and nothing *)
(* for a symbol whose minimum is its step; unless a close with a refused   *)
(* order was taken for done (botRuntime.go:610, 636) or a position could   *)
(* not be read back after an order (botRuntime.go:504, 846).               *)
LeftBehind ==
    call = "none" /\ ~abandoned /\ ~unread =>
        IF held THEN account = book
        ELSE account < sym.min /\ (sym.min = sym.step => account = 0)

(* closePosition panics for want of orders (botRuntime.go:610) only if the *)
(* minimum is more than the step, so that orders can leave less than the   *)
(* minimum, or the book was not read back after orders.                    *)
PanicNeedsDust == panicked => sym.min > sym.step \/ unread
=============================================================================
