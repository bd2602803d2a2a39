-------------------------- MODULE BotTradingProofs --------------------------
(***************************************************************************)
(* What keeps a bot's book in step with its account (BotTrading), and what *)
(* keeps the counter of a round of the manual checker in step with the     *)
(* goroutines it started (CheckRounds), whatever happens in between. The   *)
(* two are proved apart: they share no variable.                           *)
(***************************************************************************)
EXTENDS BotTrading, CheckRounds, TotalsTheorems

(* The dispatcher holds the mutex while its bot works on an update, the    *)
(* checker while it writes the book.                                       *)
LockInv ==
    /\ posMtx = "bot" <=> pc \in {"decide", "confirm"}
    /\ posMtx = "checker" <=> check \in {"range", "store"}

(* An open that is ordered still has room in the book.                     *)
OpenInv ==
    pc = "confirm" /\ type = "open" => Cardinality(Tracked) < MaxOpenPositions

Agree(s) == account[s] = IF s \in Tracked THEN positions[s] ELSE 0

Confirming(s) == pc = "confirm" /\ symbol = s

(* The book and the account agree on a symbol unless its order is yet to   *)
(* be read back, or its close to be forgotten: then nothing is held; and   *)
(* what a check was given is what is held, if nothing was ordered since.   *)
SyncInv ==
    \A s \in Symbols \ astray :
        /\ IF closers[s] > 0 THEN account[s] = 0 /\ ~Confirming(s)
                             ELSE Confirming(s) \/ Agree(s)
        /\ check \in {"select", "lock", "range", "store"} /\ s \notin stale
           => snap[s] = account[s]

IInv == TypeOK /\ LockInv /\ OpenInv /\ SyncInv

-----------------------------------------------------------------------------
LEMMA TypeStep ==
    ASSUME TypeOK, LockInv, [Next]_vars
    PROVE  TypeOK' /\ LockInv'
<1> USE BoundsAssumption
    DEF TypeOK, LockInv, bookVars, dispatchVars, asyncVars, checkVars, historyVars, sameUpdate,
        Free, Absent
<1>1. ASSUME NEW s \in Symbols, NEW t \in {"open", "close", "change"},
             Poll(t, s) \/ NextUpdate(t, s)
      PROVE  TypeOK' /\ LockInv'
  <2>1. /\ traderOpen' \subseteq Symbols /\ type' = t /\ symbol' = s
        /\ updates' \in 0 .. MaxUpdates /\ pc' \in {"lock", "prices"}
    BY <1>1 DEF Poll, NextUpdate, Take
  <2> QED
    BY <1>1, <2>1 DEF Poll, NextUpdate
<1>2. ASSUME NEW s \in Symbols, ManualTrade(s)
      PROVE  TypeOK' /\ LockInv'
  BY <1>2 DEF ManualTrade
<1>3. ASSUME NEW s \in Symbols, Forget(s)
      PROVE  TypeOK' /\ LockInv'
  <2>1. crashed' \in BOOLEAN
    BY <1>3, Zenon DEF Forget
  <2>2. closers' \in [Symbols -> Nat] /\ positions' \in [Symbols -> Absent .. MaxQty]
    BY <1>3 DEF Forget
  <2> QED
    BY <1>3, <2>1, <2>2 DEF Forget
<1>4. ASSUME NEW s \in Symbols, AsyncIgnore(s)
      PROVE  TypeOK' /\ LockInv'
  BY <1>4 DEF AsyncIgnore
<1>5. ASSUME NEW s \in Symbols, AsyncAppend(s)
      PROVE  TypeOK' /\ LockInv'
  BY <1>5 DEF AsyncAppend
<1>6. ASSUME NEW s \in Symbols, RangeOver(s)
      PROVE  TypeOK' /\ LockInv'
  BY <1>6 DEF RangeOver, Tracked
<1>7. ASSUME NEW s \in Symbols, Store(s)
      PROVE  TypeOK' /\ LockInv'
  BY <1>7 DEF Store, MarkStale
<1>8. CASE EndUpdates
  BY <1>8 DEF EndUpdates
<1>9. CASE GetPrices
  BY <1>9 DEF GetPrices
<1>10. CASE onFailedTradePrep
  BY <1>10 DEF onFailedTradePrep, Collected
<1>11. CASE Lock
  BY <1>11 DEF Lock
<1>12. CASE OpenRefused
  BY <1>12 DEF OpenRefused, Deciding, Unlock, Collected
<1>13. CASE OpenOrder
  BY <1>13 DEF OpenOrder, Deciding, Ordered
<1>14. CASE CloseIgnored
  BY <1>14 DEF CloseIgnored, Deciding, Unlock, Collected, isIgnored, unIgnore
<1>15. CASE CloseRefused
  BY <1>15 DEF CloseRefused, Deciding, Unlock, Collected
<1>16. CASE CloseOrder
  BY <1>16 DEF CloseOrder, Deciding, Unlock, Collected, Min2
<1>17. CASE ChangeRefused
  BY <1>17 DEF ChangeRefused, Deciding, Unlock, Collected
<1>18. CASE ChangeOrder
  BY <1>18 DEF ChangeOrder, Deciding, Ordered, Min2, Tracked
<1>19. CASE Confirm
  BY <1>19 DEF Confirm, Unlock, Collected
<1>20. CASE ConfirmFails
  BY <1>20 DEF ConfirmFails, Unlock, Collected
<1>21. CASE Ignore
  BY <1>21 DEF Ignore, Collected
<1>22. CASE AppendIgnore
  BY <1>22 DEF AppendIgnore, Collected
<1>23. CASE StartCheck
  BY <1>23 DEF StartCheck
<1>24. CASE TryLock
  BY <1>24 DEF TryLock
<1>25. CASE Answer
  BY <1>25 DEF Answer
<1>26. CASE CheckLock
  BY <1>26 DEF CheckLock, Tracked
<1>27. CASE EndCheck
  BY <1>27 DEF EndCheck, Tracked
<1>28. CASE Snapshot
  BY <1>28 DEF Snapshot
<1>29. CASE RequestFails
  BY <1>29 DEF RequestFails
<1>30. CASE Cancel
  BY <1>30 DEF Cancel
<1>31. CASE UNCHANGED vars
  BY <1>31 DEF vars
<1> QED
  BY <1>1, <1>2, <1>3, <1>4, <1>5, <1>6, <1>7, <1>8, <1>9, <1>10, <1>11, <1>12, <1>13,
     <1>14, <1>15, <1>16, <1>17, <1>18, <1>19, <1>20, <1>21, <1>22, <1>23, <1>24, <1>25, <1>26,
     <1>27, <1>28, <1>29, <1>30, <1>31
  DEF Next, DispatchStep, CheckStep, AsyncStep

-----------------------------------------------------------------------------
(* What the book tracks grows only by what an order brought or a check     *)
(* writes back.                                                            *)
LEMMA BookShrinks ==
    ASSUME TypeOK, LockInv, [Next]_vars, posMtx = "bot"
    PROVE  Confirm \/ Tracked' \subseteq Tracked
<1> USE DEF bookVars, dispatchVars, asyncVars, checkVars, historyVars, sameUpdate
<1>1. ASSUME NEW s \in Symbols, Forget(s) \/ Store(s)
      PROVE  Tracked' \subseteq Tracked
  BY <1>1 DEF Forget, Store, Tracked, TypeOK, LockInv
<1>2. CASE EndCheck
  BY <1>2 DEF EndCheck, Tracked, TypeOK
<1>3. CASE UNCHANGED positions
  BY <1>3 DEF Tracked
<1>4. ASSUME NEW s \in Symbols,
             \/ ManualTrade(s) \/ AsyncIgnore(s) \/ AsyncAppend(s) \/ RangeOver(s)
             \/ \E t \in {"open", "close", "change"} : Poll(t, s) \/ NextUpdate(t, s)
      PROVE  UNCHANGED positions
  BY <1>4 DEF ManualTrade, AsyncIgnore, AsyncAppend, RangeOver, Poll, NextUpdate
<1>5. CASE DispatchStep
  BY <1>5, <1>3 DEF DispatchStep, EndUpdates, GetPrices, onFailedTradePrep, Lock, OpenRefused,
     OpenOrder, CloseIgnored, CloseRefused, CloseOrder, ChangeRefused, ChangeOrder, ConfirmFails,
     Ignore, AppendIgnore
<1>6. CASE StartCheck \/ TryLock \/ Answer \/ CheckLock \/ Snapshot \/ RequestFails \/ Cancel
           \/ UNCHANGED vars
  BY <1>6, <1>3 DEF StartCheck, TryLock, Answer, CheckLock, Snapshot, RequestFails, Cancel, vars
<1> QED
  BY <1>1, <1>2, <1>3, <1>4, <1>5, <1>6 DEF Next, CheckStep, AsyncStep

LEMMA TrackedFinite == IsFiniteSet(Tracked) /\ Cardinality(Tracked) \in Nat
<1>1. Tracked \subseteq Symbols
  BY DEF Tracked
<1> QED
  BY <1>1, BoundsAssumption, FS_Subset, FS_CardinalityType

LEMMA OpenStep ==
    ASSUME TypeOK, LockInv, OpenInv, [Next]_vars
    PROVE  OpenInv'
<1> SUFFICES ASSUME pc' = "confirm", type' = "open"
             PROVE  Cardinality(Tracked') < MaxOpenPositions
  BY DEF OpenInv
<1> USE DEF bookVars, dispatchVars, asyncVars, checkVars, historyVars, sameUpdate
<1>1. CASE OpenOrder
  <2>1. Tracked' = Tracked
    BY <1>1 DEF OpenOrder, Tracked
  <2> QED
    BY <1>1, <2>1 DEF OpenOrder
<1>2. CASE ~OpenOrder
  <2>1. pc = "confirm" /\ type = "open" /\ ~Confirm
    <3>1. ASSUME NEW s \in Symbols,
                 \/ ManualTrade(s) \/ AsyncStep(s) \/ RangeOver(s) \/ Store(s)
                 \/ \E t \in {"open", "close", "change"} : Poll(t, s) \/ NextUpdate(t, s)
          PROVE  pc = "confirm" /\ type = "open" /\ ~Confirm
      BY <3>1 DEF ManualTrade, AsyncStep, Forget, AsyncIgnore, AsyncAppend, RangeOver, Store,
         Poll, NextUpdate, Take, Confirm, Collected
    <3>2. CASE DispatchStep
      BY <1>2, <3>2 DEF DispatchStep, EndUpdates, GetPrices, onFailedTradePrep, Lock, OpenRefused,
         CloseIgnored, CloseRefused, CloseOrder, ChangeRefused, ChangeOrder, Confirm,
         ConfirmFails, Ignore, AppendIgnore, Collected, Deciding
    <3>3. CASE StartCheck \/ TryLock \/ Answer \/ CheckLock \/ EndCheck \/ Snapshot
               \/ RequestFails \/ Cancel \/ UNCHANGED vars
      BY <3>3 DEF StartCheck, TryLock, Answer, CheckLock, EndCheck, Snapshot, RequestFails,
         Cancel, vars, Confirm, Collected
    <3> QED
      BY <1>2, <3>1, <3>2, <3>3 DEF Next, CheckStep
  <2>2. Tracked' \subseteq Tracked
    BY <2>1, BookShrinks DEF LockInv
  <2>3. Cardinality(Tracked') <= Cardinality(Tracked)
    BY <2>2, TrackedFinite, FS_Subset
  <2>4. Cardinality(Tracked') \in Nat
    BY <2>2, TrackedFinite, FS_Subset, FS_CardinalityType
  <2> QED
    BY <2>1, <2>3, <2>4, TrackedFinite, BoundsAssumption DEF OpenInv
<1> QED
  BY <1>1, <1>2

-----------------------------------------------------------------------------
(* A step that touches neither the account nor the book, nor what is known *)
(* of either, and neither places orders nor asks for positions.            *)
LEMMA SyncKept ==
    ASSUME SyncInv, UNCHANGED <<account, positions, closers, stale, astray, snap>>,
           pc = "confirm" \/ pc' = "confirm" => UNCHANGED <<pc, symbol>>,
           check' = check \/ check' \in {"idle", "tryLock", "request"}
           \/ check \in {"select", "lock", "range", "store"}
    PROVE  SyncInv'
BY DEF SyncInv, Agree, Tracked, Confirming

(* The steps of the user, the exchange, and the goroutines of a close.     *)
LEMMA SyncAround ==
    ASSUME TypeOK, SyncInv, NEW s \in Symbols, ManualTrade(s) \/ AsyncStep(s)
    PROVE  SyncInv'
<1> USE DEF bookVars, dispatchVars, asyncVars, checkVars, historyVars, TypeOK
<1>1. CASE ManualTrade(s)
  BY <1>1 DEF ManualTrade, SyncInv, Agree, Tracked, Confirming
<1>2. CASE Forget(s)
  BY <1>2 DEF Forget, SyncInv, Agree, Tracked, Confirming
<1>3. CASE AsyncIgnore(s) \/ AsyncAppend(s)
  BY <1>3, SyncKept DEF AsyncIgnore, AsyncAppend
<1> QED
  BY <1>1, <1>2, <1>3 DEF AsyncStep

(* Orders, and what is read back of them.                                  *)
LEMMA SyncOrders ==
    ASSUME TypeOK, SyncInv,
           OpenOrder \/ ChangeOrder \/ CloseOrder \/ Confirm \/ ConfirmFails
    PROVE  SyncInv'
<1> USE DEF bookVars, dispatchVars, asyncVars, checkVars, historyVars, sameUpdate, TypeOK
<1>1. CASE OpenOrder \/ ChangeOrder
  <2>1. /\ pc = "decide" /\ pc' = "confirm"
        /\ stale' = stale \cup {symbol}
        /\ closers[symbol] > 0 => symbol \in astray'
        /\ astray \subseteq astray'
        /\ \A s \in Symbols \ {symbol} : account'[s] = account[s]
        /\ UNCHANGED <<positions, symbol, closers, check, snap>>
    BY <1>1 DEF OpenOrder, ChangeOrder, Ordered, Deciding
  <2> QED
    BY <2>1 DEF SyncInv, Agree, Tracked, Confirming
<1>2. CASE CloseOrder
  <2>1. /\ pc = "decide" /\ pc' # "confirm"
        /\ stale' = stale \cup {symbol}
        /\ closers' = [closers EXCEPT ![symbol] = @ + 1]
        /\ account'[symbol] \in Nat
        /\ account'[symbol] > 0 => symbol \in astray'
        /\ astray \subseteq astray'
        /\ \A s \in Symbols \ {symbol} : account'[s] = account[s]
        /\ UNCHANGED <<positions, check, snap>>
    BY <1>2, BoundsAssumption DEF CloseOrder, Deciding, Collected, Min2, Absent
  <2> QED
    BY <2>1 DEF SyncInv, Agree, Tracked, Confirming
<1>3. CASE Confirm
  <2>1. /\ pc = "confirm" /\ pc' # "confirm"
        /\ positions' = [positions EXCEPT ![symbol] = account[symbol]]
        /\ UNCHANGED <<account, closers, stale, astray, check, snap>>
        /\ account[symbol] # Absent
    BY <1>3, BoundsAssumption DEF Confirm, Collected, Absent
  <2> QED
    BY <2>1 DEF SyncInv, Agree, Tracked, Confirming
<1>4. CASE ConfirmFails
  <2>1. /\ pc = "confirm" /\ pc' # "confirm" /\ astray' = astray \cup {symbol}
        /\ UNCHANGED <<account, positions, closers, stale, check, snap>>
    BY <1>4 DEF ConfirmFails, Collected
  <2> QED
    BY <2>1 DEF SyncInv, Agree, Tracked, Confirming
<1> QED
  BY <1>1, <1>2, <1>3, <1>4

(* The steps of the check that read the account or write the book.         *)
LEMMA SyncChecks ==
    ASSUME TypeOK, LockInv, SyncInv,
           Snapshot \/ EndCheck \/ \E s \in Symbols : Store(s)
    PROVE  SyncInv'
<1> USE DEF bookVars, dispatchVars, asyncVars, checkVars, historyVars, TypeOK
<1>1. CASE Snapshot
  BY <1>1 DEF Snapshot, SyncInv, Agree, Tracked, Confirming
<1>2. ASSUME NEW s \in Symbols, Store(s)
      PROVE  SyncInv'
  <2>1. pc # "confirm"
    BY <1>2 DEF Store, LockInv
  <2>2. snap[s] # Absent
    BY <1>2, BoundsAssumption DEF Absent
  <2> QED
    BY <1>2, <2>1, <2>2 DEF Store, MarkStale, SyncInv, Agree, Tracked, Confirming
<1>3. CASE EndCheck
  <2>1. pc # "confirm"
    BY <1>3 DEF EndCheck, LockInv
  <2> QED
    BY <1>3, <2>1 DEF EndCheck, SyncInv, Agree, Tracked, Confirming
<1> QED
  BY <1>1, <1>2, <1>3

LEMMA SyncStep ==
    ASSUME TypeOK, LockInv, SyncInv, [Next]_vars
    PROVE  SyncInv'
<1> USE DEF bookVars, dispatchVars, asyncVars, checkVars, historyVars, sameUpdate
<1>1. ASSUME NEW s \in Symbols, NEW t \in {"open", "close", "change"},
             Poll(t, s) \/ NextUpdate(t, s)
      PROVE  SyncInv'
  BY <1>1, SyncKept DEF Poll, NextUpdate, Take
<1>2. CASE EndUpdates \/ GetPrices \/ onFailedTradePrep \/ Lock \/ Ignore \/ AppendIgnore
  BY <1>2, SyncKept DEF EndUpdates, GetPrices, onFailedTradePrep, Lock, Ignore, AppendIgnore,
     Collected
<1>3. CASE OpenRefused \/ CloseIgnored \/ CloseRefused \/ ChangeRefused
  BY <1>3, SyncKept DEF OpenRefused, CloseIgnored, CloseRefused, ChangeRefused, Collected,
     Deciding
<1>4. CASE StartCheck \/ TryLock \/ Answer \/ CheckLock \/ RequestFails \/ Cancel
  BY <1>4, SyncKept DEF StartCheck, TryLock, Answer, CheckLock, RequestFails, Cancel
<1>5. ASSUME NEW s \in Symbols, RangeOver(s)
      PROVE  SyncInv'
  BY <1>5, SyncKept DEF RangeOver
<1>6. CASE UNCHANGED vars
  BY <1>6, SyncKept DEF vars
<1> QED
  BY <1>1, <1>2, <1>3, <1>4, <1>5, <1>6, SyncAround, SyncOrders, SyncChecks
     DEF Next, DispatchStep, CheckStep

-----------------------------------------------------------------------------
LEMMA InitIInv == Init => IInv
<1> SUFFICES ASSUME Init PROVE IInv
  OBVIOUS
<1> USE BoundsAssumption
<1>1. TypeOK
  <2>1. positions \in [Symbols -> Absent .. MaxQty]
    <3>1. \A s \in Symbols : (IF s \in traderOpen /\ account[s] > 0 THEN account[s] ELSE Absent)
                              \in Absent .. MaxQty
      BY DEF Init, Absent
    <3> QED
      BY <3>1 DEF Init, handleTraderBotDifferences
  <2>2. ignoreList \in [Symbols -> Nat]
    BY DEF Init, handleTraderBotDifferences
  <2>3. Zero \in [Symbols -> Nat] /\ Zero \in [Symbols -> 0 .. MaxQty]
    BY DEF Zero
  <2>4. astray \subseteq Symbols
    BY DEF Init
  <2>5. /\ closers \in [Symbols -> Nat] /\ ignoring \in [Symbols -> Nat]
        /\ appending \in [Symbols -> Nat] /\ snap \in [Symbols -> 0 .. MaxQty]
    BY <2>3 DEF Init
  <2>6. /\ account \in [Symbols -> 0 .. MaxQty] /\ posMtx \in {Free, "bot", "checker"}
        /\ traderOpen \subseteq Symbols /\ symbol \in Symbols
        /\ left \subseteq Symbols /\ visit \subseteq Symbols /\ stale \subseteq Symbols
        /\ pc = "poll" /\ type = "open" /\ check = "idle"
    BY DEF Init
  <2>7. updates \in 0 .. MaxUpdates /\ manual \in 0 .. MaxManual
    BY DEF Init
  <2>8. cancelled \in BOOLEAN /\ crashed \in BOOLEAN
    BY DEF Init
  <2> QED
    BY <2>1, <2>2, <2>4, <2>5, <2>6, <2>7, <2>8 DEF TypeOK
<1>2. LockInv /\ OpenInv
  BY DEF Init, LockInv, OpenInv, Free
<1>3. SyncInv
  BY DEF Init, handleTraderBotDifferences, Zero, Absent, SyncInv, Agree, Tracked, Confirming
<1> QED
  BY <1>1, <1>2, <1>3 DEF IInv

LEMMA StepIInv == IInv /\ [Next]_vars => IInv'
  BY TypeStep, OpenStep, SyncStep DEF IInv

LEMMA Inductive == Spec => []IInv
  BY InitIInv, StepIInv, PTL DEF Spec

(* The quantities stay those an account can have: a reduce-only order and  *)
(* an increase keep it between 0 and the bound (botRuntime.go).            *)
THEOREM TypeCorrect == Spec => []TypeOK
  BY Inductive, PTL DEF IInv

(* At rest the book is what the account holds, but for the symbols that    *)
(* one of the named causes has led astray (botRuntime.go:485-522, 558-585, *)
(* 851-865, 982-1018).                                                     *)
THEOREM BookInSync == Spec => []InSync
<1>1. IInv => InSync
  BY DEF IInv, SyncInv, InSync, Quiet, Zero, Agree, Confirming
<1> QED
  BY <1>1, Inductive, PTL

(* No open leaves the bot with more positions than its settings allow,     *)
(* whatever checks and late deletions do meanwhile (botRuntime.go:364-373).*)
THEOREM PositionsWithinMax == Spec => WithinMaxPositions
<1>1. IInv /\ [Next]_vars
      => [type = "open" /\ posMtx = "bot" /\ ~ (Tracked' \subseteq Tracked)
          => Cardinality(Tracked') <= MaxOpenPositions]_vars
  <2> SUFFICES ASSUME IInv, [Next]_vars, type = "open", posMtx = "bot",
                      ~ (Tracked' \subseteq Tracked)
               PROVE  Cardinality(Tracked') <= MaxOpenPositions
    OBVIOUS
  <2>1. Confirm
    BY BookShrinks DEF IInv
  <2>2. Cardinality(Tracked) < MaxOpenPositions
    BY <2>1 DEF Confirm, IInv, OpenInv
  <2>3. Tracked' \subseteq Tracked \cup {symbol}
    BY <2>1 DEF Confirm, Tracked, IInv, TypeOK
  <2>4. /\ IsFiniteSet(Tracked \cup {symbol})
        /\ Cardinality(Tracked \cup {symbol}) <= Cardinality(Tracked) + 1
    <3>1. /\ IsFiniteSet(Tracked \cup {symbol})
          /\ Cardinality(Tracked \cup {symbol})
             = IF symbol \in Tracked THEN Cardinality(Tracked) ELSE Cardinality(Tracked) + 1
      BY TrackedFinite, FS_AddElement
    <3>2. Cardinality(Tracked) \in Nat
      BY TrackedFinite
    <3> QED
      BY <3>1, <3>2
  <2>5. Cardinality(Tracked') <= Cardinality(Tracked \cup {symbol}) /\ Cardinality(Tracked') \in Nat
    BY <2>3, <2>4, FS_Subset, FS_CardinalityType
  <2>6. Cardinality(Tracked \cup {symbol}) \in Nat
    BY <2>4, FS_CardinalityType
  <2> QED
    BY <2>2, <2>4, <2>5, <2>6, TrackedFinite, BoundsAssumption
<1> QED
  BY <1>1, Inductive, PTL DEF Spec, WithinMaxPositions

-----------------------------------------------------------------------------
(* The rounds of the checker.                                              *)

(* What the round will still start for the monitor it has counted: at most *)
(* one goroutine for each of its bots it has not reached, at least one for *)
(* each of those that were there when the range began and have stayed.     *)
AtMost == CASE rpc = "counted" -> on[cur]
            [] rpc = "bots" -> on[cur] \ seen
            [] OTHER -> {}
AtLeast == CASE rpc = "counted" -> on[cur]
             [] rpc = "bots" -> bots0 \ seen
             [] OTHER -> {}

CountInv ==
    /\ ~came => Running + Cardinality(AtMost) <= wg
    /\ ~went => Running + Cardinality(AtLeast) >= wg
    /\ rpc = "begin" => Running = 0 /\ wg = 0
    /\ overdue > 0 \/ dead = "counter" => came

RoundsIInv == RoundsTypeOK /\ CountInv

(* Sets of bots, and how many bots they have.                              *)
LEMMA SomeBots ==
    ASSUME NEW S, S \subseteq Bots
    PROVE  IsFiniteSet(S) /\ Cardinality(S) \in Nat
BY ObjectsAssumption, FS_Subset, FS_CardinalityType

LEMMA FewerBots ==
    ASSUME NEW T, T \subseteq Bots, NEW S, S \subseteq T
    PROVE  Cardinality(S) <= Cardinality(T)
BY SomeBots, FS_Subset

LEMMA OneBotLess ==
    ASSUME NEW S, S \subseteq Bots, NEW b
    PROVE  /\ b \in S => Cardinality(S \ {b}) = Cardinality(S) - 1
           /\ Cardinality(S \ {b}) >= Cardinality(S) - 1
<1>1. CASE b \in S
  BY <1>1, SomeBots, FS_RemoveElement
<1>2. CASE b \notin S
  <2>1. S \ {b} = S
    BY <1>2
  <2> QED
    BY <1>2, <2>1, SomeBots
<1> QED
  BY <1>1, <1>2

LEMMA NoBots == Cardinality({}) = 0
BY FS_EmptySet

(* A goroutine that starts or is done.                                     *)
LEMMA OneCheck ==
    ASSUME RoundsTypeOK, NEW b \in Bots, NEW n \in Nat,
           checking' = [checking EXCEPT ![b] = n]
    PROVE  /\ Running \in Nat /\ Running' \in Nat
           /\ Running' = Running - checking[b] + n
           /\ checking[b] \in Nat /\ checking[b] <= Running
<1> DEFINE g == checking'
<1>1. /\ \A c \in Bots : checking[c] \in Nat /\ g[c] \in Nat
      /\ \A c \in Bots \ {b} : g[c] = checking[c]
      /\ g[b] = n
  BY DEF RoundsTypeOK
<1>2. Running = Total(checking, Bots) /\ Running' = Total(g, Bots)
  BY DEF Running
<1> HIDE DEF g
<1>3. /\ Total(g, Bots) = Total(checking, Bots) - checking[b] + g[b]
      /\ checking[b] <= Total(checking, Bots)
  BY <1>1, ObjectsAssumption, TotalChange
<1>4. Total(g, Bots) \in Nat /\ Total(checking, Bots) \in Nat
  BY <1>1, ObjectsAssumption, TotalType
<1> QED
  BY <1>1, <1>2, <1>3, <1>4

LEMMA RunningType == RoundsTypeOK => Running \in Nat
BY ObjectsAssumption, TotalType DEF RoundsTypeOK, Running

LEMMA NoChecks ==
    ASSUME NEW f, f = [b \in Bots |-> 0]
    PROVE  Total(f, Bots) = 0
BY ObjectsAssumption, TotalZero

-----------------------------------------------------------------------------
LEMMA RoundsTypeStep ==
    ASSUME RoundsTypeOK, [RoundsNext]_roundVars
    PROVE  RoundsTypeOK'
<1> USE ObjectsAssumption
    DEF RoundsTypeOK, mapVars, rangeVars, groupVars, windowVars, Ranging
<1>1. ASSUME NEW m \in Monitors, NEW b \in Bots, Join(m, b)
      PROVE  RoundsTypeOK'
  BY <1>1 DEF Join
<1>2. ASSUME NEW m \in Monitors, NEW b \in Bots, Leave(m, b)
      PROVE  RoundsTypeOK'
  BY <1>2 DEF Leave, Removed
<1>3. ASSUME NEW m \in Monitors, RemoveMonitor(m)
      PROVE  RoundsTypeOK'
  BY <1>3 DEF RemoveMonitor
<1>4. ASSUME NEW m \in Monitors, NextMonitor(m)
      PROVE  RoundsTypeOK'
  <2>1. Cardinality(on[m]) \in Nat
    BY SomeBots
  <2> QED
    BY <1>4, <2>1 DEF NextMonitor
<1>5. ASSUME NEW b \in Bots, NextBot(b)
      PROVE  RoundsTypeOK'
  BY <1>5 DEF NextBot
<1>6. ASSUME NEW b \in Bots, CheckDone(b)
      PROVE  RoundsTypeOK'
  <2>1. wg' \in Nat /\ checking' \in [Bots -> Nat]
    BY <1>6 DEF CheckDone
  <2>2. ASSUME NEW m \in reg, Removed(m, b)
        PROVE  RoundsTypeOK'
    BY <1>6, <2>1, <2>2 DEF CheckDone, Removed
  <2> QED
    BY <1>6, <2>1, <2>2 DEF CheckDone
<1>7. CASE BeginRound \/ BeginBots \/ EndRange
  BY <1>7 DEF BeginRound, BeginBots, EndRange
<1>8. CASE EndRound
  BY <1>8, RunningType DEF EndRound
<1>9. CASE DonePanics \/ MapFault \/ UNCHANGED roundVars
  BY <1>9 DEF DonePanics, MapFault, roundVars
<1> QED
  BY <1>1, <1>2, <1>3, <1>4, <1>5, <1>6, <1>7, <1>8, <1>9 DEF RoundsNext, Rounds, Done, Moves

(* A bot that leaves makes what is to be started less, and what is sure to *)
(* be started only if it leaves in the window.                             *)
LEMMA RemovedKeepsCount ==
    ASSUME RoundsIInv, NEW m \in Monitors, NEW b \in Bots, Removed(m, b)
    PROVE  /\ Cardinality(AtMost') <= Cardinality(AtMost)
           /\ Cardinality(AtMost) \in Nat /\ Cardinality(AtMost') \in Nat
           /\ ~ went' => ~ went /\ Cardinality(AtLeast') = Cardinality(AtLeast)
           /\ Cardinality(AtLeast) \in Nat
           /\ UNCHANGED <<rpc, overdue, dead, came>>
<1> DEFINE S == AtMost'
           T == AtMost
<1>1. S \subseteq T /\ T \subseteq Bots
  BY DEF Removed, AtMost, Ranging, RoundsIInv, RoundsTypeOK
<1>2. ~ went' => ~ went /\ AtLeast' = AtLeast
  BY DEF Removed, AtLeast, Ranging, RoundsIInv, RoundsTypeOK
<1>3. AtLeast \subseteq Bots
  BY DEF AtLeast, RoundsIInv, RoundsTypeOK
<1>4. UNCHANGED <<rpc, overdue, dead, came>>
  BY DEF Removed
<1>5. Cardinality(AtLeast) \in Nat
  BY <1>3, SomeBots
<1> HIDE DEF S, T
<1>6. Cardinality(S) <= Cardinality(T) /\ Cardinality(S) \in Nat /\ Cardinality(T) \in Nat
  BY <1>1, FewerBots, SomeBots
<1> QED
  BY <1>2, <1>4, <1>5, <1>6 DEF S, T

(* Whatever moves bots and leaves the counter and the goroutines alone.    *)
LEMMA MovesKeepCount ==
    ASSUME RoundsIInv,
           \E m \in Monitors : RemoveMonitor(m) \/ \E b \in Bots : Join(m, b) \/ Leave(m, b)
    PROVE  CountInv'
<1> USE DEF RoundsIInv, mapVars, rangeVars, groupVars, windowVars
<1>1. ASSUME NEW m \in Monitors, RemoveMonitor(m)
      PROVE  CountInv'
  BY <1>1 DEF RemoveMonitor, CountInv, AtMost, AtLeast, Running
<1>2. ASSUME NEW m \in Monitors, NEW b \in Bots, Join(m, b)
      PROVE  CountInv'
  <2>1. UNCHANGED <<rpc, cur, bots0, seen, wg, Running, overdue, dead, went>>
    BY <1>2 DEF Join, Running
  <2>2. ~ came' => ~ came /\ AtMost' = AtMost
    BY <1>2 DEF Join, Ranging, AtMost, RoundsTypeOK
  <2>3. AtLeast \subseteq AtLeast' /\ AtLeast' \subseteq Bots
    BY <1>2 DEF Join, AtLeast, RoundsTypeOK
  <2>4. /\ Cardinality(AtLeast) <= Cardinality(AtLeast')
        /\ Cardinality(AtLeast) \in Nat /\ Cardinality(AtLeast') \in Nat
    <3> DEFINE S == AtLeast
               T == AtLeast'
    <3>1. S \subseteq T /\ T \subseteq Bots
      BY <2>3
    <3> HIDE DEF S, T
    <3>2. Cardinality(S) <= Cardinality(T) /\ Cardinality(S) \in Nat /\ Cardinality(T) \in Nat
      BY <3>1, FewerBots, SomeBots
    <3> QED
      BY <3>2 DEF S, T
  <2>5. came => came'
    BY <1>2 DEF Join
  <2> QED
    BY <2>1, <2>2, <2>4, <2>5, RunningType DEF CountInv, RoundsTypeOK
<1>3. ASSUME NEW m \in Monitors, NEW b \in Bots, Leave(m, b)
      PROVE  CountInv'
  <2>1. Removed(m, b) /\ UNCHANGED <<wg, Running>>
    BY <1>3 DEF Leave, Running
  <2> QED
    BY <2>1, RemovedKeepsCount, RunningType DEF CountInv, RoundsTypeOK
<1> QED
  BY <1>1, <1>2, <1>3

LEMMA DoneKeepsCount ==
    ASSUME RoundsIInv, NEW b \in Bots, CheckDone(b)
    PROVE  CountInv'
<1>1. wg' = wg - 1 /\ wg > 0 /\ wg \in Nat
  BY DEF CheckDone, RoundsIInv, RoundsTypeOK
<1>2. Running \in Nat /\ Running' = Running - 1
  <2> DEFINE n == checking[b] - 1
  <2>1. n \in Nat /\ checking' = [checking EXCEPT ![b] = n]
    BY DEF CheckDone, RoundsIInv, RoundsTypeOK
  <2>2. checking[b] \in Nat
    BY DEF RoundsIInv, RoundsTypeOK
  <2> HIDE DEF n
  <2>3. Running \in Nat /\ Running' = Running - checking[b] + n
    BY <2>1, OneCheck DEF RoundsIInv
  <2> QED
    BY <2>2, <2>3 DEF n
<1>3. rpc # "begin"
  BY <1>1 DEF RoundsIInv, CountInv
<1>4. CASE UNCHANGED <<mapVars, rpc, rangeVars, overdue, dead, windowVars>>
  <2>1. UNCHANGED <<rpc, AtMost, AtLeast, overdue, dead, came, went>>
    BY <1>4 DEF mapVars, rangeVars, windowVars, AtMost, AtLeast
  <2>2. Cardinality(AtMost) \in Nat /\ Cardinality(AtLeast) \in Nat
    <3>1. AtMost \subseteq Bots /\ AtLeast \subseteq Bots
      BY DEF AtMost, AtLeast, RoundsIInv, RoundsTypeOK
    <3> QED
      BY <3>1, SomeBots
  <2> QED
    BY <1>1, <1>2, <1>3, <2>1, <2>2 DEF RoundsIInv, CountInv
<1>5. ASSUME NEW m \in reg, Removed(m, b)
      PROVE  CountInv'
  <2>1. m \in Monitors
    BY DEF RoundsIInv, RoundsTypeOK
  <2> QED
    BY <1>1, <1>2, <1>3, <1>5, <2>1, RemovedKeepsCount DEF RoundsIInv, CountInv
<1> QED
  BY <1>4, <1>5 DEF CheckDone

LEMMA NextBotKeepsCount ==
    ASSUME RoundsIInv, NEW b \in Bots, NextBot(b)
    PROVE  CountInv'
<1> DEFINE S == AtMost
           T == AtLeast
<1>1. /\ b \in S /\ AtMost' = S \ {b} /\ AtLeast' = T \ {b}
      /\ S \subseteq Bots /\ T \subseteq Bots
  BY DEF NextBot, mapVars, AtMost, AtLeast, RoundsIInv, RoundsTypeOK
<1>2. /\ Running \in Nat /\ Running' = Running + 1
      /\ wg' = wg /\ wg \in Nat
      /\ rpc' # "begin"
      /\ UNCHANGED <<overdue, dead, came, went>>
  <2> DEFINE n == checking[b] + 1
  <2>1. n \in Nat /\ checking' = [checking EXCEPT ![b] = n]
    BY DEF NextBot, RoundsIInv, RoundsTypeOK
  <2>2. checking[b] \in Nat
    BY DEF RoundsIInv, RoundsTypeOK
  <2> HIDE DEF n
  <2>3. Running \in Nat /\ Running' = Running - checking[b] + n
    BY <2>1, OneCheck DEF RoundsIInv
  <2>4. Running \in Nat /\ Running' = Running + 1
    BY <2>2, <2>3 DEF n
  <2> QED
    BY <2>4 DEF NextBot, windowVars, RoundsIInv, RoundsTypeOK
<1>3. /\ ~came => Running + Cardinality(S) <= wg
      /\ ~went => Running + Cardinality(T) >= wg
      /\ overdue > 0 \/ dead = "counter" => came
  BY DEF RoundsIInv, CountInv
<1> HIDE DEF S, T
<1>4. /\ Cardinality(S \ {b}) = Cardinality(S) - 1
      /\ Cardinality(T \ {b}) >= Cardinality(T) - 1
      /\ Cardinality(S) \in Nat /\ Cardinality(T) \in Nat
      /\ Cardinality(S \ {b}) \in Nat /\ Cardinality(T \ {b}) \in Nat
  <2>1. S \ {b} \subseteq Bots /\ T \ {b} \subseteq Bots
    BY <1>1
  <2> QED
    BY <1>1, <2>1, OneBotLess, SomeBots
<1> QED
  BY <1>1, <1>2, <1>3, <1>4 DEF CountInv

LEMMA CountStep ==
    ASSUME RoundsIInv, [RoundsNext]_roundVars
    PROVE  CountInv'
<1> USE DEF RoundsIInv, mapVars, rangeVars, groupVars, windowVars
<1>1. CASE UNCHANGED roundVars
  BY <1>1 DEF roundVars, CountInv, AtMost, AtLeast, Running
<1>2. CASE BeginRound
  <2>1. /\ UNCHANGED <<Running, wg, overdue, dead, came, went>>
        /\ rpc = "begin" /\ rpc' = "mons"
    BY <1>2 DEF BeginRound, Running
  <2>2. AtMost' = {} /\ AtLeast' = {}
    BY <2>1 DEF AtMost, AtLeast
  <2> QED
    BY <2>1, <2>2, NoBots DEF CountInv
<1>3. ASSUME NEW m \in Monitors, NextMonitor(m)
      PROVE  CountInv'
  <2>1. /\ UNCHANGED <<Running, overdue, dead, came, went>>
        /\ rpc = "mons" /\ rpc' = "counted" /\ wg' = wg + Cardinality(on[m])
    BY <1>3 DEF NextMonitor, Running
  <2>2. AtMost = {} /\ AtLeast = {} /\ AtMost' = on[m] /\ AtLeast' = on[m]
    BY <1>3 DEF NextMonitor, AtMost, AtLeast
  <2>3. Cardinality(on[m]) \in Nat /\ wg \in Nat /\ Running \in Nat
    BY SomeBots, RunningType DEF RoundsTypeOK
  <2> QED
    BY <2>1, <2>2, <2>3, NoBots DEF CountInv
<1>4. CASE BeginBots
  <2>1. /\ UNCHANGED <<Running, wg, overdue, dead, came, went>>
        /\ rpc' = "bots"
    BY <1>4 DEF BeginBots, Running
  <2>2. AtMost' = AtMost /\ AtLeast' = AtLeast
    BY <1>4 DEF BeginBots, AtMost, AtLeast
  <2> QED
    BY <2>1, <2>2 DEF CountInv
<1>5. CASE EndRange
  <2>1. /\ UNCHANGED <<Running, wg, overdue, dead, came, went>>
        /\ rpc \in {"bots", "mons"} /\ rpc' \in {"mons", "wait"}
    BY <1>5 DEF EndRange, Running
  <2>2. AtMost' = {} /\ AtLeast' = {} /\ AtLeast = {}
    BY <1>5 DEF EndRange, AtMost, AtLeast
  <2>3. Cardinality(AtMost) \in Nat /\ wg \in Nat /\ Running \in Nat
    <3>1. AtMost \subseteq Bots
      BY DEF AtMost, RoundsTypeOK
    <3> QED
      BY <3>1, SomeBots, RunningType DEF RoundsTypeOK
  <2> QED
    BY <2>1, <2>2, <2>3, NoBots DEF CountInv
<1>6. CASE EndRound
  <2>1. Running' = 0
    BY <1>6, NoChecks DEF EndRound, Running
  <2>2. /\ rpc' = "begin" /\ wg = 0 /\ wg' = 0 /\ overdue' = overdue + Running
        /\ UNCHANGED <<dead, came, went>>
        /\ AtMost = {} /\ AtMost' = {} /\ AtLeast' = {}
    BY <1>6 DEF EndRound, AtMost, AtLeast
  <2>3. overdue \in Nat /\ Running \in Nat
    BY RunningType DEF RoundsTypeOK
  <2> QED
    BY <2>1, <2>2, <2>3, NoBots DEF CountInv
<1>7. CASE DonePanics \/ MapFault
  <2>1. UNCHANGED <<Running, AtMost, AtLeast, rpc, wg, overdue, came, went>>
    BY <1>7 DEF DonePanics, MapFault, Running, AtMost, AtLeast
  <2>2. dead' = "counter" => came
    <3>1. Running > 0 /\ wg = 0 => came
      <4>1. AtMost \subseteq Bots
        BY DEF AtMost, RoundsTypeOK
      <4> QED
        BY <4>1, SomeBots, RunningType DEF CountInv
    <3> QED
      BY <1>7, <3>1 DEF DonePanics, MapFault, CountInv
  <2> QED
    BY <2>1, <2>2 DEF CountInv
<1> QED
  BY <1>1, <1>2, <1>3, <1>4, <1>5, <1>6, <1>7, MovesKeepCount, NextBotKeepsCount, DoneKeepsCount
     DEF RoundsNext, Rounds, Done, Moves

-----------------------------------------------------------------------------
LEMMA RoundsInitIInv == RoundsInit => RoundsIInv
<1> SUFFICES ASSUME RoundsInit PROVE RoundsIInv
  OBVIOUS
<1>1. RoundsTypeOK
  <2>1. cur \in Monitors
    BY ObjectsAssumption DEF RoundsInit
  <2>2. moves \in 0 .. MaxMoves
    BY ObjectsAssumption DEF RoundsInit
  <2>3. checking \in [Bots -> Nat]
    BY DEF RoundsInit
  <2>4. /\ reg \subseteq used /\ used \subseteq Monitors /\ on \in [Monitors -> SUBSET Bots]
        /\ rpc = "begin" /\ dead = "no"
        /\ mons0 \subseteq Monitors /\ mons \subseteq Monitors
        /\ bots0 \subseteq Bots /\ seen \subseteq Bots
        /\ wg \in Nat /\ overdue \in Nat
    BY DEF RoundsInit
  <2>5. came \in BOOLEAN /\ went \in BOOLEAN
    BY DEF RoundsInit
  <2> QED
    BY <2>1, <2>2, <2>3, <2>4, <2>5 DEF RoundsTypeOK
<1>2. Running = 0
  BY NoChecks DEF RoundsInit, Running
<1>3. AtMost = {} /\ AtLeast = {}
  BY DEF RoundsInit, AtMost, AtLeast
<1> QED
  BY <1>1, <1>2, <1>3, NoBots DEF RoundsInit, RoundsIInv, CountInv

LEMMA RoundsInductive == RoundsSpec => []RoundsIInv
<1>1. RoundsIInv /\ [RoundsNext]_roundVars => RoundsIInv'
  BY RoundsTypeStep, CountStep DEF RoundsIInv
<1> QED
  BY <1>1, RoundsInitIInv, PTL DEF RoundsSpec

(* A round has a counter and goroutines that are natural numbers: no step  *)
(* takes the counter below zero without the program's end (handler.go).    *)
THEOREM RoundsTypeCorrect == RoundsSpec => []RoundsTypeOK
BY RoundsInductive, PTL DEF RoundsIInv

(* The counter of a round is right, or a bot came or left while it was     *)
(* being made (handler.go:60-76).                                          *)
THEOREM CounterIsRight == RoundsSpec => []CounterMatches
<1>1. RoundsIInv => CounterMatches
  <2> SUFFICES ASSUME RoundsIInv PROVE CounterMatches
    OBVIOUS
  <2>1. rpc = "wait" => AtMost = {} /\ AtLeast = {}
    BY DEF AtMost, AtLeast
  <2>2. wg \in Nat /\ Running \in Nat
    BY RunningType DEF RoundsIInv, RoundsTypeOK
  <2> QED
    BY <2>1, <2>2, NoBots DEF RoundsIInv, CountInv, CounterMatches
<1> QED
  BY <1>1, RoundsInductive, PTL
=============================================================================
