------------------------- MODULE BotLifecycleProofs -------------------------
(* Proofs about BotLifecycle, for any number of bots, traders, requests    *)
(* and balances: its invariants first, then that it implements the ledger  *)
(* CpytBalance (LInv, LedgerIsKept).                                       *)
EXTENDS BotLifecycle, TLAPS

(* What a stop has found when it needs it, and a start too.                *)
FoundInv ==
    \A r \in Requests :
        /\ pc[r] \in {"differences", "addBot", "getBot", "removeBot", "giveBack", "removeMonitor", "end"}
           => mon[r] # None
        /\ pc[r] \in {"idle", "setStopping", "findMonitor", "getBot"} => obj[r] = None
        /\ pc[r] \in {"removeBot", "giveBack"} => obj[r] # None
        /\ pc[r] = "setInactive" /\ obj[r] # None => mon[r] # None

(* The start that launched a monitor is past addMonitor, and stays so.     *)
Launched(m) == m # None /\ pc[m] \in {"rollback", "done"}

(* What is registered for a trader follows it, was launched and never told *)
(* to end; the monitor a stop works on was registered, and is no more when *)
(* the stop is about to end it.                                            *)
RegisteredInv ==
    /\ \A t \in Traders :
          runningMons[t] # None
          => /\ Launched(runningMons[t])
             /\ TraderOf[bot[runningMons[t]]] = t
             /\ runningMons[t] \notin ended
    /\ \A r \in Requests :
          /\ pc[r] \in {"getBot", "removeBot", "setInactive", "giveBack", "removeMonitor", "end"}
             /\ mon[r] # None
             => /\ Launched(mon[r])
                /\ TraderOf[bot[mon[r]]] = TraderOf[bot[r]]
          /\ pc[r] = "end" => \A t \in Traders : runningMons[t] # mon[r]
    /\ \A m \in ended : Launched(m)

IInv == TypeOK /\ FoundInv /\ RegisteredInv

(* The specification starts in the inductive invariant.                    *)
LEMMA InitIInv == Init => IInv
  BY BalanceAssumption, RequestsAssumption
  DEF Init, IInv, TypeOK, FoundInv, RegisteredInv, Launched, Requests, None, Statuses,
      Labels, Sync, StartSync, StopSync, StopAsync, Unreduced, Reduced

(* Moving a request to a known label keeps the type of pc.                 *)
LEMMA GotoType ==
  ASSUME pc \in [Requests -> Labels], NEW r \in Requests,
         \E label \in Labels : pc' = [pc EXCEPT ![r] = label]
  PROVE  pc' \in [Requests -> Labels]
  OBVIOUS

(* Every step keeps the types.                                             *)
LEMMA TypeStep == TypeOK /\ FoundInv /\ [Next]_vars => TypeOK'
<1> SUFFICES ASSUME TypeOK, FoundInv, [Next]_vars PROVE TypeOK'
  OBVIOUS
<1> USE BalanceAssumption, TraderAssumption
    DEF TypeOK, Goto, SetBotActivity, Statuses, dbVars, handlerVars, startVars, stopVars, fixVars, asyncVars,
        Labels, Sync, StartSync, StopSync, StopAsync, Unreduced, Reduced
<1>1. ASSUME NEW r \in Requests, ReceiveStart(r) PROVE TypeOK'
  BY <1>1 DEF ReceiveStart, Idle
<1>2. ASSUME NEW r \in Requests, ReceiveStop(r) PROVE TypeOK'
  BY <1>2 DEF ReceiveStop, Idle
<1>3. ASSUME NEW r \in Requests, NEW q \in Requests, ReceiveRestart(r, q) PROVE TypeOK'
  BY <1>3 DEF ReceiveRestart, Idle
<1>4. ASSUME NEW r \in Requests, StopReturned(r) PROVE TypeOK'
  BY <1>4 DEF StopReturned
<1>5. ASSUME NEW r \in Requests, ReadConfig(r) PROVE TypeOK'
  BY <1>5 DEF ReadConfig, ReturnStart
<1>6. ASSUME NEW r \in Requests, SetStarting(r) PROVE TypeOK'
  BY <1>6 DEF SetStarting
<1>7. ASSUME NEW r \in Requests, MakeBot(r) PROVE TypeOK'
  <2>1. pc' \in [Requests -> Labels]
    <3>1. \E label \in {"reduce", "rollback"} : pc' = [pc EXCEPT ![r] = label]
      BY <1>7, Zenon DEF MakeBot, Goto
    <3> QED
      BY <3>1, GotoType
  <2>2. CASE \E n \in Balances : bal' = [bal EXCEPT ![r] = n]
    <3>1. PICK n \in Balances : bal' = [bal EXCEPT ![r] = n]
      BY <2>2
    <3>2. bal' \in [Requests -> Nat]
      BY <3>1
    <3> QED
      BY <1>7, <2>1, <3>2 DEF MakeBot
  <2>3. CASE UNCHANGED bal
    BY <1>7, <2>1, <2>3 DEF MakeBot
  <2> QED
    BY <1>7, <2>2, <2>3 DEF MakeBot
<1>8. ASSUME NEW r \in Requests, CheckAndReduceCpytBalance(r) PROVE TypeOK'
  <2>1. bal[r] \in Nat
    OBVIOUS
  <2>2. pc' \in [Requests -> Labels]
    <3>1. \E label \in {"getMonitor", "readBots", "rollback"} : pc' = [pc EXCEPT ![r] = label]
      BY <1>8 DEF CheckAndReduceCpytBalance
    <3> QED
      BY <3>1, GotoType
  <2>3. remaining' \in Int
    BY <1>8, <2>1 DEF CheckAndReduceCpytBalance
  <2> QED
    BY <1>8, <2>2, <2>3 DEF CheckAndReduceCpytBalance
<1>9. ASSUME NEW r \in Requests, ReadBots(r) PROVE TypeOK'
  BY <1>9 DEF ReadBots
<1>10. ASSUME NEW r \in Requests, ReadUser(r) PROVE TypeOK'
  BY <1>10 DEF ReadUser
<1>11. ASSUME NEW r \in Requests, NEW b \in Bots, SumBalances(r, b) PROVE TypeOK'
  <2>1. Found(b) \in Requests \cup {None}
    BY DEF Found
  <2>2. CASE Found(b) = None
    BY <1>11, <2>2 DEF SumBalances
  <2>3. CASE Found(b) # None
    <3>1. /\ total' = [total EXCEPT ![r] = @ + bal[Found(b)]]
          /\ todo' = [todo EXCEPT ![r] = @ \ {b}]
          /\ UNCHANGED <<pc, dbVars, handlerVars, bot, mon, startVars, stopVars, seen, asyncVars>>
      BY <1>11, <2>3 DEF SumBalances
    <3>2. bal[Found(b)] \in Nat /\ total[r] \in Nat /\ todo[r] \subseteq Bots
      BY <2>1, <2>3
    <3>3. total' \in [Requests -> Nat] /\ todo' \in [Requests -> SUBSET Bots]
      BY <3>1, <3>2
    <3> QED
      BY <3>1, <3>3
  <2> QED
    BY <2>2, <2>3
<1>12. ASSUME NEW r \in Requests, CompareBalance(r) PROVE TypeOK'
  BY <1>12 DEF CompareBalance
<1>13. ASSUME NEW r \in Requests, FixBalance(r) PROVE TypeOK'
  BY <1>13 DEF FixBalance
<1>14. ASSUME NEW r \in Requests, GetMonitor(r) PROVE TypeOK'
  <2>1. pc' \in [Requests -> Labels]
    <3>1. \E label \in {"differences", "Wait"} : pc' = [pc EXCEPT ![r] = label]
      BY <1>14, Zenon DEF GetMonitor, Goto
    <3> QED
      BY <3>1, GotoType
  <2>2. mon' \in [Requests -> Requests \cup {None}]
    <3>1. mon' = [mon EXCEPT ![r] = runningMons[TraderOf[bot[r]]]] \/ mon' = mon
      BY <1>14 DEF GetMonitor
    <3> QED
      BY <3>1
  <2> QED
    BY <1>14, <2>1, <2>2 DEF GetMonitor
<1>15. ASSUME NEW r \in Requests, WaitReturns(r) PROVE TypeOK'
  BY <1>15 DEF WaitReturns
<1>16. ASSUME NEW r \in Requests, CreateNewMonitor(r) PROVE TypeOK'
  <2>1. pc' \in [Requests -> Labels]
    <3>1. \E label \in {"differences", "addBack"} : pc' = [pc EXCEPT ![r] = label]
      BY <1>16, Zenon DEF CreateNewMonitor, Goto
    <3> QED
      BY <3>1, GotoType
  <2>2. mon' \in [Requests -> Requests \cup {None}]
    <3>1. mon' = [mon EXCEPT ![r] = r] \/ mon' = mon
      BY <1>16 DEF CreateNewMonitor
    <3> QED
      BY <3>1
  <2> QED
    BY <1>16, <2>1, <2>2 DEF CreateNewMonitor
<1>17. ASSUME NEW r \in Requests, HandleTraderBotDifferences(r) PROVE TypeOK'
  BY <1>17 DEF HandleTraderBotDifferences
<1>18. ASSUME NEW r \in Requests, AddBot(r) PROVE TypeOK'
  <2>1. mon[r] \in Requests
    BY <1>18 DEF AddBot, FoundInv
  <2>2. bots' \in [Requests -> [Bots -> Requests \cup {None}]]
    BY <1>18, <2>1 DEF AddBot
  <2>3. pc' \in [Requests -> Labels]
    <3>1. \E label \in {"addMonitor", "rollback", "done"} : pc' = [pc EXCEPT ![r] = label]
      BY <1>18, Zenon DEF AddBot, Started, ReturnStart
    <3> QED
      BY <3>1, GotoType
  <2>4. nested' \in [Requests -> BOOLEAN]
    BY <1>18 DEF AddBot, Started, ReturnStart
  <2>5. posts' \subseteq Requests
    BY <1>18 DEF AddBot, Started, ReturnStart
  <2> QED
    BY <1>18, <2>2, <2>3, <2>4, <2>5 DEF AddBot
<1>19. ASSUME NEW r \in Requests, AddMonitor(r) PROVE TypeOK'
  BY <1>19 DEF AddMonitor, Started, ReturnStart
<1>20. ASSUME NEW r \in Requests, PostBotLaunch(r) PROVE TypeOK'
  BY <1>20 DEF PostBotLaunch
<1>21. ASSUME NEW r \in Requests, AddBack(r) PROVE TypeOK'
  BY <1>21 DEF AddBack
<1>22. ASSUME NEW r \in Requests, Rollback(r) PROVE TypeOK'
  BY <1>22 DEF Rollback, ReturnStart
<1>23. ASSUME NEW r \in Requests, SetStopping(r) PROVE TypeOK'
  BY <1>23 DEF SetStopping
<1>24. ASSUME NEW r \in Requests, FindMonitor(r) PROVE TypeOK'
  BY <1>24 DEF FindMonitor
<1>25. ASSUME NEW r \in Requests, GetBot(r) PROVE TypeOK'
  BY <1>25 DEF GetBot, FoundInv
<1>26. ASSUME NEW r \in Requests, RemoveBotByHash(r) PROVE TypeOK'
  BY <1>26 DEF RemoveBotByHash
<1>27. ASSUME NEW r \in Requests, SetInactive(r) PROVE TypeOK'
  BY <1>27 DEF SetInactive
<1>28. ASSUME NEW r \in Requests, GiveBack(r) PROVE TypeOK'
  BY <1>28 DEF GiveBack
<1>29. ASSUME NEW r \in Requests, RemoveMonitor(r) PROVE TypeOK'
  BY <1>29 DEF RemoveMonitor
<1>30. ASSUME NEW r \in Requests, EndMonitor(r) PROVE TypeOK'
  BY <1>30 DEF EndMonitor, FoundInv
<1>31. ASSUME NEW b \in Bots, KeyInvalid(b) PROVE TypeOK'
  BY <1>31 DEF KeyInvalid, Found
<1>32. ASSUME NEW b \in Bots, KeyInvalidStatus(b) PROVE TypeOK'
  BY <1>32 DEF KeyInvalidStatus
<1>33. ASSUME UNCHANGED vars PROVE TypeOK'
  BY <1>33 DEF vars
<1> QED
  BY <1>1, <1>2, <1>3, <1>4, <1>5, <1>6, <1>7, <1>8, <1>9, <1>10, <1>11, <1>12, <1>13, <1>14, <1>15, <1>16, <1>17, <1>18, <1>19, <1>20, <1>21, <1>22, <1>23, <1>24, <1>25, <1>26, <1>27, <1>28, <1>29, <1>30, <1>31, <1>32, <1>33 DEF Next, StartStep, StopStep

(* Every step keeps FoundInv.                                              *)
LEMMA FoundStep == TypeOK /\ FoundInv /\ [Next]_vars => FoundInv'
<1> SUFFICES ASSUME TypeOK, FoundInv, [Next]_vars PROVE FoundInv'
  OBVIOUS
<1> USE DEF TypeOK, FoundInv, Goto, dbVars, handlerVars, startVars, stopVars, fixVars, asyncVars
<1>1. ASSUME NEW r \in Requests, ReceiveStart(r) PROVE FoundInv'
  BY <1>1 DEF ReceiveStart, Idle
<1>2. ASSUME NEW r \in Requests, ReceiveStop(r) PROVE FoundInv'
  BY <1>2 DEF ReceiveStop, Idle
<1>3. ASSUME NEW r \in Requests, NEW q \in Requests, ReceiveRestart(r, q) PROVE FoundInv'
  BY <1>3 DEF ReceiveRestart, Idle
<1>4. ASSUME NEW r \in Requests, StopReturned(r) PROVE FoundInv'
  BY <1>4 DEF StopReturned
<1>5. ASSUME NEW r \in Requests, ReadConfig(r) PROVE FoundInv'
  BY <1>5 DEF ReadConfig, ReturnStart
<1>6. ASSUME NEW r \in Requests, SetStarting(r) PROVE FoundInv'
  BY <1>6 DEF SetStarting
<1>7. ASSUME NEW r \in Requests, MakeBot(r) PROVE FoundInv'
  BY <1>7 DEF MakeBot
<1>8. ASSUME NEW r \in Requests, CheckAndReduceCpytBalance(r) PROVE FoundInv'
  BY <1>8 DEF CheckAndReduceCpytBalance
<1>9. ASSUME NEW r \in Requests, ReadBots(r) PROVE FoundInv'
  BY <1>9 DEF ReadBots
<1>10. ASSUME NEW r \in Requests, ReadUser(r) PROVE FoundInv'
  BY <1>10 DEF ReadUser
<1>11. ASSUME NEW r \in Requests, NEW b \in Bots, SumBalances(r, b) PROVE FoundInv'
  BY <1>11 DEF SumBalances, Found
<1>12. ASSUME NEW r \in Requests, CompareBalance(r) PROVE FoundInv'
  BY <1>12 DEF CompareBalance
<1>13. ASSUME NEW r \in Requests, FixBalance(r) PROVE FoundInv'
  BY <1>13 DEF FixBalance
<1>14. ASSUME NEW r \in Requests, GetMonitor(r) PROVE FoundInv'
  <2>1. \/ pc' = [pc EXCEPT ![r] = "Wait"] /\ mon' = mon
        \/ /\ pc' = [pc EXCEPT ![r] = "differences"]
           /\ mon' = [mon EXCEPT ![r] = runningMons[TraderOf[bot[r]]]]
           /\ runningMons[TraderOf[bot[r]]] # None
    BY <1>14 DEF GetMonitor
  <2>2. UNCHANGED obj
    BY <1>14 DEF GetMonitor
  <2> QED
    BY <2>1, <2>2
<1>15. ASSUME NEW r \in Requests, WaitReturns(r) PROVE FoundInv'
  BY <1>15 DEF WaitReturns
<1>16. ASSUME NEW r \in Requests, CreateNewMonitor(r) PROVE FoundInv'
  <2>1. r # None
    BY DEF Requests, None
  <2>2. CASE mon' = [mon EXCEPT ![r] = r]
    BY <1>16, <2>1, <2>2 DEF CreateNewMonitor
  <2>3. CASE UNCHANGED mon /\ Goto(r, "addBack")
    BY <1>16, <2>3 DEF CreateNewMonitor
  <2> QED
    BY <1>16, <2>2, <2>3 DEF CreateNewMonitor
<1>17. ASSUME NEW r \in Requests, HandleTraderBotDifferences(r) PROVE FoundInv'
  BY <1>17 DEF HandleTraderBotDifferences
<1>18. ASSUME NEW r \in Requests, AddBot(r) PROVE FoundInv'
  BY <1>18 DEF AddBot, Started, ReturnStart
<1>19. ASSUME NEW r \in Requests, AddMonitor(r) PROVE FoundInv'
  BY <1>19 DEF AddMonitor, Started, ReturnStart
<1>20. ASSUME NEW r \in Requests, PostBotLaunch(r) PROVE FoundInv'
  BY <1>20 DEF PostBotLaunch
<1>21. ASSUME NEW r \in Requests, AddBack(r) PROVE FoundInv'
  BY <1>21 DEF AddBack
<1>22. ASSUME NEW r \in Requests, Rollback(r) PROVE FoundInv'
  BY <1>22 DEF Rollback, ReturnStart
<1>23. ASSUME NEW r \in Requests, SetStopping(r) PROVE FoundInv'
  BY <1>23 DEF SetStopping
<1>24. ASSUME NEW r \in Requests, FindMonitor(r) PROVE FoundInv'
  BY <1>24 DEF FindMonitor
<1>25. ASSUME NEW r \in Requests, GetBot(r) PROVE FoundInv'
  BY <1>25 DEF GetBot
<1>26. ASSUME NEW r \in Requests, RemoveBotByHash(r) PROVE FoundInv'
  BY <1>26 DEF RemoveBotByHash
<1>27. ASSUME NEW r \in Requests, SetInactive(r) PROVE FoundInv'
  BY <1>27 DEF SetInactive
<1>28. ASSUME NEW r \in Requests, GiveBack(r) PROVE FoundInv'
  BY <1>28 DEF GiveBack
<1>29. ASSUME NEW r \in Requests, RemoveMonitor(r) PROVE FoundInv'
  BY <1>29 DEF RemoveMonitor
<1>30. ASSUME NEW r \in Requests, EndMonitor(r) PROVE FoundInv'
  BY <1>30 DEF EndMonitor
<1>31. ASSUME NEW b \in Bots, KeyInvalid(b) PROVE FoundInv'
  BY <1>31 DEF KeyInvalid, Found
<1>32. ASSUME NEW b \in Bots, KeyInvalidStatus(b) PROVE FoundInv'
  BY <1>32 DEF KeyInvalidStatus
<1>33. ASSUME UNCHANGED vars PROVE FoundInv'
  BY <1>33 DEF vars
<1> QED
  BY <1>1, <1>2, <1>3, <1>4, <1>5, <1>6, <1>7, <1>8, <1>9, <1>10, <1>11, <1>12, <1>13, <1>14, <1>15, <1>16, <1>17, <1>18, <1>19, <1>20, <1>21, <1>22, <1>23, <1>24, <1>25, <1>26, <1>27, <1>28, <1>29, <1>30, <1>31, <1>32, <1>33 DEF Next, StartStep, StopStep

(* Requests that are not past addMonitor, nor go on as stops, leave        *)
(* RegisteredInv alone, whatever becomes of their own mon.                 *)
LEMMA QuietStep ==
  ASSUME IInv, UNCHANGED <<runningMons, ended, bot>>,
         \A q \in Requests :
            \/ pc'[q] = pc[q] /\ mon'[q] = mon[q]
            \/ /\ pc[q] \notin {"rollback", "done"}
               /\ pc'[q] \notin {"getBot", "removeBot", "setInactive", "giveBack", "removeMonitor", "end"}
  PROVE  RegisteredInv'
<1> USE DEF IInv, TypeOK
<1>1. \A m \in Requests : Launched(m) => Launched(m)'
  BY DEF Launched
<1>2. \A t \in Traders :
         runningMons[t] # None
         => /\ Launched(runningMons[t])'
            /\ TraderOf[bot[runningMons[t]]] = t
            /\ runningMons[t] \notin ended
  BY <1>1 DEF RegisteredInv
<1>3. \A x \in Requests :
         /\ pc'[x] \in {"getBot", "removeBot", "setInactive", "giveBack", "removeMonitor", "end"}
            /\ mon'[x] # None
            => Launched(mon[x])' /\ TraderOf[bot[mon'[x]]] = TraderOf[bot[x]]
         /\ pc'[x] = "end" => \A t \in Traders : runningMons[t] # mon'[x]
  BY <1>1 DEF RegisteredInv
<1>4. \A m \in ended : Launched(m)'
  BY <1>1 DEF RegisteredInv
<1> QED
  BY <1>2, <1>3, <1>4 DEF RegisteredInv

(* A stop takes the registered monitor, which follows its bot's trader.    *)
LEMMA FindMonitorStep ==
  ASSUME IInv, NEW r \in Requests, FindMonitor(r)
  PROVE  RegisteredInv'
<1> USE DEF IInv, TypeOK
<1>1. TraderOf[bot[r]] \in Traders
  BY TraderAssumption
<1>2. runningMons[TraderOf[bot[r]]] \in Requests \cup {None}
  BY <1>1
<1>3. /\ mon' = [mon EXCEPT ![r] = runningMons[TraderOf[bot[r]]]]
      /\ pc[r] = "findMonitor"
      /\ pc' = [pc EXCEPT ![r] = "setInactive"] \/ pc' = [pc EXCEPT ![r] = "getBot"]
      /\ UNCHANGED <<runningMons, ended, bot>>
  BY DEF FindMonitor, Goto, handlerVars
<1>4. \A x \in Requests \ {r} : pc'[x] = pc[x] /\ mon'[x] = mon[x]
  BY <1>3
<1>5. pc'[r] \in {"setInactive", "getBot"} /\ mon'[r] = runningMons[TraderOf[bot[r]]]
  BY <1>3
<1>6. \A m \in Requests : Launched(m) => Launched(m)'
  BY <1>3, <1>4 DEF Launched
<1>7. \A t \in Traders :
         runningMons[t] # None
         => /\ Launched(runningMons[t])'
            /\ TraderOf[bot[runningMons[t]]] = t
            /\ runningMons[t] \notin ended
  BY <1>3, <1>6 DEF RegisteredInv
<1>8. ASSUME NEW x \in Requests, mon'[x] # None,
             pc'[x] \in {"getBot", "removeBot", "setInactive", "giveBack", "removeMonitor", "end"}
      PROVE  Launched(mon[x])' /\ TraderOf[bot[mon'[x]]] = TraderOf[bot[x]]
  <2>1. CASE x = r
    BY <1>1, <1>3, <1>5, <1>7, <1>8, <2>1
  <2>2. CASE x # r
    BY <1>3, <1>4, <1>6, <1>8, <2>2 DEF RegisteredInv
  <2> QED
    BY <2>1, <2>2
<1>9. \A m \in ended : Launched(m)'
  BY <1>6 DEF RegisteredInv
<1>10. \A x \in Requests : pc'[x] = "end" => \A t \in Traders : runningMons[t] # mon'[x]
  BY <1>4, <1>5 DEF RegisteredInv
<1> QED
  BY <1>3, <1>7, <1>8, <1>9, <1>10 DEF RegisteredInv

(* Every step keeps RegisteredInv.                                         *)
LEMMA RegisteredStep == IInv /\ [Next]_vars => RegisteredInv'
<1> SUFFICES ASSUME IInv, [Next]_vars PROVE RegisteredInv'
  OBVIOUS
<1> USE TraderAssumption
    DEF IInv, TypeOK, FoundInv, RegisteredInv, Launched, Goto,
        dbVars, handlerVars, startVars, stopVars, fixVars, asyncVars
<1>1. ASSUME NEW r \in Requests, ReceiveStart(r) PROVE RegisteredInv'
  BY <1>1 DEF ReceiveStart, Idle
<1>2. ASSUME NEW r \in Requests, ReceiveStop(r) PROVE RegisteredInv'
  BY <1>2 DEF ReceiveStop, Idle
<1>3. ASSUME NEW r \in Requests, NEW q \in Requests, ReceiveRestart(r, q) PROVE RegisteredInv'
  <2>1. /\ pc[r] = "idle" /\ pc[q] = "idle" /\ r # q
        /\ UNCHANGED <<runningMons, ended, bot, mon>>
    BY <1>3, RequestsAssumption DEF ReceiveRestart, Idle, Requests
  <2>2. \A x \in Requests : pc'[x] = IF x = r THEN "setStopping" ELSE IF x = q THEN "afterStop" ELSE pc[x]
    BY <1>3, <2>1 DEF ReceiveRestart
  <2> QED
    BY <2>1, <2>2, QuietStep
<1>4. ASSUME NEW r \in Requests, StopReturned(r) PROVE RegisteredInv'
  BY <1>4 DEF StopReturned
<1>5. ASSUME NEW r \in Requests, ReadConfig(r) PROVE RegisteredInv'
  <2>1. \E label \in {"setStarting", "rollback", "done"} : pc' = [pc EXCEPT ![r] = label]
    BY <1>5 DEF ReadConfig, ReturnStart
  <2> QED
    BY <1>5, <2>1, QuietStep DEF ReadConfig, ReturnStart
<1>6. ASSUME NEW r \in Requests, SetStarting(r) PROVE RegisteredInv'
  BY <1>6 DEF SetStarting
<1>7. ASSUME NEW r \in Requests, MakeBot(r) PROVE RegisteredInv'
  <2>1. \E label \in {"reduce", "rollback"} : pc' = [pc EXCEPT ![r] = label]
    BY <1>7 DEF MakeBot
  <2> QED
    BY <1>7, <2>1, QuietStep DEF MakeBot
<1>8. ASSUME NEW r \in Requests, CheckAndReduceCpytBalance(r) PROVE RegisteredInv'
  <2>1. \E label \in {"getMonitor", "readBots", "rollback"} : pc' = [pc EXCEPT ![r] = label]
    BY <1>8 DEF CheckAndReduceCpytBalance
  <2> QED
    BY <1>8, <2>1, QuietStep DEF CheckAndReduceCpytBalance
<1>9. ASSUME NEW r \in Requests, ReadBots(r) PROVE RegisteredInv'
  BY <1>9 DEF ReadBots
<1>10. ASSUME NEW r \in Requests, ReadUser(r) PROVE RegisteredInv'
  BY <1>10 DEF ReadUser
<1>11. ASSUME NEW r \in Requests, NEW b \in Bots, SumBalances(r, b) PROVE RegisteredInv'
  <2>1. \E label \in {"sum", "rollback"} : pc' = [pc EXCEPT ![r] = label]
    BY <1>11 DEF SumBalances
  <2> QED
    BY <1>11, <2>1, QuietStep DEF SumBalances
<1>12. ASSUME NEW r \in Requests, CompareBalance(r) PROVE RegisteredInv'
  BY <1>12 DEF CompareBalance
<1>13. ASSUME NEW r \in Requests, FixBalance(r) PROVE RegisteredInv'
  BY <1>13 DEF FixBalance
<1>14. ASSUME NEW r \in Requests, GetMonitor(r) PROVE RegisteredInv'
  <2>1. \E label \in {"differences", "Wait"} : pc' = [pc EXCEPT ![r] = label]
    BY <1>14 DEF GetMonitor
  <2>2. \A q \in Requests \ {r} : mon'[q] = mon[q]
    BY <1>14 DEF GetMonitor
  <2> QED
    BY <1>14, <2>1, <2>2, QuietStep DEF GetMonitor
<1>15. ASSUME NEW r \in Requests, WaitReturns(r) PROVE RegisteredInv'
  <2>1. \E label \in {"create", "addBack"} : pc' = [pc EXCEPT ![r] = label]
    BY <1>15 DEF WaitReturns
  <2> QED
    BY <1>15, <2>1, QuietStep DEF WaitReturns
<1>16. ASSUME NEW r \in Requests, CreateNewMonitor(r) PROVE RegisteredInv'
  <2>1. \E label \in {"differences", "addBack"} : pc' = [pc EXCEPT ![r] = label]
    BY <1>16 DEF CreateNewMonitor
  <2>2. \A q \in Requests \ {r} : mon'[q] = mon[q]
    BY <1>16 DEF CreateNewMonitor
  <2> QED
    BY <1>16, <2>1, <2>2, QuietStep DEF CreateNewMonitor
<1>17. ASSUME NEW r \in Requests, HandleTraderBotDifferences(r) PROVE RegisteredInv'
  <2>1. \E label \in {"addBot", "addBack"} : pc' = [pc EXCEPT ![r] = label]
    BY <1>17 DEF HandleTraderBotDifferences
  <2> QED
    BY <1>17, <2>1, QuietStep DEF HandleTraderBotDifferences
<1>18. ASSUME NEW r \in Requests, AddBot(r) PROVE RegisteredInv'
  <2>1. \E label \in {"addMonitor", "rollback", "done"} : pc' = [pc EXCEPT ![r] = label]
    BY <1>18 DEF AddBot, Started, ReturnStart
  <2> QED
    BY <1>18, <2>1, QuietStep DEF AddBot, Started, ReturnStart
<1>19. ASSUME NEW r \in Requests, AddMonitor(r) PROVE RegisteredInv'
  BY <1>19 DEF AddMonitor, Started, ReturnStart
<1>20. ASSUME NEW r \in Requests, PostBotLaunch(r) PROVE RegisteredInv'
  BY <1>20 DEF PostBotLaunch
<1>21. ASSUME NEW r \in Requests, AddBack(r) PROVE RegisteredInv'
  BY <1>21 DEF AddBack
<1>22. ASSUME NEW r \in Requests, Rollback(r) PROVE RegisteredInv'
  BY <1>22 DEF Rollback, ReturnStart
<1>23. ASSUME NEW r \in Requests, SetStopping(r) PROVE RegisteredInv'
  BY <1>23 DEF SetStopping
<1>24. ASSUME NEW r \in Requests, FindMonitor(r) PROVE RegisteredInv'
  BY <1>24, FindMonitorStep
<1>25. ASSUME NEW r \in Requests, GetBot(r) PROVE RegisteredInv'
  BY <1>25 DEF GetBot
<1>26. ASSUME NEW r \in Requests, RemoveBotByHash(r) PROVE RegisteredInv'
  BY <1>26 DEF RemoveBotByHash
<1>27. ASSUME NEW r \in Requests, SetInactive(r) PROVE RegisteredInv'
  BY <1>27 DEF SetInactive
<1>28. ASSUME NEW r \in Requests, GiveBack(r) PROVE RegisteredInv'
  BY <1>28 DEF GiveBack
<1>29. ASSUME NEW r \in Requests, RemoveMonitor(r) PROVE RegisteredInv'
  BY <1>29 DEF RemoveMonitor
<1>30. ASSUME NEW r \in Requests, EndMonitor(r) PROVE RegisteredInv'
  BY <1>30 DEF EndMonitor
<1>31. ASSUME NEW b \in Bots, KeyInvalid(b) PROVE RegisteredInv'
  BY <1>31 DEF KeyInvalid, Found
<1>32. ASSUME NEW b \in Bots, KeyInvalidStatus(b) PROVE RegisteredInv'
  BY <1>32 DEF KeyInvalidStatus
<1>33. ASSUME UNCHANGED vars PROVE RegisteredInv'
  BY <1>33 DEF vars
<1> QED
  BY <1>1, <1>2, <1>3, <1>4, <1>5, <1>6, <1>7, <1>8, <1>9, <1>10, <1>11, <1>12, <1>13, <1>14, <1>15, <1>16, <1>17, <1>18, <1>19, <1>20, <1>21, <1>22, <1>23, <1>24, <1>25, <1>26, <1>27, <1>28, <1>29, <1>30, <1>31, <1>32, <1>33 DEF Next, StartStep, StopStep

LEMMA SpecIInv == Spec => []IInv
<1>1. IInv /\ [Next]_vars => IInv'
  BY TypeStep, FoundStep, RegisteredStep DEF IInv
<1> QED
  BY <1>1, InitIInv, PTL DEF Spec

(* Every reachable state has the declared types: in particular a start or  *)
(* a stop that needs a monitor or a bot object has one.                    *)
THEOREM TypeCorrect == Spec => []TypeOK
<1>1. IInv => TypeOK
  BY DEF IInv
<1> QED
  BY <1>1, SpecIInv, PTL

(* A monitor that was told to end is never again the registered one, for   *)
(* any number of bots, traders and interleaved requests.                   *)
THEOREM EndedStaysUnregistered == Spec => []EndedIsUnregistered
<1>1. IInv => EndedIsUnregistered
  <2> SUFFICES ASSUME IInv, NEW t \in Traders PROVE runningMons[t] \notin ended
    BY DEF EndedIsUnregistered
  <2>1. CASE runningMons[t] = None
    BY <2>1 DEF IInv, TypeOK, Requests, None
  <2>2. CASE runningMons[t] # None
    BY <2>2 DEF IInv, RegisteredInv
  <2> QED
    BY <2>1, <2>2
<1> QED
  BY <1>1, SpecIInv, PTL

-----------------------------------------------------------------------------
(* Where a stop is that has counted the bots.                              *)
Counted == {"setInactive", "giveBack", "removeMonitor", "end"}

(* A stop that counts nobody has taken the last bot off the monitor, and   *)
(* the one that launched it, which is added once and before anybody can    *)
(* find the monitor, is not on it again.                                   *)
StrandedInv ==
    /\ OnlyJoinersStranded
    /\ \A s \in Requests :
          /\ pc[s] \in {"idle", "setStopping", "findMonitor", "getBot"} => ~last[s]
          /\ pc[s] \in {"removeMonitor", "end"} => last[s]
          /\ pc[s] \in Counted /\ last[s]
             => mon[s] # None /\ \A b \in Bots : bots[mon[s]][b] # mon[s]

(* A request that goes from one label to another that is not a stop's, and *)
(* changes no monitor's bots, leaves StrandedInv alone.                    *)
LEMMA StrandedQuiet ==
  ASSUME IInv, StrandedInv, UNCHANGED <<bots, ended, last>>,
         \A s \in Requests :
            \/ pc'[s] = pc[s] /\ mon'[s] = mon[s]
            \/ pc'[s] \notin Counted \cup {"idle", "setStopping", "findMonitor", "getBot"}
  PROVE  StrandedInv'
  BY DEF StrandedInv, OnlyJoinersStranded, Counted

(* Bots that leave monitors strand nobody.                                 *)
LEMMA StrandedRemove ==
  ASSUME IInv, StrandedInv, UNCHANGED <<ended, last, pc, mon>>,
         \A m \in Requests, b \in Bots : bots'[m][b] \in {bots[m][b], None}
  PROVE  StrandedInv'
<1>1. \A m \in Requests : m # None
  BY DEF Requests, None
<1> QED
  BY <1>1 DEF StrandedInv, OnlyJoinersStranded, Counted, IInv, TypeOK

(* A bot is added by the launch of a monitor nobody has found, or by a     *)
(* start whose number is not the monitor's.                                *)
LEMMA StrandedAdd ==
  ASSUME IInv, StrandedInv, NEW r \in Requests, AddBot(r)
  PROVE  StrandedInv'
<1> USE DEF IInv, TypeOK
<1>1. /\ mon[r] \in Requests /\ bot[r] \in Bots /\ pc[r] = "addBot"
      /\ bots' = [bots EXCEPT ![mon[r]][bot[r]] = r]
      /\ UNCHANGED <<ended, last, mon>>
  BY DEF AddBot, FoundInv, stopVars
<1>2. \A m \in Requests, b \in Bots :
         bots'[m][b] = IF m = mon[r] /\ b = bot[r] THEN r ELSE bots[m][b]
  BY <1>1
<1>3. \E label \in {"addMonitor", "rollback", "done"} : pc' = [pc EXCEPT ![r] = label]
  BY DEF AddBot, Started, ReturnStart, Goto
<1>4. r \notin ended
  BY <1>1 DEF RegisteredInv, Launched
<1>5. \A m \in ended, b \in Bots : bots'[m][b] # m
  BY <1>1, <1>2, <1>4 DEF StrandedInv, OnlyJoinersStranded
<1>6. ASSUME NEW s \in Requests
      PROVE  /\ pc'[s] \in {"idle", "setStopping", "findMonitor", "getBot"} => ~last[s]
             /\ pc'[s] \in {"removeMonitor", "end"} => last[s]
             /\ pc'[s] \in Counted /\ last[s]
                => mon[s] # None /\ \A b \in Bots : bots'[mon[s]][b] # mon[s]
  <2>1. CASE s = r
    BY <1>3, <2>1 DEF Counted
  <2>2. CASE s # r
    <3>1. pc'[s] = pc[s]
      BY <1>3, <2>2
    <3>2. ASSUME pc[s] \in Counted, last[s]
          PROVE  mon[s] # None /\ \A b \in Bots : bots'[mon[s]][b] # mon[s]
      <4>1. mon[s] \in Requests /\ mon[s] # None /\ \A b \in Bots : bots[mon[s]][b] # mon[s]
        BY <3>2 DEF StrandedInv
      <4>2. mon[s] # r
        BY <1>1, <3>2, <4>1 DEF RegisteredInv, Launched, Counted
      <4> QED
        BY <1>1, <1>2, <4>1, <4>2
    <3> QED
      BY <3>1, <3>2 DEF StrandedInv
  <2> QED
    BY <2>1, <2>2
<1> QED
  BY <1>1, <1>5, <1>6 DEF StrandedInv, OnlyJoinersStranded

(* Every step keeps StrandedInv.                                           *)
LEMMA StrandedStep == IInv /\ StrandedInv /\ [Next]_vars => StrandedInv'
<1> SUFFICES ASSUME IInv, StrandedInv, [Next]_vars PROVE StrandedInv'
  OBVIOUS
<1> USE TraderAssumption
    DEF IInv, TypeOK, Goto, dbVars, handlerVars, startVars, stopVars, fixVars, asyncVars
<1>1. ASSUME NEW r \in Requests, ReceiveStart(r) PROVE StrandedInv'
  BY <1>1 DEF ReceiveStart, Idle, StrandedInv, OnlyJoinersStranded, Counted
<1>2. ASSUME NEW r \in Requests, ReceiveStop(r) PROVE StrandedInv'
  BY <1>2 DEF ReceiveStop, Idle, StrandedInv, OnlyJoinersStranded, Counted
<1>3. ASSUME NEW r \in Requests, NEW q \in Requests, ReceiveRestart(r, q) PROVE StrandedInv'
  BY <1>3 DEF ReceiveRestart, Idle, StrandedInv, OnlyJoinersStranded, Counted
<1>4. ASSUME NEW r \in Requests, StopReturned(r) PROVE StrandedInv'
  BY <1>4, StrandedQuiet DEF StopReturned, Counted
<1>5. ASSUME NEW r \in Requests, ReadConfig(r) PROVE StrandedInv'
  BY <1>5, StrandedQuiet DEF ReadConfig, ReturnStart, Counted
<1>6. ASSUME NEW r \in Requests, SetStarting(r) PROVE StrandedInv'
  BY <1>6, StrandedQuiet DEF SetStarting, Counted
<1>7. ASSUME NEW r \in Requests, MakeBot(r) PROVE StrandedInv'
  BY <1>7, StrandedQuiet DEF MakeBot, Counted
<1>8. ASSUME NEW r \in Requests, CheckAndReduceCpytBalance(r) PROVE StrandedInv'
  BY <1>8, StrandedQuiet DEF CheckAndReduceCpytBalance, Counted
<1>9. ASSUME NEW r \in Requests, ReadBots(r) PROVE StrandedInv'
  BY <1>9, StrandedQuiet DEF ReadBots, Counted
<1>10. ASSUME NEW r \in Requests, ReadUser(r) PROVE StrandedInv'
  BY <1>10, StrandedQuiet DEF ReadUser, Counted
<1>11. ASSUME NEW r \in Requests, NEW b \in Bots, SumBalances(r, b) PROVE StrandedInv'
  BY <1>11, StrandedQuiet DEF SumBalances, Counted
<1>12. ASSUME NEW r \in Requests, CompareBalance(r) PROVE StrandedInv'
  BY <1>12, StrandedQuiet DEF CompareBalance, Counted
<1>13. ASSUME NEW r \in Requests, FixBalance(r) PROVE StrandedInv'
  BY <1>13, StrandedQuiet DEF FixBalance, Counted
<1>14. ASSUME NEW r \in Requests, GetMonitor(r) PROVE StrandedInv'
  BY <1>14, StrandedQuiet DEF GetMonitor, Counted
<1>15. ASSUME NEW r \in Requests, WaitReturns(r) PROVE StrandedInv'
  BY <1>15, StrandedQuiet DEF WaitReturns, Counted
<1>16. ASSUME NEW r \in Requests, CreateNewMonitor(r) PROVE StrandedInv'
  BY <1>16, StrandedQuiet DEF CreateNewMonitor, Counted
<1>17. ASSUME NEW r \in Requests, HandleTraderBotDifferences(r) PROVE StrandedInv'
  BY <1>17, StrandedQuiet DEF HandleTraderBotDifferences, Counted
<1>18. ASSUME NEW r \in Requests, AddBot(r) PROVE StrandedInv'
  BY <1>18, StrandedAdd
<1>19. ASSUME NEW r \in Requests, AddMonitor(r) PROVE StrandedInv'
  BY <1>19, StrandedQuiet DEF AddMonitor, Started, ReturnStart, Counted
<1>20. ASSUME NEW r \in Requests, PostBotLaunch(r) PROVE StrandedInv'
  BY <1>20 DEF PostBotLaunch, StrandedInv, OnlyJoinersStranded, Counted
<1>21. ASSUME NEW r \in Requests, AddBack(r) PROVE StrandedInv'
  BY <1>21, StrandedQuiet DEF AddBack, Counted
<1>22. ASSUME NEW r \in Requests, Rollback(r) PROVE StrandedInv'
  BY <1>22, StrandedQuiet DEF Rollback, ReturnStart, Counted
<1>23. ASSUME NEW r \in Requests, SetStopping(r) PROVE StrandedInv'
  BY <1>23 DEF SetStopping, StrandedInv, OnlyJoinersStranded, Counted
<1>24. ASSUME NEW r \in Requests, FindMonitor(r) PROVE StrandedInv'
  BY <1>24 DEF FindMonitor, StrandedInv, OnlyJoinersStranded, Counted
<1>25. ASSUME NEW r \in Requests, GetBot(r) PROVE StrandedInv'
  BY <1>25 DEF GetBot, StrandedInv, OnlyJoinersStranded, Counted
<1>26. ASSUME NEW r \in Requests, RemoveBotByHash(r) PROVE StrandedInv'
  <2>1. /\ mon[r] \in Requests /\ mon[r] # None
        /\ bots' = [bots EXCEPT ![mon[r]][bot[r]] = None]
        /\ last' = [last EXCEPT ![r] = BotsOn(mon[r]) \subseteq {bot[r]}]
        /\ pc[r] = "removeBot" /\ pc' = [pc EXCEPT ![r] = "setInactive"]
        /\ UNCHANGED <<ended, mon>>
    BY <1>26 DEF RemoveBotByHash, FoundInv
  <2>2. \A m \in Requests, b \in Bots :
           bots'[m][b] = IF m = mon[r] /\ b = bot[r] THEN None ELSE bots[m][b]
    BY <2>1
  <2>3. \A m \in Requests : m # None
    BY DEF Requests, None
  <2>4. last'[r] => \A b \in Bots : bots'[mon[r]][b] = None
    <3>1. last'[r] => \A b \in Bots : bots[mon[r]][b] # None => b = bot[r]
      BY <2>1 DEF BotsOn
    <3> QED
      BY <2>1, <2>2, <3>1
  <2>5. \A s \in Requests \ {r} : last'[s] = last[s] /\ pc'[s] = pc[s]
    BY <2>1
  <2>6. pc'[r] = "setInactive"
    BY <2>1
  <2>7. OnlyJoinersStranded'
    BY <2>1, <2>2, <2>3 DEF StrandedInv, OnlyJoinersStranded
  <2>8. ASSUME NEW s \in Requests, pc'[s] \in Counted, last'[s]
        PROVE  mon[s] # None /\ \A b \in Bots : bots'[mon[s]][b] # mon[s]
    BY <2>1, <2>2, <2>3, <2>4, <2>5, <2>8 DEF StrandedInv
  <2> QED
    BY <2>1, <2>5, <2>6, <2>7, <2>8 DEF StrandedInv
<1>27. ASSUME NEW r \in Requests, SetInactive(r) PROVE StrandedInv'
  BY <1>27 DEF SetInactive, StrandedInv, OnlyJoinersStranded, Counted
<1>28. ASSUME NEW r \in Requests, GiveBack(r) PROVE StrandedInv'
  BY <1>28 DEF GiveBack, StrandedInv, OnlyJoinersStranded, Counted
<1>29. ASSUME NEW r \in Requests, RemoveMonitor(r) PROVE StrandedInv'
  BY <1>29 DEF RemoveMonitor, StrandedInv, OnlyJoinersStranded, Counted
<1>30. ASSUME NEW r \in Requests, EndMonitor(r) PROVE StrandedInv'
  BY <1>30 DEF EndMonitor, StrandedInv, OnlyJoinersStranded, Counted
<1>31. ASSUME NEW b \in Bots, KeyInvalid(b) PROVE StrandedInv'
  BY <1>31 DEF KeyInvalid, Found, StrandedInv, OnlyJoinersStranded, Counted
<1>32. ASSUME NEW b \in Bots, KeyInvalidStatus(b) PROVE StrandedInv'
  BY <1>32 DEF KeyInvalidStatus, StrandedInv, OnlyJoinersStranded, Counted
<1>33. ASSUME UNCHANGED vars PROVE StrandedInv'
  BY <1>33 DEF vars, StrandedInv, OnlyJoinersStranded, Counted
<1> QED
  BY <1>1, <1>2, <1>3, <1>4, <1>5, <1>6, <1>7, <1>8, <1>9, <1>10, <1>11, <1>12, <1>13, <1>14, <1>15, <1>16, <1>17, <1>18, <1>19, <1>20, <1>21, <1>22, <1>23, <1>24, <1>25, <1>26, <1>27, <1>28, <1>29, <1>30, <1>31, <1>32, <1>33 DEF Next, StartStep, StopStep

(* The bot that launched a monitor is not on it when it is told to end:    *)
(* whoever is left behind has joined it, for any number of bots, traders   *)
(* and interleaved requests.                                               *)
THEOREM LauncherNotStranded == Spec => []OnlyJoinersStranded
<1>1. Init => StrandedInv
  BY DEF Init, StrandedInv, OnlyJoinersStranded, Counted
<1>2. StrandedInv => OnlyJoinersStranded
  BY DEF StrandedInv
<1> QED
  BY <1>1, <1>2, SpecIInv, StrandedStep, PTL DEF Spec

-----------------------------------------------------------------------------
(* BotLifecycle implements CpytBalance: the invariant of the ledger.       *)


(* For each bot one request at a time is between its receipt and its       *)
(* response; a restart counts as one until its second half begins.         *)
SyncInv ==
    \A r, q \in Requests :
        bot[r] = bot[q] /\ r # q
        => /\ ~ (pc[r] \in Sync /\ pc[q] \in Sync)
           /\ pc[r] = "afterStop" => pc[q] \notin StartSync \cup {"afterStop"}

(* The start of a bot object is past addBot, and stays so.                 *)
Past == {"addMonitor", "rollback", "done"}
Added(o) == o # None /\ pc[o] \in Past

(* A bot object on a monitor is there under its bot, and on no other.      *)
HostInv ==
    \A m \in Requests, b \in Bots :
        bots[m][b] # None
        => /\ Added(bots[m][b])
           /\ bot[bots[m][b]] = b
           /\ mon[bots[m][b]] = m

Refunding == {"removeBot", "setInactive", "giveBack"}

(* No two stops are to give back the balance of the same bot object, and   *)
(* one that has removed it need not fear that another finds it.            *)
RefundInv ==
    /\ \A s \in Requests :
          pc[s] \in Refunding /\ obj[s] # None
          => /\ Added(obj[s])
             /\ bot[obj[s]] = bot[s]
             /\ pc[s] = "removeBot" => mon[obj[s]] = mon[s]
             /\ pc[s] # "removeBot" => ~ Hosted(obj[s])
    /\ \A s, q \in Requests :
          pc[s] \in Refunding /\ pc[q] \in Refunding /\ obj[s] # None /\ obj[s] = obj[q] => s = q

(* What a start is about to take is a balance that an account can have.    *)
AmountInv == \A r \in Requests : pc[r] = "reduce" => bal[r] \in Balances

LInv == IInv /\ SyncInv /\ HostInv /\ RefundInv /\ AmountInv

LEMMA InitLInv == Init => LInv
<1> SUFFICES ASSUME Init PROVE LInv
  OBVIOUS
<1>1. IInv
  BY InitIInv
<1>2. SyncInv /\ HostInv /\ AmountInv /\ RefundInv
  BY DEF Init, SyncInv, HostInv, AmountInv, RefundInv, Refunding, Sync, StartSync, StopSync, StopAsync, Unreduced, Reduced
<1> QED
  BY <1>1, <1>2 DEF LInv

(* A start that goes on, or ends, keeps its bot to itself.                 *)
LEMMA StartGoesOn ==
  ASSUME TypeOK, SyncInv, NEW r \in Requests, pc[r] \in StartSync, UNCHANGED bot,
         \E label \in StartSync \cup {"done"} : pc' = [pc EXCEPT ![r] = label]
  PROVE  SyncInv'
<1>1. /\ pc'[r] \in StartSync \cup {"done"}
      /\ \A q \in Requests \ {r} : pc'[q] = pc[q]
  BY DEF TypeOK
<1>2. "done" \notin Sync /\ "done" # "afterStop"
  BY DEF Sync, StartSync, StopSync, Unreduced, Reduced
<1>3. StartSync \subseteq Sync /\ "afterStop" \notin StartSync
  BY DEF Sync, StartSync, Unreduced, Reduced
<1> QED
  BY <1>1, <1>2, <1>3 DEF SyncInv

(* Every step keeps one request at a time for each bot.                    *)
LEMMA SyncStep == TypeOK /\ SyncInv /\ [Next]_vars => SyncInv'
<1> SUFFICES ASSUME TypeOK, SyncInv, [Next]_vars PROVE SyncInv'
  OBVIOUS
<1> USE DEF TypeOK, SyncInv, Goto, dbVars, handlerVars, startVars, stopVars, fixVars, asyncVars,
        Sync, StartSync, StopSync, StopAsync, Unreduced, Reduced
<1>1. ASSUME NEW r \in Requests, ReceiveStart(r) PROVE SyncInv'
  BY <1>1 DEF ReceiveStart, Idle
<1>2. ASSUME NEW r \in Requests, ReceiveStop(r) PROVE SyncInv'
  BY <1>2 DEF ReceiveStop, Idle
<1>3. ASSUME NEW r \in Requests, NEW q \in Requests, ReceiveRestart(r, q) PROVE SyncInv'
  BY <1>3 DEF ReceiveRestart, Idle
<1>4. ASSUME NEW r \in Requests, StopReturned(r) PROVE SyncInv'
  BY <1>4 DEF StopReturned
<1>5. ASSUME NEW r \in Requests, ReadConfig(r) PROVE SyncInv'
  BY <1>5 DEF ReadConfig, ReturnStart
<1>6. ASSUME NEW r \in Requests, SetStarting(r) PROVE SyncInv'
  BY <1>6 DEF SetStarting
<1>7. ASSUME NEW r \in Requests, MakeBot(r) PROVE SyncInv'
  <2>1. \E label \in {"reduce", "rollback"} : pc' = [pc EXCEPT ![r] = label]
    BY <1>7 DEF MakeBot
  <2> QED
    BY <1>7, <2>1, StartGoesOn DEF MakeBot
<1>8. ASSUME NEW r \in Requests, CheckAndReduceCpytBalance(r) PROVE SyncInv'
  <2>1. \E label \in {"getMonitor", "readBots", "rollback"} : pc' = [pc EXCEPT ![r] = label]
    BY <1>8 DEF CheckAndReduceCpytBalance
  <2> QED
    BY <1>8, <2>1, StartGoesOn DEF CheckAndReduceCpytBalance
<1>9. ASSUME NEW r \in Requests, ReadBots(r) PROVE SyncInv'
  BY <1>9 DEF ReadBots
<1>10. ASSUME NEW r \in Requests, ReadUser(r) PROVE SyncInv'
  BY <1>10 DEF ReadUser
<1>11. ASSUME NEW r \in Requests, NEW b \in Bots, SumBalances(r, b) PROVE SyncInv'
  BY <1>11 DEF SumBalances, Found
<1>12. ASSUME NEW r \in Requests, CompareBalance(r) PROVE SyncInv'
  BY <1>12 DEF CompareBalance
<1>13. ASSUME NEW r \in Requests, FixBalance(r) PROVE SyncInv'
  BY <1>13 DEF FixBalance
<1>14. ASSUME NEW r \in Requests, GetMonitor(r) PROVE SyncInv'
  <2>1. \E label \in {"differences", "Wait"} : pc' = [pc EXCEPT ![r] = label]
    BY <1>14 DEF GetMonitor
  <2> QED
    BY <1>14, <2>1, StartGoesOn DEF GetMonitor
<1>15. ASSUME NEW r \in Requests, WaitReturns(r) PROVE SyncInv'
  <2>1. \E label \in {"create", "addBack"} : pc' = [pc EXCEPT ![r] = label]
    BY <1>15 DEF WaitReturns
  <2> QED
    BY <1>15, <2>1, StartGoesOn DEF WaitReturns
<1>16. ASSUME NEW r \in Requests, CreateNewMonitor(r) PROVE SyncInv'
  <2>1. \E label \in {"differences", "addBack"} : pc' = [pc EXCEPT ![r] = label]
    BY <1>16 DEF CreateNewMonitor
  <2> QED
    BY <1>16, <2>1, StartGoesOn DEF CreateNewMonitor
<1>17. ASSUME NEW r \in Requests, HandleTraderBotDifferences(r) PROVE SyncInv'
  <2>1. \E label \in {"addBot", "addBack"} : pc' = [pc EXCEPT ![r] = label]
    BY <1>17 DEF HandleTraderBotDifferences
  <2> QED
    BY <1>17, <2>1, StartGoesOn DEF HandleTraderBotDifferences
<1>18. ASSUME NEW r \in Requests, AddBot(r) PROVE SyncInv'
  BY <1>18 DEF AddBot, Started, ReturnStart
<1>19. ASSUME NEW r \in Requests, AddMonitor(r) PROVE SyncInv'
  BY <1>19 DEF AddMonitor, Started, ReturnStart
<1>20. ASSUME NEW r \in Requests, PostBotLaunch(r) PROVE SyncInv'
  BY <1>20 DEF PostBotLaunch
<1>21. ASSUME NEW r \in Requests, AddBack(r) PROVE SyncInv'
  BY <1>21 DEF AddBack
<1>22. ASSUME NEW r \in Requests, Rollback(r) PROVE SyncInv'
  BY <1>22 DEF Rollback, ReturnStart
<1>23. ASSUME NEW r \in Requests, SetStopping(r) PROVE SyncInv'
  BY <1>23 DEF SetStopping
<1>24. ASSUME NEW r \in Requests, FindMonitor(r) PROVE SyncInv'
  BY <1>24 DEF FindMonitor
<1>25. ASSUME NEW r \in Requests, GetBot(r) PROVE SyncInv'
  BY <1>25 DEF GetBot
<1>26. ASSUME NEW r \in Requests, RemoveBotByHash(r) PROVE SyncInv'
  BY <1>26 DEF RemoveBotByHash
<1>27. ASSUME NEW r \in Requests, SetInactive(r) PROVE SyncInv'
  BY <1>27 DEF SetInactive
<1>28. ASSUME NEW r \in Requests, GiveBack(r) PROVE SyncInv'
  BY <1>28 DEF GiveBack
<1>29. ASSUME NEW r \in Requests, RemoveMonitor(r) PROVE SyncInv'
  BY <1>29 DEF RemoveMonitor
<1>30. ASSUME NEW r \in Requests, EndMonitor(r) PROVE SyncInv'
  BY <1>30 DEF EndMonitor
<1>31. ASSUME NEW b \in Bots, KeyInvalid(b) PROVE SyncInv'
  BY <1>31 DEF KeyInvalid, Found
<1>32. ASSUME NEW b \in Bots, KeyInvalidStatus(b) PROVE SyncInv'
  BY <1>32 DEF KeyInvalidStatus
<1>33. ASSUME UNCHANGED vars PROVE SyncInv'
  BY <1>33 DEF vars
<1> QED
  BY <1>1, <1>2, <1>3, <1>4, <1>5, <1>6, <1>7, <1>8, <1>9, <1>10, <1>11, <1>12, <1>13, <1>14, <1>15, <1>16, <1>17, <1>18, <1>19, <1>20, <1>21, <1>22, <1>23, <1>24, <1>25, <1>26, <1>27, <1>28, <1>29, <1>30, <1>31, <1>32, <1>33 DEF Next, StartStep, StopStep

(* A step that neither adds, finds nor removes a bot object: a start that   *)
(* added its bot object stays past that, and no request comes to owe a     *)
(* balance as a stop.                                                      *)
Quiet ==
    /\ UNCHANGED <<bots, bot, obj>>
    /\ \A q \in Requests :
          \/ pc'[q] = pc[q] /\ mon'[q] = mon[q]
          \/ pc[q] \in Past /\ pc'[q] \in Past /\ mon'[q] = mon[q]
          \/ pc[q] \notin Past /\ (pc'[q] \notin Refunding \/ obj[q] = None)
          \/ pc[q] = "setInactive" /\ pc'[q] = "giveBack" /\ mon'[q] = mon[q]

(* Every step is quiet but four.                                           *)
LEMMA QuietOrNot ==
  ASSUME TypeOK, FoundInv, [Next]_vars
  PROVE  \/ Quiet
         \/ \E r \in Requests : AddBot(r) \/ GetBot(r) \/ RemoveBotByHash(r)
         \/ \E b \in Bots : KeyInvalid(b)
<1> USE DEF TypeOK, FoundInv, Past, Refunding, Quiet, Goto, dbVars, handlerVars, startVars, stopVars, fixVars, asyncVars
<1>1. ASSUME NEW r \in Requests, ReceiveStart(r) PROVE Quiet
  BY <1>1 DEF ReceiveStart, Idle
<1>2. ASSUME NEW r \in Requests, ReceiveStop(r) PROVE Quiet
  BY <1>2 DEF ReceiveStop, Idle
<1>3. ASSUME NEW r \in Requests, NEW q \in Requests, ReceiveRestart(r, q) PROVE Quiet
  BY <1>3 DEF ReceiveRestart, Idle
<1>4. ASSUME NEW r \in Requests, StopReturned(r) PROVE Quiet
  BY <1>4 DEF StopReturned
<1>5. ASSUME NEW r \in Requests, ReadConfig(r) PROVE Quiet
  BY <1>5 DEF ReadConfig, ReturnStart
<1>6. ASSUME NEW r \in Requests, SetStarting(r) PROVE Quiet
  BY <1>6 DEF SetStarting
<1>7. ASSUME NEW r \in Requests, MakeBot(r) PROVE Quiet
  BY <1>7 DEF MakeBot
<1>8. ASSUME NEW r \in Requests, CheckAndReduceCpytBalance(r) PROVE Quiet
  BY <1>8 DEF CheckAndReduceCpytBalance
<1>9. ASSUME NEW r \in Requests, ReadBots(r) PROVE Quiet
  BY <1>9 DEF ReadBots
<1>10. ASSUME NEW r \in Requests, ReadUser(r) PROVE Quiet
  BY <1>10 DEF ReadUser
<1>11. ASSUME NEW r \in Requests, NEW b \in Bots, SumBalances(r, b) PROVE Quiet
  BY <1>11 DEF SumBalances, Found
<1>12. ASSUME NEW r \in Requests, CompareBalance(r) PROVE Quiet
  BY <1>12 DEF CompareBalance
<1>13. ASSUME NEW r \in Requests, FixBalance(r) PROVE Quiet
  BY <1>13 DEF FixBalance
<1>14. ASSUME NEW r \in Requests, GetMonitor(r) PROVE Quiet
  BY <1>14 DEF GetMonitor
<1>15. ASSUME NEW r \in Requests, WaitReturns(r) PROVE Quiet
  BY <1>15 DEF WaitReturns
<1>16. ASSUME NEW r \in Requests, CreateNewMonitor(r) PROVE Quiet
  BY <1>16 DEF CreateNewMonitor
<1>17. ASSUME NEW r \in Requests, HandleTraderBotDifferences(r) PROVE Quiet
  BY <1>17 DEF HandleTraderBotDifferences
<1>18. ASSUME NEW r \in Requests, AddMonitor(r) PROVE Quiet
  BY <1>18 DEF AddMonitor, Started, ReturnStart
<1>19. ASSUME NEW r \in Requests, PostBotLaunch(r) PROVE Quiet
  BY <1>19 DEF PostBotLaunch
<1>20. ASSUME NEW r \in Requests, AddBack(r) PROVE Quiet
  BY <1>20 DEF AddBack
<1>21. ASSUME NEW r \in Requests, Rollback(r) PROVE Quiet
  BY <1>21 DEF Rollback, ReturnStart
<1>22. ASSUME NEW r \in Requests, SetStopping(r) PROVE Quiet
  BY <1>22 DEF SetStopping
<1>23. ASSUME NEW r \in Requests, FindMonitor(r) PROVE Quiet
  BY <1>23 DEF FindMonitor
<1>24. ASSUME NEW r \in Requests, SetInactive(r) PROVE Quiet
  BY <1>24 DEF SetInactive
<1>25. ASSUME NEW r \in Requests, GiveBack(r) PROVE Quiet
  BY <1>25 DEF GiveBack
<1>26. ASSUME NEW r \in Requests, RemoveMonitor(r) PROVE Quiet
  BY <1>26 DEF RemoveMonitor
<1>27. ASSUME NEW r \in Requests, EndMonitor(r) PROVE Quiet
  BY <1>27 DEF EndMonitor
<1>28. ASSUME NEW b \in Bots, KeyInvalidStatus(b) PROVE Quiet
  BY <1>28 DEF KeyInvalidStatus
<1>29. ASSUME UNCHANGED vars PROVE Quiet
  BY <1>29 DEF vars
<1> QED
  BY <1>1, <1>2, <1>3, <1>4, <1>5, <1>6, <1>7, <1>8, <1>9, <1>10, <1>11, <1>12, <1>13, <1>14, <1>15, <1>16, <1>17, <1>18, <1>19, <1>20, <1>21, <1>22, <1>23, <1>24, <1>25, <1>26, <1>27, <1>28, <1>29 DEF Next, StartStep, StopStep

LEMMA QuietInv ==
  ASSUME TypeOK, HostInv, RefundInv, Quiet
  PROVE  HostInv' /\ RefundInv'
<1>1. \A o \in Requests : Added(o) => Added(o)' /\ mon'[o] = mon[o]
  BY DEF TypeOK, Quiet, Added, Past
<1>2. HostInv'
  BY <1>1 DEF TypeOK, HostInv, Quiet
<1>3. \A o \in Requests : Hosted(o) <=> Hosted(o)'
  BY DEF Hosted, Quiet
<1>4. \A s \in Requests :
         pc'[s] \in Refunding /\ obj[s] # None
         => /\ pc[s] \in Refunding
            /\ mon'[s] = mon[s]
            /\ pc'[s] = "removeBot" <=> pc[s] = "removeBot"
  BY DEF TypeOK, Quiet, Refunding, Past
<1>5. \A s \in Requests :
         pc'[s] \in Refunding /\ obj'[s] # None
         => /\ Added(obj[s])'
            /\ bot'[obj'[s]] = bot'[s]
            /\ pc'[s] = "removeBot" => mon'[obj'[s]] = mon'[s]
            /\ pc'[s] # "removeBot" => ~ Hosted(obj[s])'
  BY <1>1, <1>3, <1>4 DEF TypeOK, RefundInv, Quiet
<1>6. \A s, q \in Requests :
         pc'[s] \in Refunding /\ pc'[q] \in Refunding /\ obj'[s] # None /\ obj'[s] = obj'[q] => s = q
  BY <1>4 DEF RefundInv, Quiet
<1> QED
  BY <1>2, <1>5, <1>6 DEF RefundInv, Refunding

(* Every step keeps the amounts.                                           *)
LEMMA AmountStep == TypeOK /\ AmountInv /\ [Next]_vars => AmountInv'
<1> SUFFICES ASSUME TypeOK, AmountInv, [Next]_vars PROVE AmountInv'
  OBVIOUS
<1> USE DEF TypeOK, AmountInv, Goto, dbVars, handlerVars, startVars, stopVars, fixVars, asyncVars
<1>1. ASSUME NEW r \in Requests, ReceiveStart(r) PROVE AmountInv'
  BY <1>1 DEF ReceiveStart, Idle
<1>2. ASSUME NEW r \in Requests, ReceiveStop(r) PROVE AmountInv'
  BY <1>2 DEF ReceiveStop, Idle
<1>3. ASSUME NEW r \in Requests, NEW q \in Requests, ReceiveRestart(r, q) PROVE AmountInv'
  BY <1>3 DEF ReceiveRestart, Idle
<1>4. ASSUME NEW r \in Requests, StopReturned(r) PROVE AmountInv'
  BY <1>4 DEF StopReturned
<1>5. ASSUME NEW r \in Requests, ReadConfig(r) PROVE AmountInv'
  BY <1>5 DEF ReadConfig, ReturnStart
<1>6. ASSUME NEW r \in Requests, SetStarting(r) PROVE AmountInv'
  BY <1>6 DEF SetStarting
<1>7. ASSUME NEW r \in Requests, MakeBot(r) PROVE AmountInv'
  BY <1>7 DEF MakeBot
<1>8. ASSUME NEW r \in Requests, CheckAndReduceCpytBalance(r) PROVE AmountInv'
  BY <1>8 DEF CheckAndReduceCpytBalance
<1>9. ASSUME NEW r \in Requests, ReadBots(r) PROVE AmountInv'
  BY <1>9 DEF ReadBots
<1>10. ASSUME NEW r \in Requests, ReadUser(r) PROVE AmountInv'
  BY <1>10 DEF ReadUser
<1>11. ASSUME NEW r \in Requests, NEW b \in Bots, SumBalances(r, b) PROVE AmountInv'
  BY <1>11 DEF SumBalances, Found
<1>12. ASSUME NEW r \in Requests, CompareBalance(r) PROVE AmountInv'
  BY <1>12 DEF CompareBalance
<1>13. ASSUME NEW r \in Requests, FixBalance(r) PROVE AmountInv'
  BY <1>13 DEF FixBalance
<1>14. ASSUME NEW r \in Requests, GetMonitor(r) PROVE AmountInv'
  BY <1>14 DEF GetMonitor
<1>15. ASSUME NEW r \in Requests, WaitReturns(r) PROVE AmountInv'
  BY <1>15 DEF WaitReturns
<1>16. ASSUME NEW r \in Requests, CreateNewMonitor(r) PROVE AmountInv'
  BY <1>16 DEF CreateNewMonitor
<1>17. ASSUME NEW r \in Requests, HandleTraderBotDifferences(r) PROVE AmountInv'
  BY <1>17 DEF HandleTraderBotDifferences
<1>18. ASSUME NEW r \in Requests, AddBot(r) PROVE AmountInv'
  BY <1>18 DEF AddBot, Started, ReturnStart
<1>19. ASSUME NEW r \in Requests, AddMonitor(r) PROVE AmountInv'
  BY <1>19 DEF AddMonitor, Started, ReturnStart
<1>20. ASSUME NEW r \in Requests, PostBotLaunch(r) PROVE AmountInv'
  BY <1>20 DEF PostBotLaunch
<1>21. ASSUME NEW r \in Requests, AddBack(r) PROVE AmountInv'
  BY <1>21 DEF AddBack
<1>22. ASSUME NEW r \in Requests, Rollback(r) PROVE AmountInv'
  BY <1>22 DEF Rollback, ReturnStart
<1>23. ASSUME NEW r \in Requests, SetStopping(r) PROVE AmountInv'
  BY <1>23 DEF SetStopping
<1>24. ASSUME NEW r \in Requests, FindMonitor(r) PROVE AmountInv'
  BY <1>24 DEF FindMonitor
<1>25. ASSUME NEW r \in Requests, GetBot(r) PROVE AmountInv'
  BY <1>25 DEF GetBot
<1>26. ASSUME NEW r \in Requests, RemoveBotByHash(r) PROVE AmountInv'
  BY <1>26 DEF RemoveBotByHash
<1>27. ASSUME NEW r \in Requests, SetInactive(r) PROVE AmountInv'
  BY <1>27 DEF SetInactive
<1>28. ASSUME NEW r \in Requests, GiveBack(r) PROVE AmountInv'
  BY <1>28 DEF GiveBack
<1>29. ASSUME NEW r \in Requests, RemoveMonitor(r) PROVE AmountInv'
  BY <1>29 DEF RemoveMonitor
<1>30. ASSUME NEW r \in Requests, EndMonitor(r) PROVE AmountInv'
  BY <1>30 DEF EndMonitor
<1>31. ASSUME NEW b \in Bots, KeyInvalid(b) PROVE AmountInv'
  BY <1>31 DEF KeyInvalid, Found
<1>32. ASSUME NEW b \in Bots, KeyInvalidStatus(b) PROVE AmountInv'
  BY <1>32 DEF KeyInvalidStatus
<1>33. ASSUME UNCHANGED vars PROVE AmountInv'
  BY <1>33 DEF vars
<1> QED
  BY <1>1, <1>2, <1>3, <1>4, <1>5, <1>6, <1>7, <1>8, <1>9, <1>10, <1>11, <1>12, <1>13, <1>14, <1>15, <1>16, <1>17, <1>18, <1>19, <1>20, <1>21, <1>22, <1>23, <1>24, <1>25, <1>26, <1>27, <1>28, <1>29, <1>30, <1>31, <1>32, <1>33 DEF Next, StartStep, StopStep

(* AddBot puts the bot object of a start that has none yet on a monitor.   *)
LEMMA AddBotInv ==
  ASSUME IInv, HostInv, RefundInv, NEW r \in Requests, AddBot(r)
  PROVE  HostInv' /\ RefundInv'
<1> USE DEF IInv, TypeOK
<1>1. /\ pc[r] = "addBot" /\ mon[r] \in Requests /\ r # None
      /\ bots' = [bots EXCEPT ![mon[r]][bot[r]] = r]
      /\ UNCHANGED <<bot, mon, obj>>
  BY DEF AddBot, FoundInv, Requests, None, stopVars
<1>2. \E label \in Past : pc' = [pc EXCEPT ![r] = label]
  BY Zenon DEF AddBot, Started, ReturnStart, Goto, Past
<1>3. pc'[r] \in Past /\ \A q \in Requests \ {r} : pc'[q] = pc[q]
  BY <1>2
<1>4. \A o \in Requests : Added(o) => Added(o)'
  BY <1>3 DEF Added
<1>5. Added(r)'
  BY <1>1, <1>3 DEF Added
<1>6. \A m \in Requests, b \in Bots :
         bots'[m][b] = IF m = mon[r] /\ b = bot[r] THEN r ELSE bots[m][b]
  BY <1>1
<1>7. HostInv'
  BY <1>1, <1>4, <1>5, <1>6 DEF HostInv
<1>8. \A o \in Requests \ {r} : Hosted(o)' => Hosted(o)
  BY <1>1, <1>6 DEF Hosted
<1>9. ~ Added(r)
  BY <1>1 DEF Added, Past
<1>10. \A s \in Requests :
          pc'[s] \in Refunding /\ obj'[s] # None
          => /\ Added(obj[s])'
             /\ bot'[obj'[s]] = bot'[s]
             /\ pc'[s] = "removeBot" => mon'[obj'[s]] = mon'[s]
             /\ pc'[s] # "removeBot" => ~ Hosted(obj[s])'
  BY <1>1, <1>3, <1>4, <1>8, <1>9 DEF RefundInv, Past, Refunding
<1>11. \A s, q \in Requests :
          pc'[s] \in Refunding /\ pc'[q] \in Refunding /\ obj'[s] # None /\ obj'[s] = obj'[q] => s = q
  BY <1>1, <1>3 DEF RefundInv, Past, Refunding
<1> QED
  BY <1>1, <1>7, <1>10, <1>11 DEF RefundInv

(* A stop finds a bot object that no other stop is to refund: one that has *)
(* removed it would have left no trace of it, and one that is about to     *)
(* would be a second request for the same bot.                             *)
LEMMA GetBotInv ==
  ASSUME IInv, SyncInv, HostInv, RefundInv, NEW r \in Requests, GetBot(r)
  PROVE  HostInv' /\ RefundInv'
<1> USE DEF IInv, TypeOK
<1> DEFINE o == bots[mon[r]][bot[r]]
<1>1. /\ pc[r] = "getBot" /\ mon[r] \in Requests /\ bot[r] \in Bots
      /\ obj' = [obj EXCEPT ![r] = o]
      /\ pc' = [pc EXCEPT ![r] = IF o = None THEN "setInactive" ELSE "removeBot"]
      /\ UNCHANGED <<bots, bot, mon>>
  BY DEF GetBot, FoundInv, Goto, handlerVars
<1>2. /\ obj'[r] = o /\ pc'[r] = IF o = None THEN "setInactive" ELSE "removeBot"
      /\ \A q \in Requests \ {r} : pc'[q] = pc[q] /\ obj'[q] = obj[q]
  BY <1>1
<1>3. \A q \in Requests : Added(q) => Added(q)'
  BY <1>1, <1>2 DEF Added, Past
<1>4. HostInv'
  BY <1>1, <1>3 DEF HostInv
<1>5. o # None => /\ o \in Requests /\ Added(o) /\ Hosted(o)
                  /\ bot[o] = bot[r] /\ mon[o] = mon[r]
  BY <1>1 DEF HostInv, Hosted
<1>6. \A q \in Requests : Hosted(q)' => Hosted(q)
  BY <1>1 DEF Hosted
<1>7. ASSUME NEW s \in Requests, s # r, pc[s] \in Refunding, o # None, obj[s] = o
      PROVE  FALSE
  <2>1. bot[s] = bot[r]
    BY <1>5, <1>7 DEF RefundInv
  <2>2. pc[s] = "removeBot"
    BY <1>5, <1>7 DEF RefundInv
  <2> QED
    BY <1>1, <1>7, <2>1, <2>2 DEF SyncInv, Sync, StopSync
<1>8. ASSUME NEW s \in Requests, pc'[s] \in Refunding, obj'[s] # None
      PROVE  /\ Added(obj[s])'
             /\ bot'[obj'[s]] = bot'[s]
             /\ pc'[s] = "removeBot" => mon'[obj'[s]] = mon'[s]
             /\ pc'[s] # "removeBot" => ~ Hosted(obj[s])'
  <2>1. CASE s = r
    BY <1>1, <1>2, <1>3, <1>5, <1>8, <2>1
  <2>2. CASE s # r
    BY <1>1, <1>2, <1>3, <1>6, <1>8, <2>2 DEF RefundInv
  <2> QED
    BY <2>1, <2>2
<1>9. ASSUME NEW s \in Requests, NEW q \in Requests, pc'[s] \in Refunding, pc'[q] \in Refunding,
             obj'[s] # None, obj'[s] = obj'[q]
      PROVE  s = q
  BY <1>2, <1>7, <1>9 DEF RefundInv
<1> QED
  BY <1>4, <1>8, <1>9 DEF RefundInv, Refunding

(* Once a stop has removed the bot object it found, that is on no monitor. *)
LEMMA RemoveBotInv ==
  ASSUME IInv, HostInv, RefundInv, NEW r \in Requests, RemoveBotByHash(r)
  PROVE  HostInv' /\ RefundInv'
<1> USE DEF IInv, TypeOK
<1>1. /\ pc[r] = "removeBot" /\ mon[r] \in Requests /\ bot[r] \in Bots /\ obj[r] # None
      /\ bots' = [bots EXCEPT ![mon[r]][bot[r]] = None]
      /\ pc' = [pc EXCEPT ![r] = "setInactive"]
      /\ UNCHANGED <<bot, mon, obj>>
  BY DEF RemoveBotByHash, FoundInv, Goto
<1>2. \A m \in Requests, b \in Bots :
         bots'[m][b] = IF m = mon[r] /\ b = bot[r] THEN None ELSE bots[m][b]
  BY <1>1
<1>3. pc'[r] = "setInactive" /\ \A q \in Requests \ {r} : pc'[q] = pc[q]
  BY <1>1
<1>4. \A q \in Requests : Added(q) => Added(q)'
  BY <1>1, <1>3 DEF Added, Past
<1>5. HostInv'
  BY <1>1, <1>2, <1>4 DEF HostInv
<1>6. \A q \in Requests : Hosted(q)' => Hosted(q)
  BY <1>1, <1>2, None \notin Requests DEF Hosted, Requests, None
<1>7. /\ obj[r] \in Requests /\ Added(obj[r]) /\ bot[obj[r]] = bot[r] /\ mon[obj[r]] = mon[r]
  BY <1>1 DEF RefundInv, Refunding
<1>8. ~ Hosted(obj[r])'
  BY <1>1, <1>2, <1>7 DEF Hosted, HostInv
<1>9. ASSUME NEW s \in Requests, pc'[s] \in Refunding, obj'[s] # None
      PROVE  /\ Added(obj[s])'
             /\ bot'[obj'[s]] = bot'[s]
             /\ pc'[s] = "removeBot" => mon'[obj'[s]] = mon'[s]
             /\ pc'[s] # "removeBot" => ~ Hosted(obj[s])'
  <2>1. CASE s = r
    BY <1>1, <1>3, <1>4, <1>7, <1>8, <2>1
  <2>2. CASE s # r
    BY <1>1, <1>3, <1>4, <1>6, <1>9, <2>2 DEF RefundInv
  <2> QED
    BY <2>1, <2>2
<1>10. ASSUME NEW s \in Requests, NEW q \in Requests, pc'[s] \in Refunding, pc'[q] \in Refunding,
              obj'[s] # None, obj'[s] = obj'[q]
       PROVE  s = q
  BY <1>1, <1>3, <1>10 DEF RefundInv, Refunding
<1> QED
  BY <1>5, <1>9, <1>10 DEF RefundInv, Refunding

LEMMA KeyInvalidInv ==
  ASSUME IInv, HostInv, RefundInv, NEW b \in Bots, KeyInvalid(b)
  PROVE  HostInv' /\ RefundInv'
<1> USE DEF IInv, TypeOK
<1>1. /\ runningMons[TraderOf[b]] # None
      /\ bots' = [bots EXCEPT ![runningMons[TraderOf[b]]][b] = None]
      /\ UNCHANGED <<pc, bot, mon, obj>>
  BY DEF KeyInvalid, Found, stopVars
<1>2. runningMons[TraderOf[b]] \in Requests
  BY <1>1, TraderAssumption
<1>3. \A m \in Requests, c \in Bots : bots'[m][c] \in {None, bots[m][c]}
  BY <1>1, <1>2
<1>4. HostInv'
  BY <1>1, <1>3 DEF HostInv, Added
<1>5. \A q \in Requests : Hosted(q)' => Hosted(q)
  BY <1>1, <1>3 DEF Hosted, Requests, None
<1> QED
  BY <1>1, <1>4, <1>5 DEF RefundInv, Added

(* Every step keeps the invariant of the ledger.                           *)
LEMMA LInvStep == LInv /\ [Next]_vars => LInv'
<1> SUFFICES ASSUME LInv, [Next]_vars PROVE LInv'
  OBVIOUS
<1>1. IInv' /\ SyncInv' /\ AmountInv'
  BY TypeStep, FoundStep, RegisteredStep, SyncStep, AmountStep DEF LInv, IInv
<1>2. HostInv' /\ RefundInv'
  BY QuietOrNot, QuietInv, AddBotInv, GetBotInv, RemoveBotInv, KeyInvalidInv DEF LInv, IInv
<1> QED
  BY <1>1, <1>2 DEF LInv

-----------------------------------------------------------------------------
(* The refinement. A step that does not touch the ledger: nobody begins or *)
(* ceases to owe a balance or to correct it.                               *)
Still ==
    /\ UNCHANGED <<remaining, bots, bot, obj>>
    /\ \A q \in Requests :
          /\ pc'[q] \in Reduced <=> pc[q] \in Reduced
          /\ pc'[q] = "fix" <=> pc[q] = "fix"
          /\ obj[q] # None => (pc'[q] \in Refunding <=> pc[q] \in Refunding)
          /\ bal'[q] = bal[q] \/ pc[q] = "makeBot"

LEMMA StillOrNot ==
  ASSUME TypeOK, FoundInv, [Next]_vars
  PROVE  \/ Still
         \/ \E r \in Requests :
               \/ CheckAndReduceCpytBalance(r) \/ CompareBalance(r) \/ FixBalance(r)
               \/ AddBot(r) \/ GetBot(r) \/ RemoveBotByHash(r) \/ AddBack(r) \/ GiveBack(r)
         \/ \E b \in Bots : KeyInvalid(b)
<1> USE DEF TypeOK, FoundInv, Reduced, Refunding, Still, Goto, dbVars, handlerVars, startVars, stopVars, fixVars, asyncVars
<1>1. ASSUME NEW r \in Requests, ReceiveStart(r) PROVE Still
  BY <1>1 DEF ReceiveStart, Idle
<1>2. ASSUME NEW r \in Requests, ReceiveStop(r) PROVE Still
  BY <1>2 DEF ReceiveStop, Idle
<1>3. ASSUME NEW r \in Requests, NEW q \in Requests, ReceiveRestart(r, q) PROVE Still
  BY <1>3 DEF ReceiveRestart, Idle
<1>4. ASSUME NEW r \in Requests, StopReturned(r) PROVE Still
  BY <1>4 DEF StopReturned
<1>5. ASSUME NEW r \in Requests, ReadConfig(r) PROVE Still
  BY <1>5 DEF ReadConfig, ReturnStart
<1>6. ASSUME NEW r \in Requests, SetStarting(r) PROVE Still
  BY <1>6 DEF SetStarting
<1>7. ASSUME NEW r \in Requests, MakeBot(r) PROVE Still
  BY <1>7 DEF MakeBot
<1>8. ASSUME NEW r \in Requests, ReadBots(r) PROVE Still
  BY <1>8 DEF ReadBots
<1>9. ASSUME NEW r \in Requests, ReadUser(r) PROVE Still
  BY <1>9 DEF ReadUser
<1>10. ASSUME NEW r \in Requests, NEW b \in Bots, SumBalances(r, b) PROVE Still
  BY <1>10 DEF SumBalances, Found
<1>11. ASSUME NEW r \in Requests, GetMonitor(r) PROVE Still
  BY <1>11 DEF GetMonitor
<1>12. ASSUME NEW r \in Requests, WaitReturns(r) PROVE Still
  BY <1>12 DEF WaitReturns
<1>13. ASSUME NEW r \in Requests, CreateNewMonitor(r) PROVE Still
  BY <1>13 DEF CreateNewMonitor
<1>14. ASSUME NEW r \in Requests, HandleTraderBotDifferences(r) PROVE Still
  BY <1>14 DEF HandleTraderBotDifferences
<1>15. ASSUME NEW r \in Requests, AddMonitor(r) PROVE Still
  BY <1>15 DEF AddMonitor, Started, ReturnStart
<1>16. ASSUME NEW r \in Requests, PostBotLaunch(r) PROVE Still
  BY <1>16 DEF PostBotLaunch
<1>17. ASSUME NEW r \in Requests, Rollback(r) PROVE Still
  BY <1>17 DEF Rollback, ReturnStart
<1>18. ASSUME NEW r \in Requests, SetStopping(r) PROVE Still
  BY <1>18 DEF SetStopping
<1>19. ASSUME NEW r \in Requests, FindMonitor(r) PROVE Still
  BY <1>19 DEF FindMonitor
<1>20. ASSUME NEW r \in Requests, SetInactive(r) PROVE Still
  BY <1>20 DEF SetInactive
<1>21. ASSUME NEW r \in Requests, RemoveMonitor(r) PROVE Still
  BY <1>21 DEF RemoveMonitor
<1>22. ASSUME NEW r \in Requests, EndMonitor(r) PROVE Still
  BY <1>22 DEF EndMonitor
<1>23. ASSUME NEW b \in Bots, KeyInvalidStatus(b) PROVE Still
  BY <1>23 DEF KeyInvalidStatus
<1>24. ASSUME UNCHANGED vars PROVE Still
  BY <1>24 DEF vars
<1> QED
  BY <1>1, <1>2, <1>3, <1>4, <1>5, <1>6, <1>7, <1>8, <1>9, <1>10, <1>11, <1>12, <1>13, <1>14, <1>15, <1>16, <1>17, <1>18, <1>19, <1>20, <1>21, <1>22, <1>23, <1>24 DEF Next, StartStep, StopStep

(* A start owes nothing before it reduces the balance.                     *)
LEMMA NotYetOwed ==
  ASSUME TypeOK, HostInv, RefundInv, NEW r \in Requests, pc[r] \notin Reduced, pc[r] \notin Past
  PROVE  ~ Owed(r)
<1>1. r # None /\ ~ Added(r)
  BY DEF Requests, None, Added
<1>2. ~ Hosted(r)
  BY <1>1 DEF Hosted, HostInv, TypeOK
<1>3. \A s \in Requests : ~ (obj[s] = r /\ pc[s] \in Refunding)
  BY <1>1 DEF RefundInv
<1> QED
  BY <1>2, <1>3 DEF Owed, Refunding

(* If who owes, and how much, changes for at most one request, Held does.  *)
LEMMA HeldChange ==
  ASSUME NEW o \in Requests,
         \A r \in Requests \ {o} : (Owed(r)' <=> Owed(r)) /\ (Owed(r) => bal'[r] = bal[r])
  PROVE  Held' = [Held EXCEPT ![o] = IF Owed(o)' THEN bal'[o] ELSE 0]
  BY DEF Held

LEMMA HeldSame ==
  ASSUME \A r \in Requests : (Owed(r)' <=> Owed(r)) /\ (Owed(r) => bal'[r] = bal[r])
  PROVE  Held' = Held
  BY DEF Held

Correcting == {r \in Requests : pc[r] = "fix"}

(* A bot object is taken off a monitor, or another is put in its place: if *)
(* no stop is to give its balance back, that is forfeited.                 *)
LEMMA DropStep ==
  ASSUME NEW o \in Requests, UNCHANGED <<remaining, bal>>, Correcting' = Correcting,
         Owed(o)' => Owed(o),
         \A r \in Requests \ {o} : Owed(r)' <=> Owed(r)
  PROVE  [Ledger!Next]_(Ledger!vars)
<1>1. CASE Owed(o) /\ ~ Owed(o)'
  <2>1. Held' = [Held EXCEPT ![o] = 0]
    BY <1>1, HeldChange
  <2> QED
    BY <2>1 DEF Ledger!Next, Ledger!Forfeit, Correcting
<1>2. CASE Owed(o)' <=> Owed(o)
  <2>1. Held' = Held
    BY <1>2, HeldSame
  <2> QED
    BY <2>1 DEF Ledger!vars, Correcting
<1> QED
  BY <1>1, <1>2

LEMMA StillStep ==
  ASSUME LInv, Still
  PROVE  UNCHANGED Ledger!vars
<1> USE DEF LInv, IInv
<1>1. \A r \in Requests : Hosted(r)' <=> Hosted(r)
  BY DEF Hosted, Still
<1>2. ASSUME NEW r \in Requests PROVE Owed(r)' <=> Owed(r)
  <2>1. pc'[r] \in Reduced <=> pc[r] \in Reduced
    BY DEF Still
  <2>2. r # None
    BY DEF Requests, None
  <2>3. \A s \in Requests : obj'[s] = r /\ pc'[s] \in Refunding <=> obj[s] = r /\ pc[s] \in Refunding
    BY <2>2 DEF Still
  <2> QED
    BY <1>1, <2>1, <2>3 DEF Owed, Refunding
<1>3. \A r \in Requests : Owed(r) => bal'[r] = bal[r]
  BY NotYetOwed DEF Still, Reduced, Past
<1>4. Held' = Held
  BY <1>2, <1>3, HeldSame
<1>5. Correcting' = Correcting
  BY DEF Still, Correcting
<1> QED
  BY <1>4, <1>5 DEF Ledger!vars, Correcting, Still

(* A start that takes its balance: only that much, and nothing before.     *)
LEMMA TakeStep ==
  ASSUME LInv, NEW r \in Requests, CheckAndReduceCpytBalance(r)
  PROVE  [Ledger!Next]_(Ledger!vars)
<1> USE DEF LInv, IInv, TypeOK
<1>1. /\ pc[r] = "reduce" /\ bal[r] \in Balances
      /\ UNCHANGED <<bots, bot, obj, bal>>
  BY DEF CheckAndReduceCpytBalance, AmountInv, handlerVars, startVars, stopVars
<1>2. ~ Owed(r)
  BY <1>1, NotYetOwed DEF Reduced, Past
<1>3. \A q \in Requests : Hosted(q)' <=> Hosted(q)
  BY <1>1 DEF Hosted
<1>4. PICK label \in {"getMonitor", "readBots", "rollback"} : pc' = [pc EXCEPT ![r] = label]
  BY DEF CheckAndReduceCpytBalance, Goto
<1>5. Correcting' = Correcting
  BY <1>1, <1>4 DEF Correcting
<1>6. \A q \in Requests \ {r} : Owed(q)' <=> Owed(q)
  BY <1>1, <1>3, <1>4 DEF Owed
<1>7. CASE remaining >= bal[r]
  <2>1. remaining' = remaining - bal[r] /\ pc'[r] = "getMonitor"
    BY <1>7 DEF CheckAndReduceCpytBalance, Goto
  <2>2. Owed(r)'
    BY <2>1 DEF Owed, Reduced
  <2>3. Held' = [Held EXCEPT ![r] = bal[r]]
    BY <1>1, <1>6, <2>2, HeldChange
  <2>4. Held[r] = 0
    BY <1>2 DEF Held
  <2> QED
    BY <1>1, <1>5, <1>7, <2>1, <2>3, <2>4 DEF Ledger!Next, Ledger!Take, Correcting
<1>8. CASE ~ remaining >= bal[r]
  <2>1. remaining' = remaining /\ pc'[r] \in {"readBots", "rollback"}
    BY <1>8 DEF CheckAndReduceCpytBalance, Goto
  <2>2. ~ Owed(r)'
    BY <1>1, <1>2, <1>3, <1>4, <2>1 DEF Owed, Reduced
  <2>3. Held' = Held
    BY <1>1, <1>2, <1>6, <2>2, HeldSame
  <2> QED
    BY <1>5, <2>1, <2>3 DEF Ledger!vars, Correcting
<1> QED
  BY <1>7, <1>8

(* The two ends of a correction.                                           *)
LEMMA BeginCorrectionStep ==
  ASSUME LInv, NEW r \in Requests, CompareBalance(r)
  PROVE  [Ledger!Next]_(Ledger!vars)
<1> USE DEF LInv, IInv, TypeOK
<1>1. /\ pc[r] = "sum" /\ UNCHANGED <<remaining, bots, bot, obj, bal>>
      /\ pc' = [pc EXCEPT ![r] = IF seen[r] = 0 THEN "rollback" ELSE "fix"]
  BY DEF CompareBalance, Goto, dbVars, handlerVars, startVars, stopVars
<1>2. \A q \in Requests : Hosted(q)' <=> Hosted(q)
  BY <1>1 DEF Hosted
<1>3. \A q \in Requests : Owed(q)' <=> Owed(q)
  BY <1>1, <1>2 DEF Owed, Reduced
<1>4. Held' = Held
  BY <1>1, <1>3, HeldSame
<1>5. CASE seen[r] = 0
  <2>1. Correcting' = Correcting
    BY <1>1, <1>5 DEF Correcting
  <2> QED
    BY <1>1, <1>4, <2>1 DEF Ledger!vars, Correcting
<1>6. CASE seen[r] # 0
  <2>1. Correcting' = Correcting \cup {r} /\ r \notin Correcting
    BY <1>1, <1>6 DEF Correcting
  <2> QED
    BY <1>1, <1>4, <2>1 DEF Ledger!Next, Ledger!BeginCorrection, Correcting
<1> QED
  BY <1>5, <1>6

LEMMA EndCorrectionStep ==
  ASSUME LInv, NEW r \in Requests, FixBalance(r)
  PROVE  [Ledger!Next]_(Ledger!vars)
<1> USE BalanceAssumption DEF LInv, IInv, TypeOK
<1>1. /\ pc[r] = "fix" /\ UNCHANGED <<bots, bot, obj, bal>>
      /\ pc' = [pc EXCEPT ![r] = "readConfig"]
      /\ remaining' = IF MaxCTBalance - total[r] = seen[r] THEN remaining ELSE MaxCTBalance - total[r]
  BY DEF FixBalance, Goto, handlerVars, stopVars
<1>2. \A q \in Requests : Hosted(q)' <=> Hosted(q)
  BY <1>1 DEF Hosted
<1>3. \A q \in Requests : Owed(q)' <=> Owed(q)
  BY <1>1, <1>2 DEF Owed, Reduced
<1>4. Held' = Held
  BY <1>1, <1>3, HeldSame
<1>5. Correcting' = Correcting \ {r} /\ r \in Correcting
  BY <1>1 DEF Correcting
<1>6. remaining' = remaining \/ (remaining' \in Int /\ remaining' <= MaxCTBalance)
  <2>1. total[r] \in Nat
    OBVIOUS
  <2> QED
    BY <1>1, <2>1
<1> QED
  BY <1>4, <1>5, <1>6 DEF Ledger!Next, Ledger!EndCorrection, Correcting

(* The balance is given back: by a start that failed, or by the one stop   *)
(* that found the bot object.                                              *)
LEMMA AddBackStep ==
  ASSUME LInv, NEW r \in Requests, AddBack(r)
  PROVE  [Ledger!Next]_(Ledger!vars)
<1> USE DEF LInv, IInv, TypeOK
<1>1. /\ pc[r] = "addBack" /\ UNCHANGED <<bots, bot, obj, bal>>
      /\ pc' = [pc EXCEPT ![r] = "rollback"]
      /\ remaining' = remaining + bal[r]
  BY DEF AddBack, Goto, handlerVars, startVars, stopVars
<1>2. \A q \in Requests : Hosted(q)' <=> Hosted(q)
  BY <1>1 DEF Hosted
<1>3. Owed(r)
  BY <1>1 DEF Owed, Reduced
<1>4. ~ Hosted(r) /\ \A s \in Requests : ~ (obj[s] = r /\ pc[s] \in Refunding)
  <2>1. r # None /\ ~ Added(r)
    BY <1>1 DEF Requests, None, Added, Past
  <2> QED
    BY <2>1 DEF Hosted, HostInv, RefundInv
<1>5. ~ Owed(r)'
  BY <1>1, <1>2, <1>4 DEF Owed, Reduced, Refunding
<1>6. \A q \in Requests \ {r} : Owed(q)' <=> Owed(q)
  BY <1>1, <1>2 DEF Owed
<1>7. Held' = [Held EXCEPT ![r] = 0]
  BY <1>1, <1>5, <1>6, HeldChange
<1>8. Held[r] = bal[r]
  BY <1>3 DEF Held
<1>9. Correcting' = Correcting
  BY <1>1 DEF Correcting
<1> QED
  BY <1>1, <1>7, <1>8, <1>9 DEF Ledger!Next, Ledger!Give, Correcting

LEMMA GiveBackStep ==
  ASSUME LInv, NEW r \in Requests, GiveBack(r)
  PROVE  [Ledger!Next]_(Ledger!vars)
<1> USE DEF LInv, IInv, TypeOK
<1>1. /\ pc[r] = "giveBack" /\ UNCHANGED <<bots, bot, obj, bal>>
      /\ pc' = [pc EXCEPT ![r] = IF last[r] THEN "removeMonitor" ELSE "done"]
      /\ remaining' = remaining + bal[obj[r]]
      /\ obj[r] # None
  BY DEF GiveBack, FoundInv, Goto, handlerVars, startVars, stopVars
<1>2. /\ obj[r] \in Requests /\ Added(obj[r]) /\ ~ Hosted(obj[r])
      /\ \A s \in Requests : pc[s] \in Refunding /\ obj[s] = obj[r] => s = r
  BY <1>1 DEF RefundInv, Refunding
<1>3. \A q \in Requests : Hosted(q)' <=> Hosted(q)
  BY <1>1 DEF Hosted
<1>4. Owed(obj[r])
  BY <1>1 DEF Owed
<1>5. pc'[r] \notin Refunding /\ pc'[r] \notin Reduced /\ \A q \in Requests \ {r} : pc'[q] = pc[q]
  BY <1>1 DEF Refunding, Reduced
<1>6. ~ Owed(obj[r])'
  <2>1. pc'[obj[r]] \notin Reduced
    BY <1>1, <1>2, <1>5 DEF Added, Past, Reduced
  <2>2. \A s \in Requests : ~ (obj[s] = obj[r] /\ pc'[s] \in Refunding)
    BY <1>2, <1>5
  <2> QED
    BY <1>1, <1>2, <1>3, <2>1, <2>2 DEF Owed, Refunding
<1>7. ASSUME NEW q \in Requests, q # obj[r] PROVE Owed(q)' <=> Owed(q)
  <2>1. pc'[q] \in Reduced <=> pc[q] \in Reduced
    BY <1>1, <1>5 DEF Reduced
  <2>2. \A s \in Requests : obj'[s] = q /\ pc'[s] \in Refunding <=> obj[s] = q /\ pc[s] \in Refunding
    BY <1>1, <1>5, <1>7
  <2> QED
    BY <1>3, <2>1, <2>2 DEF Owed, Refunding
<1>8. Held' = [Held EXCEPT ![obj[r]] = 0]
  BY <1>1, <1>2, <1>6, <1>7, HeldChange
<1>9. Held[obj[r]] = bal[obj[r]]
  BY <1>2, <1>4 DEF Held
<1>10. Correcting' = Correcting
  BY <1>1 DEF Correcting
<1> QED
  BY <1>1, <1>2, <1>8, <1>9, <1>10 DEF Ledger!Next, Ledger!Give, Correcting

(* A stop takes over the balance of a bot object that is on its monitor.   *)
LEMMA GetBotStep ==
  ASSUME LInv, NEW r \in Requests, GetBot(r)
  PROVE  UNCHANGED Ledger!vars
<1> USE DEF LInv, IInv, TypeOK
<1> DEFINE o == bots[mon[r]][bot[r]]
<1>1. /\ pc[r] = "getBot" /\ mon[r] \in Requests /\ obj[r] = None
      /\ obj' = [obj EXCEPT ![r] = o]
      /\ pc' = [pc EXCEPT ![r] = IF o = None THEN "setInactive" ELSE "removeBot"]
      /\ UNCHANGED <<remaining, bots, bot, bal>>
  BY DEF GetBot, FoundInv, Goto, dbVars, handlerVars, startVars
<1>2. \A q \in Requests : Hosted(q)' <=> Hosted(q)
  BY <1>1 DEF Hosted
<1>3. /\ obj'[r] = o /\ pc'[r] \notin Reduced
      /\ \A q \in Requests \ {r} : pc'[q] = pc[q] /\ obj'[q] = obj[q]
  BY <1>1 DEF Reduced
<1>4. o # None => o \in Requests /\ Hosted(o)
  BY <1>1 DEF HostInv, Hosted
<1>5. ASSUME NEW q \in Requests PROVE Owed(q)' <=> Owed(q)
  <2>1. q # None
    BY DEF Requests, None
  <2>2. pc'[q] \in Reduced <=> pc[q] \in Reduced
    BY <1>1, <1>3 DEF Reduced
  <2>3. CASE q = o
    BY <1>2, <1>4, <2>1, <2>3 DEF Owed
  <2>4. CASE q # o
    <3>1. \A s \in Requests : obj'[s] = q /\ pc'[s] \in Refunding <=> obj[s] = q /\ pc[s] \in Refunding
      BY <1>1, <1>3, <2>1, <2>4
    <3> QED
      BY <1>2, <2>2, <3>1 DEF Owed, Refunding
  <2> QED
    BY <2>3, <2>4
<1>6. Held' = Held
  BY <1>1, <1>5, HeldSame
<1>7. Correcting' = Correcting
  BY <1>1 DEF Correcting
<1> QED
  BY <1>1, <1>6, <1>7 DEF Ledger!vars, Correcting

(* Overwriting one entry of a monitor's map of bots.                       *)
LEMMA Overwrite ==
  ASSUME TypeOK, NEW m \in Requests, NEW b \in Bots, NEW o,
         bots' = [bots EXCEPT ![m][b] = o], UNCHANGED bot
  PROVE  \A q \in Requests :
            q # o => /\ Hosted(q)' => Hosted(q)
                     /\ q # bots[m][b] => (Hosted(q)' <=> Hosted(q))
<1>1. \A n \in Requests, c \in Bots :
         bots'[n][c] = IF n = m /\ c = b THEN o ELSE bots[n][c]
  BY DEF TypeOK
<1> QED
  BY <1>1 DEF Hosted, TypeOK

(* One entry is overwritten, and nobody else's debt changes.               *)
LEMMA OverwriteStep ==
  ASSUME LInv, NEW m \in Requests, NEW b \in Bots, NEW o,
         bots' = [bots EXCEPT ![m][b] = o],
         UNCHANGED <<remaining, bot, obj, bal>>, Correcting' = Correcting,
         \A q \in Requests : pc'[q] \in Refunding <=> pc[q] \in Refunding,
         \A q \in Requests : q # o => (pc'[q] \in Reduced <=> pc[q] \in Reduced),
         o \in Requests => Owed(o) /\ Owed(o)'
  PROVE  [Ledger!Next]_(Ledger!vars)
<1> USE DEF LInv, IInv
<1> DEFINE old == bots[m][b]
<1>1. \A q \in Requests :
         q # o => /\ Hosted(q)' => Hosted(q)
                  /\ q # old => (Hosted(q)' <=> Hosted(q))
  BY Overwrite
<1>2. ASSUME NEW q \in Requests, q # old PROVE Owed(q)' <=> Owed(q)
  <2>1. CASE q = o
    BY <2>1
  <2>2. CASE q # o
    BY <1>1, <1>2, <2>2 DEF Owed, Refunding
  <2> QED
    BY <2>1, <2>2
<1>3. ASSUME NEW q \in Requests PROVE Owed(q)' => Owed(q)
  <2>1. CASE q = o
    BY <2>1
  <2>2. CASE q # o
    BY <1>1, <2>2 DEF Owed, Refunding
  <2> QED
    BY <2>1, <2>2
<1>4. CASE old \in Requests
  BY <1>2, <1>3, <1>4, DropStep
<1>5. CASE old \notin Requests
  <2>1. Held' = Held
    BY <1>2, <1>5, HeldSame
  <2> QED
    BY <2>1 DEF Ledger!vars, Correcting
<1> QED
  BY <1>4, <1>5

LEMMA AddBotStep ==
  ASSUME LInv, NEW r \in Requests, AddBot(r)
  PROVE  [Ledger!Next]_(Ledger!vars)
<1> USE DEF LInv, IInv, TypeOK
<1>1. /\ pc[r] = "addBot" /\ mon[r] \in Requests
      /\ bots' = [bots EXCEPT ![mon[r]][bot[r]] = r]
      /\ UNCHANGED <<remaining, bot, obj, bal>>
  BY DEF AddBot, FoundInv, dbVars, stopVars
<1>2. PICK label \in Past : pc' = [pc EXCEPT ![r] = label]
  BY Zenon DEF AddBot, Started, ReturnStart, Goto, Past
<1>3. Correcting' = Correcting
  BY <1>1, <1>2 DEF Correcting, Past
<1>4. Owed(r) /\ Owed(r)'
  <2>1. bots'[mon[r]][bot'[r]] = r
    BY <1>1
  <2>2. Hosted(r)'
    BY <1>1, <2>1 DEF Hosted
  <2> QED
    BY <1>1, <2>2 DEF Owed, Reduced
<1>5. /\ \A q \in Requests : pc'[q] \in Refunding <=> pc[q] \in Refunding
      /\ \A q \in Requests : q # r => (pc'[q] \in Reduced <=> pc[q] \in Reduced)
  BY <1>1, <1>2 DEF Refunding, Past
<1> QED
  BY <1>1, <1>3, <1>4, <1>5, OverwriteStep

LEMMA RemoveBotStep ==
  ASSUME LInv, NEW r \in Requests, RemoveBotByHash(r)
  PROVE  [Ledger!Next]_(Ledger!vars)
<1> USE DEF LInv, IInv, TypeOK
<1>1. /\ pc[r] = "removeBot" /\ mon[r] \in Requests
      /\ bots' = [bots EXCEPT ![mon[r]][bot[r]] = None]
      /\ pc' = [pc EXCEPT ![r] = "setInactive"]
      /\ UNCHANGED <<remaining, bot, obj, bal>>
  BY DEF RemoveBotByHash, FoundInv, Goto, dbVars, startVars
<1>2. /\ Correcting' = Correcting
      /\ \A q \in Requests : pc'[q] \in Refunding <=> pc[q] \in Refunding
      /\ \A q \in Requests : pc'[q] \in Reduced <=> pc[q] \in Reduced
  BY <1>1 DEF Correcting, Refunding, Reduced
<1>3. None \notin Requests
  BY DEF Requests, None
<1> QED
  BY <1>1, <1>2, <1>3, OverwriteStep

LEMMA KeyInvalidStep ==
  ASSUME LInv, NEW b \in Bots, KeyInvalid(b)
  PROVE  [Ledger!Next]_(Ledger!vars)
<1> USE DEF LInv, IInv, TypeOK
<1>1. /\ runningMons[TraderOf[b]] # None
      /\ bots' = [bots EXCEPT ![runningMons[TraderOf[b]]][b] = None]
      /\ UNCHANGED <<pc, remaining, bot, obj, bal>>
  BY DEF KeyInvalid, Found, dbVars, startVars, stopVars
<1>2. runningMons[TraderOf[b]] \in Requests
  BY <1>1, TraderAssumption
<1>3. Correcting' = Correcting
  BY <1>1 DEF Correcting
<1>4. None \notin Requests
  BY DEF Requests, None
<1> QED
  BY <1>1, <1>2, <1>3, <1>4, OverwriteStep

LEMMA InitLedger == Init => Ledger!Init
<1> SUFFICES ASSUME Init PROVE Ledger!Init
  OBVIOUS
<1>1. \A r \in Requests : ~ Owed(r)
  BY DEF Init, Owed, Hosted, Reduced, Requests, None
<1>2. Held = [a \in Requests |-> 0]
  BY <1>1 DEF Held
<1>3. {r \in Requests : pc[r] = "fix"} = {}
  BY DEF Init
<1> QED
  BY <1>2, <1>3 DEF Init, Ledger!Init

LEMMA StepLedger == LInv /\ [Next]_vars => [Ledger!Next]_(Ledger!vars)
<1> SUFFICES ASSUME LInv, [Next]_vars PROVE [Ledger!Next]_(Ledger!vars)
  OBVIOUS
<1>1. CASE Still
  BY <1>1, StillStep
<1>2. ASSUME NEW r \in Requests, GetBot(r) PROVE [Ledger!Next]_(Ledger!vars)
  BY <1>2, GetBotStep
<1> QED
  BY <1>1, <1>2, StillOrNot, TakeStep, BeginCorrectionStep, EndCorrectionStep, AddBotStep,
     RemoveBotStep, AddBackStep, GiveBackStep, KeyInvalidStep DEF LInv, IInv

(* Starting, stopping, restarting and losing bots implements the ledger of *)
(* CpytBalance: whatever the interleaving, a balance is taken only from    *)
(* what is left and given back at most once, in the amount taken.          *)
THEOREM LedgerIsKept == Spec => LedgerSpec
<1>1. LInv /\ [Next]_vars => LInv'
  BY LInvStep
<1> QED
  BY <1>1, InitLInv, InitLedger, StepLedger, PTL DEF Spec, LedgerSpec, Ledger!Spec
=============================================================================
