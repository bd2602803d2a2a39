--------------------------- MODULE StartupProofs ---------------------------
(***************************************************************************)
(* Proofs about Startup, for any number of bots, traders, requests and     *)
(* crashes: that what a bot holds of the balance is tracked, and that the  *)
(* bots on monitors are the active ones. Both follow each bot through the  *)
(* phases of the program (PlaceInv, MoneyInv); the proxies do not matter.  *)
(* Then, on top of that, that proxies are accounted for and run out only   *)
(* when they must: by what the clients of each monitor have of them        *)
(* (ProxyInv), and what a launch will give each (ShareInv).                *)
(***************************************************************************)
EXTENDS Startup, TotalsTheorems

Labels == {"none", "starting", "taken", "failing", "placed", "first",
           "stopping", "removed", "gone", "return", "end"}

TypeInv ==
    /\ status \in [Bots -> Statuses]
    /\ bal \in [Bots -> Int] /\ taken \in [Bots -> Int]
    /\ op \in [Bots -> Labels]
    /\ on \in [Traders -> SUBSET Bots] /\ pending \in [Traders -> SUBSET Bots]
    /\ launch \in [Traders -> {"none", "proxies", "create", "bots"}]
    /\ missing \subseteq stuck /\ stuck \subseteq Bots
    /\ reg \subseteq Traders
    /\ phase \in {"down", "launching", "up"}

(* What only some phases have.                                             *)
PhaseInv ==
    /\ phase = "down" => missing = {} /\ \A t \in Traders : on[t] = {}
    /\ phase # "launching" => \A t \in Traders : launch[t] = "none"
    /\ phase # "up" => \A b \in Bots : op[b] = "none"
    /\ \A t \in Traders :
          /\ launch[t] = "none" => pending[t] = {} /\ (on[t] # {} => t \in reg)
          /\ \A b \in Bots : b \in pending[t] \cup on[t] => TraderOf[b] = t

(* Where a bot is during a launch, and after it.                           *)
PlaceInv ==
    \A b \in Bots : LET t == TraderOf[b] IN
        /\ phase = "launching" =>
              /\ status[b] \in {"active", "inactive"}
              /\ status[b] = "active" <=> b \in pending[t] \/ b \in missing \/ b \in on[t]
              /\ b \in pending[t] => b \notin missing /\ b \notin on[t]
              /\ b \in missing => b \notin on[t]
        /\ phase = "up" =>
              /\ b \in on[t] => /\ b \notin missing
                                /\ op[b] \in {"none", "placed", "first", "stopping"}
                                /\ op[b] = "none" => status[b] = "active"
              /\ b \in missing => /\ op[b] \in {"none", "placed", "first", "stopping", "gone"}
                                  /\ op[b] = "none" => status[b] = "active"
              /\ op[b] = "none" => status[b] \in {"active", "inactive"}
              /\ \/ op[b] \in {"placed", "first", "stopping"}
                 \/ op[b] = "none" /\ status[b] = "active"
                 => b \in on[t] \/ b \in missing
              /\ op[b] = "gone" => b \in stuck
              /\ op[b] \in {"return", "end"} => status[b] = "inactive"

(* What a bot holds of the balance, as long as its object knows.           *)
MoneyInv ==
    \A b \in Bots : b \notin stuck /\ b \notin revalued =>
        /\ op[b] = "none" /\ status[b] # "active" => taken[b] = 0
        /\ phase # "down" /\ op[b] = "none" /\ status[b] = "active"
           => b \in pending[TraderOf[b]] \/ bal[b] = taken[b]
        /\ op[b] \in Holding => bal[b] = taken[b]
        /\ op[b] \in {"starting", "failing", "end"} => taken[b] = 0

IInv == TypeInv /\ PhaseInv /\ PlaceInv /\ MoneyInv

-----------------------------------------------------------------------------
LEMMA InitIInv == Init => IInv
<1> SUFFICES ASSUME Init PROVE IInv
  OBVIOUS
<1> USE TraderAssumption, BalanceAssumption DEF Init
<1>1. TypeInv
  BY DEF TypeInv, Labels, Statuses
<1>2. PhaseInv
  BY DEF PhaseInv
<1>3. PlaceInv
  BY DEF PlaceInv
<1>4. MoneyInv
  BY DEF MoneyInv, Holding
<1> QED
  BY <1>1, <1>2, <1>3, <1>4 DEF IInv

(* A crash forgets what memory had, and adds who was in between to stuck.  *)
LEMMA DieStep ==
    ASSUME IInv, phase # "down", Die
    PROVE  IInv'
<1> USE TraderAssumption DEF IInv, Die, world, dbVars
<1>1. TypeInv'
  BY DEF TypeInv, Labels, Statuses
<1>2. PhaseInv'
  BY DEF PhaseInv
<1>3. PlaceInv'
  BY DEF PlaceInv
<1>4. MoneyInv'
  BY DEF TypeInv, PhaseInv, PlaceInv, MoneyInv, Holding, Labels
<1> QED
  BY <1>1, <1>2, <1>3, <1>4

LEMMA BootStep ==
    ASSUME IInv, Boot
    PROVE  IInv'
<1> USE TraderAssumption, BalanceAssumption DEF IInv, Boot, world, dbVars,
        monVars, launchVars, requestVars, historyVars, TypeInv, Labels
<1>1. TypeInv'
  BY DEF Statuses
<1>2. PhaseInv'
  BY DEF PhaseInv
<1>3. PlaceInv'
  BY DEF PhaseInv, PlaceInv
<1>4. MoneyInv'
  BY DEF PhaseInv, PlaceInv, MoneyInv, Holding
<1> QED
  BY <1>1, <1>2, <1>3, <1>4

LEMMA TakeProxiesStep ==
    ASSUME IInv, NEW t \in Traders, TakeProxies(t)
    PROVE  IInv'
<1>1. phase # "down"
  BY TraderAssumption DEF IInv, PhaseInv, TakeProxies
<1>2. CASE avail < ProxPerSign
  BY <1>1, <1>2, DieStep DEF TakeProxies
<1>3. CASE ~(avail < ProxPerSign)
  <2> USE TraderAssumption, BalanceAssumption DEF IInv, TakeProxies, world, dbVars,
        monVars, launchVars, requestVars, historyVars, TypeInv, Labels
  <2>1. TypeInv'
    BY <1>3 DEF Statuses
  <2>2. PhaseInv'
    BY <1>3 DEF PhaseInv
  <2>3. PlaceInv'
    BY <1>3 DEF PhaseInv, PlaceInv
  <2>4. MoneyInv'
    BY <1>3 DEF PhaseInv, PlaceInv, MoneyInv, Holding
  <2> QED
    BY <2>1, <2>2, <2>3, <2>4
<1> QED
  BY <1>2, <1>3

LEMMA CreateMonitorStep ==
    ASSUME IInv, NEW t \in Traders, CreateMonitor(t)
    PROVE  IInv'
<1> USE TraderAssumption, BalanceAssumption DEF IInv, CreateMonitor, world, dbVars,
        monVars, launchVars, requestVars, historyVars, TypeInv, Labels
<1>1. TypeInv'
  BY DEF Statuses
<1>2. PhaseInv'
  BY DEF PhaseInv
<1>3. PlaceInv'
  BY DEF PhaseInv, PlaceInv
<1>4. MoneyInv'
  BY DEF PhaseInv, PlaceInv, MoneyInv, Holding
<1> QED
  BY <1>1, <1>2, <1>3, <1>4

LEMMA MakeBotStep ==
    ASSUME IInv, NEW t \in Traders, NEW b \in Bots, MakeBot(t, b)
    PROVE  IInv'
<1> USE TraderAssumption, BalanceAssumption DEF IInv, MakeBot, world, dbVars,
        monVars, launchVars, requestVars, historyVars, TypeInv, Labels
<1>1. TypeInv'
  BY DEF Statuses
<1>2. PhaseInv'
  BY DEF PhaseInv
<1>3. PlaceInv'
  BY DEF PhaseInv, PlaceInv
<1>4. MoneyInv'
  BY DEF PhaseInv, PlaceInv, MoneyInv, Holding
<1> QED
  BY <1>1, <1>2, <1>3, <1>4

LEMMA CollectStep ==
    ASSUME IInv, NEW t \in Traders, Collect(t)
    PROVE  IInv'
<1> USE TraderAssumption, BalanceAssumption DEF IInv, Collect, world, dbVars,
        monVars, launchVars, requestVars, historyVars, TypeInv, Labels
<1>1. TypeInv'
  BY DEF Statuses
<1>2. PhaseInv'
  BY DEF PhaseInv
<1>3. PlaceInv'
  BY DEF PhaseInv, PlaceInv
<1>4. MoneyInv'
  BY DEF PhaseInv, PlaceInv, MoneyInv, Holding
<1> QED
  BY <1>1, <1>2, <1>3, <1>4

LEMMA ServeStep ==
    ASSUME IInv, Serve
    PROVE  IInv'
<1> USE TraderAssumption, BalanceAssumption DEF IInv, Serve, world, dbVars,
        monVars, launchVars, requestVars, historyVars, TypeInv, Labels
<1>1. TypeInv'
  BY DEF Statuses
<1>2. PhaseInv'
  BY DEF PhaseInv
<1>3. PlaceInv'
  BY DEF PhaseInv, PlaceInv
<1>4. MoneyInv'
  BY DEF PhaseInv, PlaceInv, MoneyInv, Holding
<1> QED
  BY <1>1, <1>2, <1>3, <1>4

LEMMA SetStartingStep ==
    ASSUME IInv, NEW b \in Bots, SetStarting(b)
    PROVE  IInv'
<1> USE TraderAssumption, BalanceAssumption DEF IInv, SetStarting, world, dbVars,
        monVars, launchVars, requestVars, historyVars, TypeInv, Labels
<1>1. TypeInv'
  BY DEF Statuses
<1>2. PhaseInv'
  BY DEF PhaseInv
<1>3. PlaceInv'
  BY DEF PhaseInv, PlaceInv
<1>4. MoneyInv'
  BY DEF PhaseInv, PlaceInv, MoneyInv, Holding
<1> QED
  BY <1>1, <1>2, <1>3, <1>4

LEMMA ReduceStep ==
    ASSUME IInv, NEW b \in Bots, NEW n \in Balances, Reduce(b, n)
    PROVE  IInv'
<1> USE TraderAssumption, BalanceAssumption DEF IInv, Reduce, world, dbVars,
        monVars, launchVars, requestVars, historyVars, TypeInv, Labels
<1>1. TypeInv'
  BY DEF Statuses
<1>2. PhaseInv'
  BY DEF PhaseInv
<1>3. PlaceInv'
  BY DEF PhaseInv, PlaceInv
<1>4. MoneyInv'
  BY DEF PhaseInv, PlaceInv, MoneyInv, Holding
<1> QED
  BY <1>1, <1>2, <1>3, <1>4

LEMMA ReturnBalanceStep ==
    ASSUME IInv, NEW b \in Bots, ReturnBalance(b)
    PROVE  IInv'
<1> USE TraderAssumption, BalanceAssumption DEF IInv, ReturnBalance, world, dbVars,
        monVars, launchVars, requestVars, historyVars, TypeInv, Labels
<1>1. TypeInv'
  BY DEF Statuses
<1>2. PhaseInv'
  BY DEF PhaseInv
<1>3. PlaceInv'
  BY DEF PhaseInv, PlaceInv
<1>4. MoneyInv'
  BY DEF PhaseInv, PlaceInv, MoneyInv, Holding
<1> QED
  BY <1>1, <1>2, <1>3, <1>4

LEMMA StartFailsStep ==
    ASSUME IInv, NEW b \in Bots, StartFails(b)
    PROVE  IInv'
<1> USE TraderAssumption, BalanceAssumption DEF IInv, StartFails, world, dbVars,
        monVars, launchVars, requestVars, historyVars, TypeInv, Labels
<1>1. TypeInv'
  BY DEF Statuses
<1>2. PhaseInv'
  BY DEF PhaseInv
<1>3. PlaceInv'
  BY DEF PhaseInv, PlaceInv
<1>4. MoneyInv'
  BY DEF PhaseInv, PlaceInv, MoneyInv, Holding
<1> QED
  BY <1>1, <1>2, <1>3, <1>4

LEMMA JoinStep ==
    ASSUME IInv, NEW b \in Bots, Join(b)
    PROVE  IInv'
<1> USE TraderAssumption, BalanceAssumption DEF IInv, Join, world, dbVars,
        monVars, launchVars, requestVars, historyVars, TypeInv, Labels
<1> DEFINE t == TraderOf[b]
<1>5. b \in Bots /\ t \in Traders
  OBVIOUS
<1>1. TypeInv'
  <2>1. reg' \subseteq Traders
    BY <1>5
  <2>2. on' \in [Traders -> SUBSET Bots]
    BY <1>5
  <2>3. op' \in [Bots -> Labels]
    BY <1>5
  <2> QED
    BY <2>1, <2>2, <2>3 DEF Statuses
<1>2. PhaseInv'
  BY DEF PhaseInv
<1>3. PlaceInv'
  <2>1. phase = "up" /\ phase' = "up"
    BY DEF PhaseInv
  <2>2. op'[b] \in {"placed", "first"} /\ b \in on'[t] /\ b \notin missing
    BY <1>5, <2>1 DEF PlaceInv
  <2>3. \A c \in Bots \ {b} :
           op'[c] = op[c] /\ (c \in on'[TraderOf[c]] <=> c \in on[TraderOf[c]])
    BY <1>5
  <2>4. UNCHANGED <<status, missing, stuck>>
    OBVIOUS
  <2> QED
    BY ONLY <2>1, <2>2, <2>3, <2>4, PlaceInv DEF PlaceInv
<1>4. MoneyInv'
  BY DEF PhaseInv, PlaceInv, MoneyInv, Holding
<1> QED
  BY <1>1, <1>2, <1>3, <1>4

LEMMA PostBotLaunchStep ==
    ASSUME IInv, NEW b \in Bots, PostBotLaunch(b)
    PROVE  IInv'
<1> USE TraderAssumption, BalanceAssumption DEF IInv, PostBotLaunch, world, dbVars,
        monVars, launchVars, requestVars, historyVars, TypeInv, Labels
<1>1. TypeInv'
  BY DEF Statuses
<1>2. PhaseInv'
  BY DEF PhaseInv
<1>3. PlaceInv'
  BY DEF PhaseInv, PlaceInv
<1>4. MoneyInv'
  BY DEF PhaseInv, PlaceInv, MoneyInv, Holding
<1> QED
  BY <1>1, <1>2, <1>3, <1>4

LEMMA SetStoppingStep ==
    ASSUME IInv, NEW b \in Bots, SetStopping(b)
    PROVE  IInv'
<1> USE TraderAssumption, BalanceAssumption DEF IInv, SetStopping, world, dbVars,
        monVars, launchVars, requestVars, historyVars, TypeInv, Labels
<1>1. TypeInv'
  BY DEF Statuses
<1>2. PhaseInv'
  BY DEF PhaseInv
<1>3. PlaceInv'
  BY DEF PhaseInv, PlaceInv
<1>4. MoneyInv'
  <2>1. TraderOf[b] \in Traders /\ pending[TraderOf[b]] = {}
    BY DEF PhaseInv
  <2> QED
    BY <2>1 DEF PhaseInv, PlaceInv, MoneyInv, Holding
<1> QED
  BY <1>1, <1>2, <1>3, <1>4

LEMMA RemoveBotStep ==
    ASSUME IInv, NEW b \in Bots, RemoveBot(b)
    PROVE  IInv'
<1> USE TraderAssumption, BalanceAssumption DEF IInv, RemoveBot, world, dbVars,
        monVars, launchVars, requestVars, historyVars, TypeInv, Labels
<1>1. TypeInv'
  BY DEF Statuses
<1>2. PhaseInv'
  BY DEF PhaseInv
<1>3. PlaceInv'
  BY DEF PhaseInv, PlaceInv
<1>4. MoneyInv'
  BY DEF PhaseInv, PlaceInv, MoneyInv, Holding
<1> QED
  BY <1>1, <1>2, <1>3, <1>4

LEMMA SetInactiveStep ==
    ASSUME IInv, NEW b \in Bots, SetInactive(b)
    PROVE  IInv'
<1> USE TraderAssumption, BalanceAssumption DEF IInv, SetInactive, world, dbVars,
        monVars, launchVars, requestVars, historyVars, TypeInv, Labels
<1>1. TypeInv'
  BY DEF Statuses
<1>2. PhaseInv'
  BY DEF PhaseInv
<1>3. PlaceInv'
  BY DEF PhaseInv, PlaceInv
<1>4. MoneyInv'
  BY DEF PhaseInv, PlaceInv, MoneyInv, Holding
<1> QED
  BY <1>1, <1>2, <1>3, <1>4

LEMMA AddBackBalanceStep ==
    ASSUME IInv, NEW b \in Bots, AddBackBalance(b)
    PROVE  IInv'
<1> USE TraderAssumption, BalanceAssumption DEF IInv, AddBackBalance, world, dbVars,
        monVars, launchVars, requestVars, historyVars, TypeInv, Labels
<1>1. TypeInv'
  BY DEF Statuses
<1>2. PhaseInv'
  BY DEF PhaseInv
<1>3. PlaceInv'
  BY DEF PhaseInv, PlaceInv
<1>4. MoneyInv'
  BY DEF PhaseInv, PlaceInv, MoneyInv, Holding
<1> QED
  BY <1>1, <1>2, <1>3, <1>4

LEMMA EndMonitorStep ==
    ASSUME IInv, NEW b \in Bots, EndMonitor(b)
    PROVE  IInv'
<1> USE TraderAssumption, BalanceAssumption DEF IInv, EndMonitor, world, dbVars,
        monVars, launchVars, requestVars, historyVars, TypeInv, Labels
<1>1. TypeInv'
  BY DEF Statuses
<1>2. PhaseInv'
  BY DEF PhaseInv
<1>3. PlaceInv'
  <2>1. phase = "up" /\ phase' = "up" /\ TraderOf[b] \in Traders
    BY DEF PhaseInv
  <2>2. on' = [on EXCEPT ![TraderOf[b]] = {}] /\ missing' = missing \cup on[TraderOf[b]]
    OBVIOUS
  <2> QED
    BY <2>1, <2>2 DEF PhaseInv, PlaceInv
<1>4. MoneyInv'
  BY DEF PhaseInv, PlaceInv, MoneyInv, Holding
<1> QED
  BY <1>1, <1>2, <1>3, <1>4

LEMMA RecoverClientsStep ==
    ASSUME IInv, NEW b \in Bots, RecoverClients(b)
    PROVE  IInv'
<1>1. phase # "down"
  BY TraderAssumption DEF IInv, PhaseInv, RecoverClients
<1>2. CASE own[TraderOf[b]] + extra[TraderOf[b]] < ProxPerCopy - ProxPerSign
  BY <1>1, <1>2, DieStep DEF RecoverClients
<1>3. CASE ~(own[TraderOf[b]] + extra[TraderOf[b]] < ProxPerCopy - ProxPerSign)
  <2> USE TraderAssumption, BalanceAssumption DEF IInv, RecoverClients, world, dbVars,
        monVars, launchVars, requestVars, historyVars, TypeInv, Labels
  <2>1. TypeInv'
    BY <1>3 DEF Statuses
  <2>2. PhaseInv'
    BY <1>3 DEF PhaseInv
  <2>3. PlaceInv'
    BY <1>3 DEF PhaseInv, PlaceInv
  <2>4. MoneyInv'
    BY <1>3 DEF PhaseInv, PlaceInv, MoneyInv, Holding
  <2> QED
    BY <2>1, <2>2, <2>3, <2>4
<1> QED
  BY <1>2, <1>3

-----------------------------------------------------------------------------
LEMMA StepIInv == IInv /\ [Next]_vars => IInv'
<1> SUFFICES ASSUME IInv, [Next]_vars PROVE IInv'
  OBVIOUS
<1>1. CASE Crash
  BY <1>1, DieStep DEF Crash
<1>2. CASE Boot
  BY <1>2, BootStep
<1>3. CASE Launching
  BY <1>3, TakeProxiesStep, CreateMonitorStep, MakeBotStep, CollectStep DEF Launching
<1>4. CASE Serve
  BY <1>4, ServeStep
<1>5. ASSUME NEW b \in Bots, Request(b) PROVE IInv'
  BY <1>5, SetStartingStep, ReduceStep, ReturnBalanceStep, StartFailsStep, JoinStep,
     PostBotLaunchStep, SetStoppingStep, RemoveBotStep, SetInactiveStep,
     AddBackBalanceStep, EndMonitorStep, RecoverClientsStep DEF Request
<1>6. CASE UNCHANGED vars
  BY <1>6 DEF vars, world, dbVars, monVars, launchVars, requestVars, historyVars,
              IInv, TypeInv, PhaseInv, PlaceInv, MoneyInv
<1> QED
  BY <1>1, <1>2, <1>3, <1>4, <1>5, <1>6 DEF Next

LEMMA Inductive == Spec => []IInv
  BY InitIInv, StepIInv, PTL DEF Spec

-----------------------------------------------------------------------------
(* What a stop gives back is what was taken for the bot, after any number  *)
(* of restarts (launch.go:353), with the exceptions the property names.    *)
THEOREM BalanceIsTracked == Spec => []BalanceTracked
<1>1. IInv => BalanceTracked
  <2> SUFFICES ASSUME IInv, phase = "up", NEW b \in Bots \ (stuck \cup revalued), op[b] = "none"
               PROVE  /\ status[b] = "active" => bal[b] = taken[b]
                      /\ status[b] = "inactive" => taken[b] = 0
    BY DEF BalanceTracked
  <2>1. pending[TraderOf[b]] = {}
    BY TraderAssumption DEF IInv, PhaseInv
  <2> QED
    BY <2>1 DEF IInv, MoneyInv
<1> QED
  BY <1>1, Inductive, PTL

(* The settled bots on registered monitors are the active ones, after any  *)
(* number of restarts, starts and stops.                                   *)
THEOREM ActiveOnesRun == Spec => []ActiveRuns
<1>1. IInv => ActiveRuns
  <2> SUFFICES ASSUME IInv, phase = "up", NEW b \in Bots \ missing, op[b] = "none"
               PROVE  status[b] = "active" <=> TraderOf[b] \in reg /\ b \in on[TraderOf[b]]
    BY DEF ActiveRuns
  <2>1. on[TraderOf[b]] # {} => TraderOf[b] \in reg
    BY TraderAssumption DEF IInv, PhaseInv
  <2> QED
    BY <2>1 DEF IInv, PlaceInv
<1> QED
  BY <1>1, Inductive, PTL

-----------------------------------------------------------------------------
(* What the invariant above leaves out of TypeOK.                          *)
RestInv ==
    /\ signals \in SignalTables /\ numProxies \in PoolSizes
    /\ remaining \in Int
    /\ hooks \in [Traders -> SUBSET UNION {signals[t] : t \in Traders}]
    /\ \A t \in Traders : hooks[t] \subseteq signals[t]
    /\ bal \in [Bots -> Balances \cup {0}]
    /\ last \subseteq Bots /\ revalued \subseteq Bots
    /\ requests \in Nat /\ crashes \in Nat
    /\ ended \in BOOLEAN /\ short \in BOOLEAN

(* The proxies of each monitor: a launch gives it some, then more; it has  *)
(* none while it is not registered, and fewer than its own only when it    *)
(* has webhooks. With the pool's they are all there are.                   *)
ProxyInv ==
    /\ avail \in Nat /\ own \in [Traders -> Nat] /\ extra \in [Traders -> Int]
    /\ \A t \in Traders :
          /\ own[t] + extra[t] \in Nat
          /\ hooks[t] = {} => extra[t] >= 0
          /\ \/ launch[t] = "none" /\ t \notin reg
             \/ launch[t] = "proxies"
             => own[t] = 0 /\ extra[t] = 0
          /\ launch[t] \in {"create", "bots"} => own[t] = ProxPerSign /\ extra[t] = 0
    /\ phase = "down" => avail = numProxies /\ reg = {}
    /\ phase # "up" => ~ended
    /\ avail + InUse <= numProxies
    /\ ~ended => avail + InUse = numProxies

(* What a trader's monitor is to get in a launch.                          *)
Share == [t \in Traders |-> IF t \in Copied THEN ProxPerCopy
                            ELSE IF t \in Signed THEN ProxPerSign ELSE 0]

(* No monitor gets more than its share, and every goroutine that is at     *)
(* work has a share to get. A launch that ran out had too few for all.     *)
ShareInv ==
    /\ phase = "launching" =>
          \A t \in Traders :
             /\ own[t] + extra[t] <= Share[t]
             /\ launch[t] # "none" => t \in Copied \cup Signed
    /\ short => phase = "down" /\ numProxies < Total(Share, Traders)

PInv == IInv /\ RestInv /\ ProxyInv /\ ShareInv

-----------------------------------------------------------------------------
(* A step that changes the clients of one monitor.                         *)
LEMMA InUseChange ==
    ASSUME ProxyInv, NEW t \in Traders,
           own' \in [Traders -> Nat], extra' \in [Traders -> Int],
           own'[t] + extra'[t] \in Nat,
           \A u \in Traders \ {t} : own'[u] = own[u] /\ extra'[u] = extra[u]
    PROVE  /\ InUse \in Nat /\ InUse' \in Nat
           /\ InUse' = InUse - (own[t] + extra[t]) + (own'[t] + extra'[t])
<1> DEFINE f == [u \in Traders |-> own[u] + extra[u]]
           g == [u \in Traders |-> own'[u] + extra'[u]]
<1>1. /\ \A u \in Traders : f[u] \in Nat /\ g[u] \in Nat
      /\ \A u \in Traders \ {t} : g[u] = f[u]
  BY DEF ProxyInv
<1>2. f[t] = own[t] + extra[t] /\ g[t] = own'[t] + extra'[t]
  OBVIOUS
<1>3. InUse = Total(f, Traders) /\ InUse' = Total(g, Traders)
  BY DEF InUse
<1> HIDE DEF f, g
<1>4. /\ Total(g, Traders) = Total(f, Traders) - f[t] + g[t]
      /\ Total(f, Traders) \in Nat /\ Total(g, Traders) \in Nat
  BY <1>1, FiniteAssumption, TotalChange, TotalType
<1> QED
  BY <1>2, <1>3, <1>4

LEMMA InUseSame ==
    ASSUME UNCHANGED <<own, extra>>
    PROVE  InUse' = InUse
BY DEF InUse

LEMMA InUseType ==
    ASSUME ProxyInv
    PROVE  InUse \in Nat
<1>1. \A t \in Traders : [u \in Traders |-> own[u] + extra[u]][t] \in Nat
  BY DEF ProxyInv
<1> QED
  BY <1>1, FiniteAssumption, TotalType DEF InUse

LEMMA InUseZero ==
    ASSUME \A t \in Traders : own[t] = 0 /\ extra[t] = 0
    PROVE  InUse = 0
<1>1. \A t \in Traders : [u \in Traders |-> own[u] + extra[u]][t] = 0
  OBVIOUS
<1> QED
  BY <1>1, FiniteAssumption, TotalZero DEF InUse

(* Shares depend on statuses and signals only, and add up.                 *)
LEMMA ShareSame ==
    ASSUME UNCHANGED <<status, signals>>
    PROVE  Copied' = Copied /\ Signed' = Signed /\ Share' = Share
BY DEF Copied, Signed, Share

LEMMA ShareSum == Total(Share, Traders) = ProxPerCopy * Cardinality(Copied)
                                          + ProxPerSign * Cardinality(Signed)
<1>1. /\ Copied \subseteq Traders /\ Signed \subseteq Traders
      /\ Copied \cap Signed = {}
  BY TraderAssumption DEF Copied, Signed
<1>2. /\ \A t \in Copied : Share[t] = ProxPerCopy
      /\ \A t \in Signed : Share[t] = ProxPerSign
      /\ \A t \in Traders \ (Copied \cup Signed) : Share[t] = 0
      /\ \A t \in Traders : Share[t] \in Nat
  BY <1>1, ProxyAssumption DEF Share
<1>3. /\ IsFiniteSet(Copied) /\ IsFiniteSet(Signed) /\ IsFiniteSet(Copied \cup Signed)
      /\ IsFiniteSet(Traders \ (Copied \cup Signed))
  BY <1>1, FiniteAssumption, FS_Subset
<1>4. /\ Total(Share, Copied) = ProxPerCopy * Cardinality(Copied)
      /\ Total(Share, Signed) = ProxPerSign * Cardinality(Signed)
  BY <1>2, <1>3, ProxyAssumption, TotalConstant
<1>5. Total(Share, Traders \ (Copied \cup Signed)) = 0
  BY <1>2, <1>3, TotalZero
<1>6. Total(Share, Copied \cup Signed) = Total(Share, Copied) + Total(Share, Signed)
  BY <1>1, <1>2, <1>3, TotalUnion
<1>7. Traders = (Copied \cup Signed) \cup (Traders \ (Copied \cup Signed))
  BY <1>1
<1>8. Total(Share, (Copied \cup Signed) \cup (Traders \ (Copied \cup Signed)))
      = Total(Share, Copied \cup Signed) + Total(Share, Traders \ (Copied \cup Signed))
  BY <1>1, <1>2, <1>3, TotalUnion
<1>9. Total(Share, Traders) = Total(Share, Copied \cup Signed) + 0
  BY <1>5, <1>7, <1>8, Zenon
<1>10. Total(Share, Copied) \in Nat /\ Total(Share, Signed) \in Nat
  BY <1>1, <1>2, <1>3, TotalType
<1> QED
  BY <1>4, <1>6, <1>9, <1>10

-----------------------------------------------------------------------------
LEMMA InitPInv == Init => PInv
<1> SUFFICES ASSUME Init PROVE PInv
  OBVIOUS
<1>1. remaining \in Int
  <2>1. PICK active \in SUBSET Bots, b0 \in Balances :
           remaining = MaxCTBalance - b0 * Cardinality(active)
    BY DEF Init
  <2>2. Cardinality(active) \in Nat
    BY FiniteAssumption, FS_Subset, FS_CardinalityType
  <2>3. b0 \in Nat /\ b0 * Cardinality(active) \in Nat
    BY <2>2, BalanceAssumption
  <2> QED
    BY <2>1, <2>3, BalanceAssumption
<1>2. RestInv
  BY <1>1 DEF Init, RestInv
<1>3. InUse = 0
  BY InUseZero DEF Init
<1>4. ProxyInv
  BY <1>3, ProxyAssumption DEF Init, ProxyInv
<1>5. ShareInv
  BY DEF Init, ShareInv
<1> QED
  BY <1>2, <1>4, <1>5, InitIInv DEF PInv

(* The steps that leave the proxies alone.                                 *)
LEMMA Untouched ==
    ASSUME PInv,
           UNCHANGED <<world, phase, avail, reg, hooks, own, extra, launch, ended, short>>,
           phase # "up" => UNCHANGED status
    PROVE  ProxyInv' /\ ShareInv'
<1>1. ProxyInv'
  BY InUseSame DEF PInv, ProxyInv, world
<1>2. ShareInv'
  BY ShareSame DEF PInv, ProxyInv, ShareInv, world
<1> QED
  BY <1>1, <1>2

(* A crash returns all proxies.                                            *)
LEMMA DieProxies ==
    ASSUME PInv, Die, short' \in BOOLEAN, short' => numProxies < Total(Share, Traders)
    PROVE  RestInv' /\ ProxyInv' /\ ShareInv'
<1> USE DEF PInv, Die, world, dbVars
<1>1. RestInv'
  <2>1. /\ hooks' \in [Traders -> SUBSET UNION {signals'[t] : t \in Traders}]
        /\ \A t \in Traders : hooks'[t] \subseteq signals'[t]
    OBVIOUS
  <2>2. bal' \in [Bots -> Balances \cup {0}]
    OBVIOUS
  <2>3. /\ crashes' \in Nat /\ requests' \in Nat
        /\ last' = {} /\ revalued' = revalued /\ ended' = FALSE
        /\ signals' = signals /\ numProxies' = numProxies /\ remaining' = remaining
    BY DEF RestInv
  <2> QED
    BY <2>1, <2>2, <2>3 DEF RestInv
<1>2. InUse' = 0
  <2>1. \A t \in Traders : own'[t] = 0 /\ extra'[t] = 0
    OBVIOUS
  <2>2. [t \in Traders |-> own'[t] + extra'[t]] = [t \in Traders |-> 0]
    BY <2>1
  <2>3. \A t \in Traders : [u \in Traders |-> 0][t] = 0
    OBVIOUS
  <2>4. Total([t \in Traders |-> 0], Traders) = 0
    BY <2>3, FiniteAssumption, TotalZero
  <2> QED
    BY <2>2, <2>4 DEF InUse
<1>3. numProxies \in Nat
  BY ProxyAssumption DEF RestInv
<1>4. ProxyInv'
  BY <1>2, <1>3 DEF ProxyInv
<1>5. ShareInv'
  BY ShareSame DEF ShareInv
<1> QED
  BY <1>1, <1>4, <1>5

LEMMA BootProxies ==
    ASSUME PInv, Boot
    PROVE  RestInv' /\ ProxyInv' /\ ShareInv'
<1> USE DEF PInv, Boot, world, monVars, requestVars
<1>1. RestInv'
  BY DEF RestInv
<1>2. phase = "down" /\ \A t \in Traders : own[t] = 0 /\ extra[t] = 0
  BY DEF IInv, PhaseInv, ProxyInv
<1>3. ProxyInv'
  BY <1>2, InUseSame DEF ProxyInv
<1>4. \A t \in Traders : launch'[t] # "none" => t \in Copied' \cup Signed'
  <2> TAKE t \in Traders
  <2> HAVE launch'[t] # "none"
  <2>1. signals[t] # {} \/ \E b \in Bots : status[b] = "active" /\ TraderOf[b] = t
    OBVIOUS
  <2>2. \A b \in Bots : status[b] = "active" => status'[b] = "active"
    OBVIOUS
  <2> QED
    BY <2>1, <2>2 DEF Copied, Signed
<1>5. \A t \in Traders : Share'[t] \in Nat
  BY ProxyAssumption DEF Share
<1>6. ShareInv'
  BY <1>2, <1>4, <1>5 DEF ShareInv
<1> QED
  BY <1>1, <1>3, <1>6

LEMMA TakeProxiesProxies ==
    ASSUME PInv, NEW t \in Traders, TakeProxies(t)
    PROVE  RestInv' /\ ProxyInv' /\ ShareInv'
<1>1. /\ launch[t] = "proxies" /\ phase = "launching" /\ own[t] = 0 /\ extra[t] = 0
      /\ ~ended
  BY DEF PInv, IInv, TypeInv, PhaseInv, ProxyInv, TakeProxies
<1>2. \A u \in Traders : Share[u] \in Nat
  BY ProxyAssumption DEF Share
<1>3. CASE avail < ProxPerSign
  <2> DEFINE f == [u \in Traders |-> own[u] + extra[u]]
             h == [u \in Traders |-> IF u = t THEN 0 ELSE Share[u]]
  <2>1. \A u \in Traders : f[u] \in Nat /\ h[u] \in Nat /\ f[u] <= h[u]
    BY <1>1, <1>2 DEF PInv, ProxyInv, ShareInv
  <2>2. h[t] = 0 /\ \A u \in Traders \ {t} : Share[u] = h[u]
    OBVIOUS
  <2>3. Share[t] >= ProxPerSign
    BY <1>1, ProxyAssumption DEF PInv, ShareInv, Share
  <2>4. InUse = Total(f, Traders)
    BY DEF InUse
  <2> HIDE DEF f, h
  <2>5. Total(f, Traders) <= Total(h, Traders)
    BY <2>1, FiniteAssumption, TotalMonotone
  <2>6. /\ Total(Share, Traders) = Total(h, Traders) - h[t] + Share[t]
        /\ Total(h, Traders) \in Nat /\ Total(f, Traders) \in Nat
    BY <1>2, <2>1, <2>2, FiniteAssumption, TotalChange, TotalType
  <2>7. numProxies = avail + Total(f, Traders) /\ avail \in Nat
    BY <1>1, <2>4 DEF PInv, ProxyInv
  <2>8. numProxies < Total(Share, Traders)
    BY <1>2, <1>3, <2>2, <2>3, <2>5, <2>6, <2>7, ProxyAssumption
  <2> QED
    BY <1>3, <2>8, DieProxies DEF TakeProxies
<1>4. CASE ~(avail < ProxPerSign)
  <2> USE <1>4 DEF TakeProxies, world, dbVars, requestVars, historyVars
  <2>1. RestInv'
    BY DEF PInv, RestInv
  <2>2. /\ own' \in [Traders -> Nat] /\ own'[t] = ProxPerSign
        /\ extra' = extra
        /\ \A u \in Traders \ {t} : own'[u] = own[u] /\ launch'[u] = launch[u]
        /\ launch'[t] = "create" /\ reg' = reg /\ hooks' = hooks /\ phase' = phase
        /\ ended' = ended /\ short' = short /\ numProxies' = numProxies
        /\ avail' = avail - ProxPerSign
    BY ProxyAssumption DEF PInv, IInv, TypeInv, ProxyInv
  <2>0. avail' \in Nat
    BY <2>2, ProxyAssumption DEF PInv, ProxyInv
  <2>3. /\ InUse \in Nat /\ InUse' \in Nat
        /\ InUse' = InUse - (own[t] + extra[t]) + (own'[t] + extra'[t])
    BY <1>1, <2>2, InUseChange, ProxyAssumption DEF PInv, ProxyInv
  <2>4. avail' + InUse' = numProxies'
    BY <1>1, <2>2, <2>3, ProxyAssumption DEF PInv, ProxyInv
  <2>5. numProxies \in Nat
    BY ProxyAssumption DEF PInv, RestInv
  <2>6. ProxyInv'
    BY <1>1, <2>0, <2>2, <2>4, <2>5, ProxyAssumption DEF PInv, ProxyInv
  <2>7. Share' = Share /\ Copied' = Copied /\ Signed' = Signed
    BY ShareSame
  <2>8. Share[t] >= ProxPerSign
    BY <1>1, ProxyAssumption DEF PInv, ShareInv, Share
  <2>9. ShareInv'
    BY <1>1, <2>2, <2>7, <2>8, ProxyAssumption DEF PInv, ShareInv
  <2> QED
    BY <2>1, <2>6, <2>9
<1> QED
  BY <1>3, <1>4

LEMMA CreateMonitorProxies ==
    ASSUME PInv, NEW t \in Traders, CreateMonitor(t)
    PROVE  RestInv' /\ ProxyInv' /\ ShareInv'
<1> USE DEF PInv, CreateMonitor, world, dbVars, requestVars, historyVars
<1>1. /\ launch[t] = "create" /\ phase = "launching" /\ extra[t] = 0
      /\ launch' = [launch EXCEPT ![t] = "bots"]
  BY DEF IInv, TypeInv, PhaseInv, ProxyInv
<1>2. PICK h \in SUBSET signals[t] : hooks' = [hooks EXCEPT ![t] = h]
  OBVIOUS
<1>3. RestInv'
  BY <1>2 DEF RestInv
<1>4. /\ hooks'[t] = h /\ launch'[t] = "bots"
      /\ \A u \in Traders \ {t} : hooks'[u] = hooks[u] /\ launch'[u] = launch[u]
  BY <1>1, <1>2 DEF RestInv, IInv, TypeInv
<1>5. ProxyInv'
  BY <1>1, <1>4, InUseSame DEF ProxyInv
<1>6. ShareInv'
  BY <1>1, <1>4, ShareSame DEF ShareInv
<1> QED
  BY <1>3, <1>5, <1>6

LEMMA CollectProxies ==
    ASSUME PInv, NEW t \in Traders, Collect(t)
    PROVE  RestInv' /\ ProxyInv' /\ ShareInv'
<1> DEFINE more == IF on[t] # {} /\ avail >= ProxPerCopy - ProxPerSign
                   THEN ProxPerCopy - ProxPerSign ELSE 0
           serves == on[t] # {} \/ hooks[t] # {}
<1>1. RestInv'
  BY DEF PInv, RestInv, Collect, world, dbVars, requestVars, historyVars
<1>2. /\ launch[t] = "bots" /\ phase = "launching" /\ own[t] = ProxPerSign /\ extra[t] = 0
      /\ ~ended
  BY DEF PInv, IInv, TypeInv, PhaseInv, ProxyInv, Collect
<1>3. /\ more \in Nat /\ more <= avail
      /\ on[t] = {} => more = 0
      /\ more <= ProxPerCopy - ProxPerSign
  BY ProxyAssumption DEF PInv, ProxyInv
<1>4. /\ launch' = [launch EXCEPT ![t] = "none"]
      /\ extra' = [extra EXCEPT ![t] = more]
      /\ IF serves
         THEN reg' = reg \cup {t} /\ avail' = avail - more /\ UNCHANGED own
         ELSE avail' = avail + own[t] /\ own' = [own EXCEPT ![t] = 0] /\ UNCHANGED reg
      /\ UNCHANGED <<signals, numProxies, phase, status, hooks, ended, short>>
  BY DEF Collect, world, dbVars, historyVars
<1>5. /\ own' \in [Traders -> Nat] /\ extra' \in [Traders -> Int]
      /\ extra'[t] = more /\ launch'[t] = "none"
      /\ own'[t] = IF serves THEN ProxPerSign ELSE 0
      /\ \A u \in Traders \ {t} : own'[u] = own[u] /\ extra'[u] = extra[u] /\ launch'[u] = launch[u]
  BY <1>2, <1>3, <1>4, ProxyAssumption DEF PInv, IInv, TypeInv, ProxyInv
<1> HIDE DEF more
<1>6. ~serves => more = 0
  BY <1>3
<1>7. /\ InUse \in Nat /\ InUse' \in Nat
      /\ InUse' = InUse - (own[t] + extra[t]) + (own'[t] + extra'[t])
  BY <1>3, <1>5, InUseChange, ProxyAssumption DEF PInv
<1>8. avail' + InUse' = numProxies /\ avail' \in Nat
  BY <1>2, <1>3, <1>4, <1>5, <1>6, <1>7, ProxyAssumption DEF PInv, ProxyInv
<1>9. numProxies \in Nat
  BY ProxyAssumption DEF PInv, RestInv
<1>10. ProxyInv'
  BY <1>2, <1>3, <1>4, <1>5, <1>6, <1>8, <1>9, ProxyAssumption DEF PInv, ProxyInv
<1>11. own'[t] + extra'[t] <= Share[t]
  <2>1. on[t] # {} => t \in Copied
    BY TraderAssumption, <1>2 DEF PInv, IInv, TypeInv, PhaseInv, PlaceInv, Copied
  <2>2. Share[t] \in Nat /\ Share[t] >= ProxPerSign /\ (t \in Copied => Share[t] = ProxPerCopy)
    BY <1>2, ProxyAssumption DEF PInv, ShareInv, Share
  <2> QED
    BY <1>3, <1>5, <2>1, <2>2, ProxyAssumption
<1>12. ShareInv'
  BY <1>2, <1>4, <1>5, <1>11, ShareSame DEF PInv, ShareInv
<1> QED
  BY <1>1, <1>10, <1>12

LEMMA ServeProxies ==
    ASSUME PInv, Serve
    PROVE  RestInv' /\ ProxyInv' /\ ShareInv'
<1> USE DEF PInv, Serve, world, dbVars, monVars, launchVars, requestVars, historyVars
<1>1. RestInv'
  BY DEF RestInv
<1>2. ProxyInv'
  BY InUseSame DEF ProxyInv
<1>3. ShareInv'
  BY DEF ShareInv
<1> QED
  BY <1>1, <1>2, <1>3

LEMMA JoinProxies ==
    ASSUME PInv, NEW b \in Bots, Join(b)
    PROVE  RestInv' /\ ProxyInv' /\ ShareInv'
<1> DEFINE t == TraderOf[b]
<1>1. t \in Traders /\ phase = "up" /\ \A u \in Traders : launch[u] = "none"
  BY TraderAssumption DEF PInv, IInv, PhaseInv, Join
<1>2. RestInv'
  BY DEF PInv, RestInv, Join, world, dbVars, historyVars
<1>3. CASE t \in reg
  <2>1. UNCHANGED <<world, phase, avail, reg, hooks, own, extra, launch, ended, short>>
    BY <1>3 DEF Join, launchVars, historyVars
  <2> QED
    BY <1>1, <1>2, <2>1, Untouched
<1>4. CASE t \notin reg
  <2>1. /\ avail >= ProxPerCopy /\ avail' = avail - ProxPerCopy
        /\ own' = [own EXCEPT ![t] = ProxPerCopy] /\ reg' = reg \cup {t}
        /\ UNCHANGED <<signals, numProxies, phase, hooks, extra, launch, ended, short>>
    BY <1>4 DEF Join, world, launchVars, historyVars
  <2>2. own[t] = 0 /\ extra[t] = 0
    BY <1>1, <1>4 DEF PInv, ProxyInv
  <2>3. /\ own' \in [Traders -> Nat] /\ own'[t] = ProxPerCopy
        /\ \A u \in Traders \ {t} : own'[u] = own[u]
        /\ avail' \in Nat
    BY <1>1, <2>1, ProxyAssumption DEF PInv, ProxyInv
  <2> HIDE DEF t
  <2>4. /\ InUse \in Nat /\ InUse' \in Nat
        /\ InUse' = InUse - (own[t] + extra[t]) + (own'[t] + extra'[t])
    BY <1>1, <2>1, <2>2, <2>3, InUseChange, ProxyAssumption DEF PInv, ProxyInv
  <2>5. avail' + InUse' = avail + InUse
    BY <2>1, <2>2, <2>3, <2>4, ProxyAssumption DEF PInv, ProxyInv
  <2>6. ProxyInv'
    BY <1>1, <2>1, <2>2, <2>3, <2>5, ProxyAssumption DEF PInv, ProxyInv
  <2>7. ShareInv'
    BY <1>1, <2>1 DEF PInv, ShareInv
  <2> QED
    BY <1>2, <2>6, <2>7
<1> QED
  BY <1>3, <1>4

LEMMA PostBotLaunchProxies ==
    ASSUME PInv, NEW b \in Bots, PostBotLaunch(b)
    PROVE  RestInv' /\ ProxyInv' /\ ShareInv'
<1> DEFINE t == TraderOf[b]
           more == IF op[b] = "first" /\ t \in reg /\ avail >= ProxPerCopy - ProxPerSign
                   THEN ProxPerCopy - ProxPerSign ELSE 0
<1>1. t \in Traders /\ phase = "up" /\ \A u \in Traders : launch[u] = "none"
  BY TraderAssumption DEF PInv, IInv, PhaseInv, PostBotLaunch
<1>2. RestInv'
  BY DEF PInv, RestInv, PostBotLaunch, world, historyVars
<1>3. more \in Nat /\ more <= avail /\ (t \notin reg => more = 0)
  BY ProxyAssumption DEF PInv, ProxyInv
<1>4. /\ avail' = avail - more
      /\ extra' = [extra EXCEPT ![t] = @ + more]
      /\ UNCHANGED <<signals, numProxies, phase, reg, hooks, own, launch, ended, short>>
  BY DEF PostBotLaunch, world, launchVars, historyVars
<1> HIDE DEF t, more
<1>5. /\ own \in [Traders -> Nat] /\ extra \in [Traders -> Int] /\ avail \in Nat
      /\ own[t] + extra[t] \in Nat /\ own[t] \in Nat /\ extra[t] \in Int
  BY <1>1 DEF PInv, ProxyInv
<1>6. /\ extra' \in [Traders -> Int] /\ extra'[t] = extra[t] + more
      /\ \A u \in Traders \ {t} : extra'[u] = extra[u]
      /\ avail' \in Nat /\ own'[t] + extra'[t] \in Nat
  BY <1>1, <1>3, <1>4, <1>5
<1>7. /\ InUse \in Nat /\ InUse' \in Nat
      /\ InUse' = InUse - (own[t] + extra[t]) + (own'[t] + extra'[t])
  BY <1>1, <1>4, <1>5, <1>6, InUseChange DEF PInv
<1>8. avail' + InUse' = avail + InUse
  BY <1>3, <1>4, <1>5, <1>6, <1>7
<1>9. /\ hooks'[t] = {} => extra'[t] >= 0
      /\ t \notin reg' => own'[t] = 0 /\ extra'[t] = 0
  BY <1>1, <1>3, <1>4, <1>5, <1>6 DEF PInv, ProxyInv
<1>10. ProxyInv'
  BY <1>1, <1>4, <1>5, <1>6, <1>8, <1>9 DEF PInv, ProxyInv
<1>11. ShareInv'
  BY <1>1, <1>4 DEF PInv, ShareInv
<1> QED
  BY <1>2, <1>10, <1>11

LEMMA EndMonitorProxies ==
    ASSUME PInv, NEW b \in Bots, EndMonitor(b)
    PROVE  RestInv' /\ ProxyInv' /\ ShareInv'
<1> DEFINE t == TraderOf[b]
<1>1. t \in Traders /\ phase = "up" /\ \A u \in Traders : launch[u] = "none"
  BY TraderAssumption DEF PInv, IInv, PhaseInv, EndMonitor
<1>2. RestInv'
  BY DEF PInv, RestInv, EndMonitor, world, dbVars
<1>3. /\ hooks[t] = {} /\ reg' = reg \ {t} /\ avail' = avail + own[t]
      /\ own' = [own EXCEPT ![t] = 0] /\ extra' = [extra EXCEPT ![t] = 0]
      /\ ended' = (ended \/ extra[t] > 0)
      /\ UNCHANGED <<signals, numProxies, phase, hooks, launch, short>>
  BY DEF EndMonitor, world, launchVars
<1> HIDE DEF t
<1>4. /\ own \in [Traders -> Nat] /\ extra \in [Traders -> Int] /\ avail \in Nat
      /\ own[t] \in Nat /\ extra[t] \in Nat
  BY <1>1, <1>3 DEF PInv, ProxyInv
<1>5. /\ own' \in [Traders -> Nat] /\ extra' \in [Traders -> Int]
      /\ own'[t] = 0 /\ extra'[t] = 0 /\ avail' \in Nat
      /\ \A u \in Traders \ {t} : own'[u] = own[u] /\ extra'[u] = extra[u]
  BY <1>1, <1>3, <1>4
<1>6. /\ InUse \in Nat /\ InUse' \in Nat
      /\ InUse' = InUse - (own[t] + extra[t]) + (own'[t] + extra'[t])
  BY <1>1, <1>5, InUseChange DEF PInv
<1>7. /\ avail' + InUse' = avail + InUse - extra[t]
      /\ avail' + InUse' <= avail + InUse
  BY <1>3, <1>4, <1>5, <1>6
<1>8. numProxies \in Nat
  BY ProxyAssumption DEF PInv, RestInv
<1>9. avail + InUse <= numProxies /\ (~ended => avail + InUse = numProxies)
  BY DEF PInv, ProxyInv
<1>10. ~ended' => ~ended /\ extra[t] = 0
  <2>1. ~ended' => ~ended /\ ~(extra[t] > 0)
    BY <1>3, Zenon
  <2>2. ~(extra[t] > 0) => extra[t] = 0
    BY <1>4
  <2> QED
    BY <2>1, <2>2
<1>11. /\ avail' + InUse' <= numProxies'
       /\ ~ended' => avail' + InUse' = numProxies'
  BY <1>3, <1>4, <1>5, <1>6, <1>7, <1>8, <1>9, <1>10
<1>12. \A u \in Traders :
          /\ own'[u] + extra'[u] \in Nat
          /\ hooks'[u] = {} => extra'[u] >= 0
          /\ u \notin reg' => own'[u] = 0 /\ extra'[u] = 0
          /\ launch'[u] = "none"
  <2> TAKE u \in Traders
  <2>1. CASE u = t
    BY <1>1, <1>3, <1>5, <2>1
  <2>2. CASE u # t
    BY <1>1, <1>3, <1>5, <2>2 DEF PInv, ProxyInv
  <2> QED
    BY <2>1, <2>2
<1>13. phase' = "up"
  BY <1>1, <1>3
<1>14. ProxyInv'
  BY <1>5, <1>11, <1>12, <1>13 DEF ProxyInv
<1>15. ShareInv'
  BY <1>1, <1>3 DEF PInv, ShareInv
<1> QED
  BY <1>2, <1>14, <1>15

LEMMA RecoverClientsProxies ==
    ASSUME PInv, NEW b \in Bots, RecoverClients(b)
    PROVE  RestInv' /\ ProxyInv' /\ ShareInv'
<1> DEFINE t == TraderOf[b]
           more == ProxPerCopy - ProxPerSign
<1>1. t \in Traders /\ phase = "up" /\ \A u \in Traders : launch[u] = "none"
  BY TraderAssumption DEF PInv, IInv, PhaseInv, RecoverClients
<1>2. CASE own[t] + extra[t] < more
  <2>1. Die /\ UNCHANGED short
    BY <1>2 DEF RecoverClients
  <2> QED
    BY <1>1, <2>1, DieProxies DEF PInv, ShareInv, RestInv
<1>3. CASE ~(own[t] + extra[t] < more)
  <2>1. RestInv'
    BY <1>3 DEF PInv, RestInv, RecoverClients, world, dbVars, historyVars
  <2>2. /\ hooks[t] # {} /\ avail' = avail + more
        /\ extra' = [extra EXCEPT ![t] = @ - more]
        /\ UNCHANGED <<signals, numProxies, phase, reg, hooks, own, launch, ended, short>>
    BY <1>3 DEF RecoverClients, world, launchVars, historyVars
  <2>3. more \in Nat /\ more > 0
    BY ProxyAssumption
  <2> HIDE DEF t, more
  <2>4. /\ own \in [Traders -> Nat] /\ extra \in [Traders -> Int] /\ avail \in Nat
        /\ own[t] \in Nat /\ extra[t] \in Int
    BY <1>1 DEF PInv, ProxyInv
  <2>5. /\ extra' \in [Traders -> Int] /\ extra'[t] = extra[t] - more
        /\ \A u \in Traders \ {t} : extra'[u] = extra[u]
        /\ avail' \in Nat /\ own'[t] + extra'[t] \in Nat
    BY <1>1, <1>3, <2>2, <2>3, <2>4
  <2>6. /\ InUse \in Nat /\ InUse' \in Nat
        /\ InUse' = InUse - (own[t] + extra[t]) + (own'[t] + extra'[t])
    BY <1>1, <2>2, <2>4, <2>5, InUseChange DEF PInv
  <2>7. avail' + InUse' = avail + InUse
    BY <2>2, <2>3, <2>4, <2>5, <2>6
  <2>8. t \in reg
    BY <1>1, <1>3, <2>3, <2>4 DEF PInv, ProxyInv
  <2>9. ProxyInv'
    BY <1>1, <2>2, <2>3, <2>4, <2>5, <2>7, <2>8 DEF PInv, ProxyInv
  <2>10. ShareInv'
    BY <1>1, <2>2 DEF PInv, ShareInv
  <2> QED
    BY <2>1, <2>9, <2>10
<1> QED
  BY <1>2, <1>3

LEMMA MakeBotProxies ==
    ASSUME PInv, NEW t \in Traders, NEW b \in Bots, MakeBot(t, b)
    PROVE  RestInv' /\ ProxyInv' /\ ShareInv'
<1>1. UNCHANGED <<world, status, phase, avail, reg, hooks, own, extra, launch, ended, short>>
  BY DEF MakeBot, dbVars
<1>2. RestInv'
  BY DEF PInv, RestInv, IInv, TypeInv, MakeBot, world, dbVars, requestVars
<1> QED
  BY <1>1, <1>2, Untouched

(* The other steps of starts and stops do not touch proxies.               *)
LEMMA RequestProxies ==
    ASSUME PInv, NEW b \in Bots,
           \/ SetStarting(b) \/ \E n \in Balances : Reduce(b, n)
           \/ ReturnBalance(b) \/ StartFails(b) \/ SetStopping(b) \/ RemoveBot(b)
           \/ SetInactive(b) \/ AddBackBalance(b)
    PROVE  RestInv' /\ ProxyInv' /\ ShareInv'
<1>1. phase = "up"
  BY DEF PInv, IInv, PhaseInv, SetStarting, Reduce, ReturnBalance, StartFails, SetStopping,
         RemoveBot, SetInactive, AddBackBalance
<1>2. UNCHANGED <<world, phase, avail, reg, hooks, own, extra, launch, ended, short>>
  BY DEF SetStarting, Reduce, ReturnBalance, StartFails, SetStopping, RemoveBot, SetInactive,
         AddBackBalance, monVars, launchVars, historyVars
<1>3. RestInv'
  <2> USE BalanceAssumption DEF PInv, RestInv, world, historyVars
  <2>1. CASE SetStarting(b) \/ SetStopping(b)
    BY <2>1 DEF SetStarting, SetStopping, monVars
  <2>2. CASE \E n \in Balances : Reduce(b, n)
    BY <2>2 DEF Reduce, monVars
  <2>3. CASE ReturnBalance(b) \/ AddBackBalance(b)
    BY <2>3 DEF IInv, TypeInv, ReturnBalance, AddBackBalance, monVars
  <2>4. CASE StartFails(b) \/ SetInactive(b)
    BY <2>4 DEF StartFails, SetInactive, monVars
  <2>5. CASE RemoveBot(b)
    BY <2>5 DEF RemoveBot, dbVars
  <2> QED
    BY <2>1, <2>2, <2>3, <2>4, <2>5
<1> QED
  BY <1>1, <1>2, <1>3, Untouched

LEMMA StepPInv == PInv /\ [Next]_vars => PInv'
<1> SUFFICES ASSUME PInv, [Next]_vars PROVE RestInv' /\ ProxyInv' /\ ShareInv'
  BY StepIInv DEF PInv
<1>1. CASE Crash
  BY <1>1, DieProxies DEF Crash, PInv, ShareInv, RestInv
<1>2. CASE Boot
  BY <1>2, BootProxies
<1>3. CASE Launching
  BY <1>3, TakeProxiesProxies, CreateMonitorProxies, MakeBotProxies, CollectProxies DEF Launching
<1>4. CASE Serve
  BY <1>4, ServeProxies
<1>5. ASSUME NEW b \in Bots, Request(b) PROVE RestInv' /\ ProxyInv' /\ ShareInv'
  BY <1>5, RequestProxies, JoinProxies, PostBotLaunchProxies, EndMonitorProxies,
     RecoverClientsProxies DEF Request
<1>6. CASE UNCHANGED vars
  <2>1. RestInv'
    BY <1>6 DEF vars, world, dbVars, monVars, requestVars, historyVars, PInv, RestInv
  <2>2. UNCHANGED <<world, status, phase, avail, reg, hooks, own, extra, launch, ended, short>>
    BY <1>6 DEF vars, dbVars, monVars, launchVars, historyVars
  <2> QED
    BY <2>1, <2>2, Untouched
<1> QED
  BY <1>1, <1>2, <1>3, <1>4, <1>5, <1>6 DEF Next

LEMMA ProxiesInductive == Spec => []PInv
  BY InitPInv, StepPInv, PTL DEF Spec

-----------------------------------------------------------------------------
(* No step leads out of the types: the pool never has more proxies than    *)
(* the file, nor a monitor fewer than none.                                *)
THEOREM TypeCorrect == Spec => []TypeOK
<1>1. PInv => TypeOK
  <2> SUFFICES ASSUME PInv PROVE TypeOK
    OBVIOUS
  <2>1. avail \in 0 .. numProxies
    BY InUseType, ProxyAssumption DEF PInv, ProxyInv, RestInv
  <2> QED
    BY <2>1 DEF PInv, IInv, TypeInv, RestInv, ProxyInv, TypeOK, Labels
<1> QED
  BY <1>1, ProxiesInductive, PTL

(* Whatever starts, stops and restarts do, every proxy of the file is in   *)
(* the pool or in use by one monitor (proxies.go, launch.go:239-283), as   *)
(* long as no monitor that was given more has ended.                       *)
THEOREM ProxiesAreAccounted == Spec => []ProxiesAccounted
<1>1. PInv => ProxiesAccounted
  BY DEF PInv, ProxyInv, ProxiesAccounted
<1> QED
  BY <1>1, ProxiesInductive, PTL

(* A launch ends for want of proxies (launch.go:239) only if the file has  *)
(* fewer than all monitors are to get, in whatever order the goroutines    *)
(* and main take them.                                                     *)
THEOREM ShortagesAreReal == Spec => []ShortageIsReal
<1>1. PInv => ShortageIsReal
  BY ShareSum DEF PInv, ShareInv, ShortageIsReal
<1> QED
  BY <1>1, ProxiesInductive, PTL
=============================================================================
