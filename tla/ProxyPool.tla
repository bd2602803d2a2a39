----------------------------- MODULE ProxyPool -----------------------------
(***************************************************************************)
(* What the proxies of one monitor promise: they are handed over in whole  *)
(* groups, and the only ways are those below. The starts of bots carry     *)
(* groups from the pool to the monitor, the stops carry them back, a stop  *)
(* may be handed what a start carries, and other launches take their own.  *)
(* MonitorLoop implements it.                                              *)
(*                                                                         *)
(* A monitor without webhooks ends with its last bot. Then its accounts    *)
(* are closed: from there on nothing is promised of the proxies it had.    *)
(***************************************************************************)
CONSTANTS
    Proxies,
    Stays,      \* the starts and the stops of bots
    Others,     \* the launches of other monitors
    BotGroups,      \* the groups that come and go with the bots
    LaunchGroups    \* the groups that launches take

VARIABLES
    free,       \* the pool
    used,       \* the proxies the monitor uses
    carried,    \* what each start carries to it
    recovered,  \* what each stop carries back
    away,       \* what each other launch has
    accounted   \* the accounts are open

poolVars == <<free, used, carried, recovered, away, accounted>>

Init ==
    /\ free \cup used = Proxies /\ free \cap used = {}
    /\ carried = [s \in Stays |-> {}]
    /\ recovered = [s \in Stays |-> {}]
    /\ away = [o \in Others |-> {}]
    /\ accounted = TRUE

TakeForStart(s) ==
    /\ carried[s] = {}
    /\ \E group \in BotGroups :
          /\ group \subseteq free
          /\ free' = free \ group
          /\ carried' = [carried EXCEPT ![s] = group]
    /\ UNCHANGED <<used, recovered, away>>

Supply(s) ==
    /\ used' = used \cup carried[s]
    /\ carried' = [carried EXCEPT ![s] = {}]
    /\ UNCHANGED <<free, recovered, away>>

Recover(s) ==
    /\ recovered[s] = {}
    /\ \E group \in BotGroups :
          /\ group \subseteq used
          /\ used' = used \ group
          /\ recovered' = [recovered EXCEPT ![s] = group]
    /\ UNCHANGED <<free, carried, away>>

Intercept(r, s) ==
    /\ recovered[s] = {}
    /\ recovered' = [recovered EXCEPT ![s] = carried[r]]
    /\ carried' = [carried EXCEPT ![r] = {}]
    /\ UNCHANGED <<free, used, away>>

GiveBack(s) ==
    /\ free' = free \cup recovered[s]
    /\ recovered' = [recovered EXCEPT ![s] = {}]
    /\ UNCHANGED <<used, carried, away>>

TakeAway(o) ==
    /\ away[o] = {}
    /\ \E group \in LaunchGroups :
          /\ group \subseteq free
          /\ free' = free \ group
          /\ away' = [away EXCEPT ![o] = group]
    /\ UNCHANGED <<used, carried, recovered>>

BringBack(o) ==
    /\ free' = free \cup away[o]
    /\ away' = [away EXCEPT ![o] = {}]
    /\ UNCHANGED <<used, carried, recovered>>

Move ==
    \/ \E s \in Stays : TakeForStart(s) \/ Supply(s) \/ Recover(s) \/ GiveBack(s)
    \/ \E r, s \in Stays : Intercept(r, s)
    \/ \E o \in Others : TakeAway(o) \/ BringBack(o)

(* The last bot of a monitor without webhooks takes back what it came with *)
(* while the monitor still uses it.                                        *)
CloseAccounts(s) ==
    /\ accounted /\ ~ accounted'
    /\ \E group \in SUBSET Proxies : recovered' = [recovered EXCEPT ![s] = group]
    /\ UNCHANGED <<free, used, carried, away>>

Next ==
    \/ Move /\ accounted /\ accounted'
    \/ \E s \in Stays : CloseAccounts(s)
    \/ ~ accounted /\ ~ accounted'

Spec == Init /\ [][Next]_poolVars
=============================================================================
