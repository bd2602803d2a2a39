---------------------------- MODULE MonitorLoop ----------------------------
(***************************************************************************)
(* One running monitor (monitor.go) and the pool of proxies it shares with *)
(* the launches of other traders (classes/proxies.go): the loop of run     *)
(* with the three channels it selects on, the goroutines of postBotLaunch  *)
(* that give it more clients when its first bot comes, and the goroutines  *)
(* of stopBot that take them back, or end it, when its last bot leaves     *)
(* (botStartup.go:348-392, 465-506).                                       *)
(*                                                                         *)
(* A client is named by its proxy. A stay is one bot's time on the         *)
(* monitor: the goroutine of its start and the goroutine of its stop;      *)
(* stays are numbered in the order in which they come. The channels are    *)
(* unbuffered: the sequences below hold their blocked senders in the order *)
(* Go serves them.                                                         *)
(***************************************************************************)
EXTENDS Integers, Sequences, Totals

CONSTANTS
    MaxStays,       \* bound: how many stays come
    Others,         \* bound: the launches of other monitors
    NumProxies,     \* the proxies are 1 .. NumProxies
    PerCopy,        \* PROX_PER_COPY
    PerSign         \* PROX_PER_SIGN

ASSUME BoundsAssumption == MaxStays \in Nat /\ IsFiniteSet(Others)
ASSUME ProxiesAssumption ==
    /\ NumProxies \in Nat /\ PerSign \in Nat /\ PerCopy \in Nat
    /\ 0 < PerSign /\ PerSign < PerCopy /\ PerCopy <= NumProxies

Stays == 1 .. MaxStays
Proxies == 1 .. NumProxies
Extra == PerCopy - PerSign

VARIABLES
    pool,           \* proxies.Available
    loop,           \* where run is
    httpClients,    \* mon.httpClients
    monProxies,     \* mon.proxies, set once
    clientsChan,    \* blocked senders on mon.clientsChan: stays, or Loop
    returnChan,     \* blocked senders on mon.returnChan: stays
    ending,         \* how many goroutines are blocked on mon.end <- true
    webhooks,       \* the monitor has webhooks (set at launch, never changed)
    registered,     \* the handler knows the monitor
    bots,           \* mon.bots: the stays whose bot is on the monitor
    active,         \* the stays whose bot's status is active
    post, hand,     \* each stay's start: where it is, the proxies it took
    stop, removed,  \* each stay's stop: where it is, its removedProxies
    other, taken    \* each other launch: where it is, the proxies it took

channelVars == <<clientsChan, returnChan, ending>>
monitorVars == <<webhooks, monProxies, registered, bots>>
postVars == <<active, post, hand>>
stopVars == <<stop, removed>>
otherVars == <<other, taken>>
vars == <<pool, loop, httpClients, channelVars, monitorVars, postVars, stopVars, otherVars>>

Loop == 0

TypeOK ==
    /\ pool \in Seq(Proxies)
    /\ loop \in {"poll", "select", "send", "closed", "crashed"}
    /\ httpClients \in Seq(Proxies)
    /\ monProxies \in Seq(Proxies)
    /\ clientsChan \in Seq(Stays \cup {Loop})
    /\ returnChan \in Seq(Stays)
    /\ ending \in Nat
    /\ webhooks \in BOOLEAN /\ registered \in BOOLEAN
    /\ bots \subseteq Stays /\ active \subseteq Stays
    /\ post \in [Stays -> {"idle", "addBot", "first", "launched", "nextGroup",
                           "createClients", "send", "done", "failed"}]
    /\ hand \in [Stays -> Seq(Proxies)]
    /\ stop \in [Stays -> {"idle", "removeBot", "webhookCount", "returnChan",
                           "receive", "returnGroup", "done", "keyInvalid"}]
    /\ removed \in [Stays -> Seq(Proxies)]
    /\ other \in [Others -> {"idle", "nextGroup", "running", "done"}]
    /\ taken \in [Others -> Seq(Proxies)]

(* A monitor with webhooks comes from the start of the program, here       *)
(* without bots; one without webhooks from startBot, with its first bot.   *)
Init ==
    /\ webhooks \in BOOLEAN
    /\ httpClients = [i \in 1 .. (IF webhooks THEN PerSign ELSE PerCopy) |-> i]
    /\ monProxies = httpClients
    /\ pool = [i \in 1 .. (NumProxies - Len(httpClients)) |-> i + Len(httpClients)]
    /\ loop = "poll"
    /\ clientsChan = <<>> /\ returnChan = <<>> /\ ending = 0
    /\ registered = TRUE
    /\ \/ webhooks /\ bots = {}
       \/ ~ webhooks /\ bots = {1} \cap Stays
    /\ active = bots
    /\ post = [s \in Stays |-> IF s \in bots THEN "done" ELSE "idle"]
    /\ hand = [s \in Stays |-> <<>>]
    /\ stop = [s \in Stays |-> "idle"]
    /\ removed = [s \in Stays |-> <<>>]
    /\ other = [o \in Others |-> "idle"]
    /\ taken = [o \in Others |-> <<>>]

Running == loop # "crashed"

-----------------------------------------------------------------------------
(* proxies.NextGroup and proxies.ReturnGroup, each under proxies.Mu.       *)
HasGroup(n) == Len(pool) >= n
NextGroup(n) == SubSeq(pool, 1, n)
PoolAfter(n) == SubSeq(pool, n + 1, Len(pool))
ReturnGroup(group) == pool' = pool \o group

-----------------------------------------------------------------------------
(* run: poll the trader with each client and dispatch what changed ...     *)
Poll ==
    /\ loop = "poll"
    /\ loop' = "select"
    /\ UNCHANGED <<pool, httpClients, channelVars, monitorVars, postVars, stopVars, otherVars>>

(* Mutant: new clients replace the old ones.                               *)
ReceiveClients_Replaces ==
    /\ loop = "select"
    /\ clientsChan # <<>>
    /\ LET s == Head(clientsChan) IN
       /\ httpClients' = hand[s]
       /\ hand' = [hand EXCEPT ![s] = <<>>]
       /\ post' = [post EXCEPT ![s] = "done"]
    /\ clientsChan' = Tail(clientsChan)
    /\ loop' = "poll"
    /\ UNCHANGED <<pool, returnChan, ending, monitorVars, active, stopVars, otherVars>>

(* Mutant: a monitor that has its share takes no more clients.             *)
ReceiveClients_OnlyWhenShort ==
    /\ loop = "select"
    /\ clientsChan # <<>>
    /\ Len(httpClients) < PerCopy
    /\ LET s == Head(clientsChan) IN
       /\ httpClients' = httpClients \o hand[s]
       /\ hand' = [hand EXCEPT ![s] = <<>>]
       /\ post' = [post EXCEPT ![s] = "done"]
    /\ clientsChan' = Tail(clientsChan)
    /\ loop' = "poll"
    /\ UNCHANGED <<pool, returnChan, ending, monitorVars, active, stopVars, otherVars>>

(* ... then serve one blocked sender, if there is any: take new clients,   *)
ReceiveClients ==
    /\ loop = "select"
    /\ clientsChan # <<>>
    /\ LET s == Head(clientsChan) IN
       /\ httpClients' = httpClients \o hand[s]
       /\ hand' = [hand EXCEPT ![s] = <<>>]
       /\ post' = [post EXCEPT ![s] = "done"]
    /\ clientsChan' = Tail(clientsChan)
    /\ loop' = "poll"
    /\ UNCHANGED <<pool, returnChan, ending, monitorVars, active, stopVars, otherVars>>

(* or learn how many to return, and send them; the slice expressions panic *)
(* when there are fewer, which ends the program,                           *)
ReceiveReturn ==
    /\ loop = "select"
    /\ returnChan # <<>>
    /\ stop' = [stop EXCEPT ![Head(returnChan)] = "receive"]
    /\ returnChan' = Tail(returnChan)
    /\ IF Len(httpClients) < Extra
       THEN loop' = "crashed" /\ UNCHANGED clientsChan
       ELSE loop' = "send" /\ clientsChan' = Append(clientsChan, Loop)
    /\ UNCHANGED <<pool, httpClients, ending, monitorVars, postVars, removed, otherVars>>

(* Mutant: a break in place of the return, which only leaves the select.   *)
ReceiveEnd_Breaks ==
    /\ loop = "select"
    /\ ending > 0
    /\ ending' = ending - 1
    /\ loop' = "poll"
    /\ UNCHANGED <<pool, httpClients, clientsChan, returnChan, monitorVars, postVars, stopVars, otherVars>>

(* or end,                                                                 *)
ReceiveEnd ==
    /\ loop = "select"
    /\ ending > 0
    /\ ending' = ending - 1
    /\ loop' = "closed"
    /\ UNCHANGED <<pool, httpClients, clientsChan, returnChan, monitorVars, postVars, stopVars, otherVars>>

(* or, when nobody is waiting, go on.                                      *)
SelectDefault ==
    /\ loop = "select"
    /\ clientsChan = <<>> /\ returnChan = <<>> /\ ending = 0
    /\ loop' = "poll"
    /\ UNCHANGED <<pool, httpClients, channelVars, monitorVars, postVars, stopVars, otherVars>>

LoopStep == Poll \/ ReceiveClients \/ ReceiveReturn \/ ReceiveEnd \/ SelectDefault

-----------------------------------------------------------------------------
(* startBot gets the monitor from the handler ...                          *)
GetMonitor(s) ==
    /\ Running
    /\ post[s] = "idle" /\ registered
    /\ \A r \in Stays : r < s => post[r] # "idle"
    /\ post' = [post EXCEPT ![s] = "addBot"]
    /\ UNCHANGED <<pool, loop, httpClients, channelVars, monitorVars, active, hand,
                   stopVars, otherVars>>

(* ... and later adds its bot to it; addBot returns how many there are.    *)
AddBot(s) ==
    /\ Running
    /\ post[s] = "addBot"
    /\ bots' = bots \cup {s}
    /\ post' = [post EXCEPT ![s] = IF Cardinality(bots') = 1 THEN "first" ELSE "launched"]
    /\ UNCHANGED <<pool, loop, httpClients, channelVars, webhooks, monProxies, registered,
                   active, hand, stopVars, otherVars>>

(* postBotLaunch: the first bot of a monitor that existed before it brings *)
(* more clients.                                                           *)
PostBotLaunch(s) ==
    /\ Running
    /\ post[s] \in {"first", "launched"}
    /\ active' = active \cup {s}
    /\ post' = [post EXCEPT ![s] = IF @ = "first" THEN "nextGroup" ELSE "done"]
    /\ UNCHANGED <<pool, loop, httpClients, channelVars, monitorVars, hand,
                   stopVars, otherVars>>

TakeGroup(s) ==
    /\ Running
    /\ post[s] = "nextGroup"
    /\ IF HasGroup(Extra)
       THEN /\ hand' = [hand EXCEPT ![s] = NextGroup(Extra)]
            /\ pool' = PoolAfter(Extra)
            /\ post' = [post EXCEPT ![s] = "createClients"]
       ELSE /\ post' = [post EXCEPT ![s] = "failed"]
            /\ UNCHANGED <<pool, hand>>
    /\ UNCHANGED <<loop, httpClients, channelVars, monitorVars, active, stopVars, otherVars>>

(* createClients may fail on a malformed proxy; the group is then lost.    *)
AddClients(s) ==
    /\ Running
    /\ post[s] = "createClients"
    /\ \/ /\ clientsChan' = Append(clientsChan, s)
          /\ post' = [post EXCEPT ![s] = "send"]
       \/ /\ post' = [post EXCEPT ![s] = "failed"]
          /\ UNCHANGED clientsChan
    /\ UNCHANGED <<pool, loop, httpClients, returnChan, ending, monitorVars, active, hand,
                   stopVars, otherVars>>

PostStep(s) == PostBotLaunch(s) \/ TakeGroup(s) \/ AddClients(s)

-----------------------------------------------------------------------------
(* stopBot finds the monitor and the bot on it ...                         *)
StopBot(s) ==
    /\ Running
    /\ stop[s] = "idle" /\ s \in active
    /\ registered /\ s \in bots
    /\ stop' = [stop EXCEPT ![s] = "removeBot"]
    /\ UNCHANGED <<pool, loop, httpClients, channelVars, monitorVars, postVars, removed, otherVars>>

(* Mutant: the last but one concerns the monitor too.                      *)
RemoveBot_OffByOne(s) ==
    /\ Running
    /\ stop[s] = "removeBot"
    /\ bots' = bots \ {s}
    /\ stop' = [stop EXCEPT ![s] = IF Cardinality(bots') <= 1 THEN "webhookCount" ELSE "done"]
    /\ UNCHANGED <<pool, loop, httpClients, channelVars, webhooks, monProxies, registered,
                   postVars, removed, otherVars>>

(* ... and takes it off; only the last one concerns the monitor.           *)
RemoveBot(s) ==
    /\ Running
    /\ stop[s] = "removeBot"
    /\ bots' = bots \ {s}
    /\ stop' = [stop EXCEPT ![s] = IF bots' = {} THEN "webhookCount" ELSE "done"]
    /\ UNCHANGED <<pool, loop, httpClients, channelVars, webhooks, monProxies, registered,
                   postVars, removed, otherVars>>

(* checkManualChanges takes a bot with invalid keys off the monitor and    *)
(* does not look at how many are left.                                     *)
KeyInvalid(s) ==
    /\ Running
    /\ stop[s] = "idle" /\ registered /\ s \in bots
    /\ bots' = bots \ {s}
    /\ stop' = [stop EXCEPT ![s] = "keyInvalid"]
    /\ UNCHANGED <<pool, loop, httpClients, channelVars, webhooks, monProxies, registered,
                   postVars, removed, otherVars>>

(* Without webhooks the monitor is unregistered and told to end ...        *)
EndMonitor(s) ==
    /\ Running
    /\ stop[s] = "webhookCount" /\ ~ webhooks
    /\ registered' = FALSE
    /\ ending' = ending + 1
    /\ removed' = [removed EXCEPT ![s] = monProxies]
    /\ stop' = [stop EXCEPT ![s] = "returnGroup"]
    /\ UNCHANGED <<pool, loop, httpClients, clientsChan, returnChan, webhooks, monProxies, bots,
                   postVars, otherVars>>

(* ... with webhooks recoverClients asks for the clients that were added,  *)
RecoverClients(s) ==
    /\ Running
    /\ stop[s] = "webhookCount" /\ webhooks
    /\ returnChan' = Append(returnChan, s)
    /\ stop' = [stop EXCEPT ![s] = "returnChan"]
    /\ UNCHANGED <<pool, loop, httpClients, clientsChan, ending, monitorVars, postVars, removed, otherVars>>

(* Mutant: the loop goes on using the clients it has returned.             *)
Receive_StillUses(s) ==
    /\ Running
    /\ stop[s] = "receive"
    /\ clientsChan # <<>>
    /\ clientsChan' = Tail(clientsChan)
    /\ LET from == Head(clientsChan) IN
       IF from = Loop
       THEN /\ removed' = [removed EXCEPT ![s] = SubSeq(httpClients, 1, Extra)]
            /\ loop' = "poll"
            /\ UNCHANGED <<post, hand, httpClients>>
       ELSE /\ removed' = [removed EXCEPT ![s] = hand[from]]
            /\ hand' = [hand EXCEPT ![from] = <<>>]
            /\ post' = [post EXCEPT ![from] = "done"]
            /\ UNCHANGED <<httpClients, loop>>
    /\ stop' = [stop EXCEPT ![s] = "returnGroup"]
    /\ UNCHANGED <<pool, returnChan, ending, monitorVars, active, otherVars>>

(* and takes whatever is sent first: what the loop returns and then stops  *)
(* using, or what another goroutine is sending to the loop.                *)
Receive(s) ==
    /\ Running
    /\ stop[s] = "receive"
    /\ clientsChan # <<>>
    /\ clientsChan' = Tail(clientsChan)
    /\ LET from == Head(clientsChan) IN
       IF from = Loop
       THEN /\ removed' = [removed EXCEPT ![s] = SubSeq(httpClients, 1, Extra)]
            /\ httpClients' = SubSeq(httpClients, Extra + 1, Len(httpClients))
            /\ loop' = "poll"
            /\ UNCHANGED <<post, hand>>
       ELSE /\ removed' = [removed EXCEPT ![s] = hand[from]]
            /\ hand' = [hand EXCEPT ![from] = <<>>]
            /\ post' = [post EXCEPT ![from] = "done"]
            /\ UNCHANGED <<httpClients, loop>>
    /\ stop' = [stop EXCEPT ![s] = "returnGroup"]
    /\ UNCHANGED <<pool, returnChan, ending, monitorVars, active, otherVars>>

ReturnProxies(s) ==
    /\ Running
    /\ stop[s] = "returnGroup"
    /\ ReturnGroup(removed[s])
    /\ removed' = [removed EXCEPT ![s] = <<>>]
    /\ stop' = [stop EXCEPT ![s] = "done"]
    /\ UNCHANGED <<loop, httpClients, channelVars, monitorVars, postVars, otherVars>>

StopStep(s) ==
    RemoveBot(s) \/ EndMonitor(s) \/ RecoverClients(s) \/ Receive(s) \/ ReturnProxies(s)

-----------------------------------------------------------------------------
(* createNewMonitor of another trader: it counts the pool ...              *)
CheckProxies(o) ==
    /\ Running
    /\ other[o] = "idle"
    /\ other' = [other EXCEPT ![o] = IF HasGroup(PerCopy) THEN "nextGroup" ELSE "done"]
    /\ UNCHANGED <<pool, loop, httpClients, channelVars, monitorVars, postVars, stopVars, taken>>

(* Mutant: the pool keeps the last proxy of the group.                     *)
AttachProxies_OffByOne(o) ==
    /\ Running
    /\ other[o] = "nextGroup"
    /\ IF HasGroup(PerCopy)
       THEN /\ taken' = [taken EXCEPT ![o] = NextGroup(PerCopy)]
            /\ pool' = PoolAfter(PerCopy - 1)
            /\ other' = [other EXCEPT ![o] = "running"]
       ELSE /\ other' = [other EXCEPT ![o] = "done"]
            /\ UNCHANGED <<pool, taken>>
    /\ UNCHANGED <<loop, httpClients, channelVars, monitorVars, postVars, stopVars>>

(* ... takes a group (if it is gone by now the request panics on the empty *)
(* group, and net/http recovers) ...                                       *)
AttachProxies(o) ==
    /\ Running
    /\ other[o] = "nextGroup"
    /\ IF HasGroup(PerCopy)
       THEN /\ taken' = [taken EXCEPT ![o] = NextGroup(PerCopy)]
            /\ pool' = PoolAfter(PerCopy)
            /\ other' = [other EXCEPT ![o] = "running"]
       ELSE /\ other' = [other EXCEPT ![o] = "done"]
            /\ UNCHANGED <<pool, taken>>
    /\ UNCHANGED <<loop, httpClients, channelVars, monitorVars, postVars, stopVars>>

(* ... and returns it: newMonitor fails, or its monitor is stopped.        *)
OtherReturns(o) ==
    /\ Running
    /\ other[o] = "running"
    /\ ReturnGroup(taken[o])
    /\ taken' = [taken EXCEPT ![o] = <<>>]
    /\ other' = [other EXCEPT ![o] = "done"]
    /\ UNCHANGED <<loop, httpClients, channelVars, monitorVars, postVars, stopVars>>

Next ==
    \/ LoopStep
    \/ \E s \in Stays :
          GetMonitor(s) \/ AddBot(s) \/ PostStep(s) \/ StopBot(s) \/ KeyInvalid(s) \/ StopStep(s)
    \/ \E o \in Others :
          CheckProxies(o) \/ AttachProxies(o) \/ OtherReturns(o)

Spec == Init /\ [][Next]_vars

(* The loop and the goroutines that were started go on (the Go scheduler,  *)
(* and the 5 second timeout of every client); requests need not come.      *)
FairSpec ==
    /\ Spec
    /\ WF_vars(LoopStep)
    /\ \A s \in Stays : WF_vars(PostStep(s)) /\ WF_vars(StopStep(s))

-----------------------------------------------------------------------------
Occurrences(group, p) == Cardinality({i \in DOMAIN group : group[i] = p})

(* A monitor without webhooks is accounted for until its last stop ends it *)
(* and returns its proxies while the loop still uses them.                 *)
Accounted == webhooks \/ registered

(* monitor.go:229-231: a monitor that gives clients back "will stop using  *)
(* all of the ones that it returns". So a proxy is in one place at any     *)
(* time: in the pool, in use by one monitor, or in the hands of one        *)
(* goroutine; none is used twice and none gets lost.                       *)
OneOwner ==
    Accounted => \A p \in Proxies :
        LET carried == [s \in Stays |-> Occurrences(hand[s], p) + Occurrences(removed[s], p)]
            elsewhere == [o \in Others |-> Occurrences(taken[o], p)]
        IN  Occurrences(pool, p) + Occurrences(httpClients, p)
            + Total(carried, Stays) + Total(elsewhere, Others) = 1

(* And it gets from one place to another only in whole groups and on the   *)
(* ways that ProxyPool allows: nothing goes from the monitor to the pool   *)
(* but in the hands of a stop, and nothing to the monitor but in those of  *)
(* a start.                                                                *)
Groups(n) == {group \in SUBSET Proxies : Cardinality(group) = n}
Members(group) == {group[i] : i \in DOMAIN group}
Free == Members(pool)
Used == Members(httpClients)
Carried == [s \in Stays |-> Members(hand[s])]
Recovered == [s \in Stays |-> Members(removed[s])]
Away == [o \in Others |-> Members(taken[o])]
Pool == INSTANCE ProxyPool WITH
    free <- Free, used <- Used, carried <- Carried, recovered <- Recovered, away <- Away,
    accounted <- Accounted, BotGroups <- Groups(Extra), LaunchGroups <- Groups(PerCopy)
PoolSpec == Pool!Spec

(* No goroutine of a start or a stop is under way.                         *)
Quiet ==
    \A s \in Stays : post[s] \in {"idle", "addBot", "done"} /\ stop[s] \in {"idle", "done"}

(* botStartup.go:371-391 and 495: a monitor with webhooks has PerCopy      *)
(* clients while it has bots and PerSign while it has none, in whatever    *)
(* order starts and stops served the loop; unless a start failed to get    *)
(* clients, or a bot left because of its keys (both end Quiet).            *)
Balanced ==
    webhooks /\ Quiet /\ loop \in {"poll", "select"}
    => Len(httpClients) = IF bots = {} THEN PerSign ELSE PerCopy

(* monitor.go:421-424: the loop is asked for more clients than it has only *)
(* if a stop overtook the start whose clients it wants back, or that start *)
(* got none.                                                               *)
CrashNeedsOvertaking ==
    loop = "crashed" =>
        \E s \in Stays : post[s] \in {"first", "nextGroup", "createClients", "send", "failed"}

(* The loop offers clients that nobody will ever take.                     *)
Stuck == loop = "send" /\ \A s \in Stays : stop[s] # "receive"

(* monitor.go:240: addClients "will block until they have been receieved": *)
(* and received they are, as long as the loop runs.                        *)
ClientsArrive ==
    \A s \in Stays :
        post[s] = "send" ~> post[s] # "send" \/ loop \in {"closed", "crashed"} \/ Stuck

(* botStartup.go:485-490: a monitor that is told to end does end.          *)
EndIsObeyed == ending > 0 ~> loop = "closed"
=============================================================================
