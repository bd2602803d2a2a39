---------------------------- MODULE LaunchCache ----------------------------
(***************************************************************************)
(* The launching-monitors cache (classes/launchingMonitorsCache.go) as     *)
(* startBot uses it (botStartup.go:290-333): Wait and Finished with their  *)
(* two mutexes and their unbuffered channels, run by any number of         *)
(* concurrent startBot calls that race with the handler's map of running   *)
(* monitors.                                                               *)
(*                                                                         *)
(* A launchingMon object is named by the call that created it (a call      *)
(* creates at most one), a monitor by the call that launched it, and the   *)
(* channel a call waits on by the object and its position in that          *)
(* object's waiting list.                                                  *)
(***************************************************************************)
EXTENDS Integers, Sequences

CONSTANTS
    Calls,      \* the startBot invocations of a run
    Traders,    \* the trader UIDs
    TraderOf,   \* TraderOf[c]: the trader call c wants its bot to follow
    NoCall      \* no call, object or monitor

ASSUME CallsAssumption == NoCall \notin Calls
ASSUME TraderAssumption == TraderOf \in [Calls -> Traders]

VARIABLES
    runningMons,    \* handler.runningMons: trader -> the call that launched it
    launching,      \* lmc.launching: trader -> launchingMon object
    waiting,        \* object -> launchingMon.waiting, as the calls that wait
    uidsMtx,        \* the call that holds lmc.uidsMtx across a broadcast
    pc,             \* where each call is
    lm,             \* the object a call looked up in Wait or in Finished
    myPos,          \* the call's position in lm's waiting list, from 0
    isSuccess,      \* the argument of the call's next Finished
    sent            \* how many channels the call's broadcast has served

launchVars == <<runningMons, launching, waiting, uidsMtx, pc, lm, myPos, isSuccess, sent>>
handlerVars == <<runningMons>>
cacheVars == <<launching, waiting, uidsMtx>>
callVars == <<lm, myPos, isSuccess, sent>>

(* Where a call can be. "getMonitor" to "reset" come before the decision   *)
(* whether this call launches the monitor.                                 *)
Undecided == {"getMonitor", "Wait", "append", "receive", "reset"}
Launching == {"create", "addMonitor"}
Finishing == {"Finished", "broadcast"}
Over == {"joined", "nilMonitor", "done"}
Labels == Undecided \cup Launching \cup Finishing \cup Over

LaunchTypeOK ==
    /\ runningMons \in [Traders -> Calls \cup {NoCall}]
    /\ launching \in [Traders -> Calls \cup {NoCall}]
    /\ waiting \in [Calls -> Seq(Calls)]
    /\ uidsMtx \in Calls \cup {NoCall}
    /\ pc \in [Calls -> Labels]
    /\ lm \in [Calls -> Calls \cup {NoCall}]
    /\ myPos \in [Calls -> Nat]
    /\ isSuccess \in [Calls -> BOOLEAN]
    /\ sent \in [Calls -> Nat]

LaunchInit ==
    /\ runningMons = [t \in Traders |-> NoCall]
    /\ launching = [t \in Traders |-> NoCall]
    /\ waiting = [c \in Calls |-> <<>>]
    /\ uidsMtx = NoCall
    /\ pc = [c \in Calls |-> "getMonitor"]
    /\ lm = [c \in Calls |-> NoCall]
    /\ myPos = [c \in Calls |-> 0]
    /\ isSuccess = [c \in Calls |-> FALSE]
    /\ sent = [c \in Calls |-> 0]

Goto(c, label) == pc' = [pc EXCEPT ![c] = label]

-----------------------------------------------------------------------------
(* launchingMon.mtx is held from one step to the next only by a broadcast; *)
(* the critical sections of Wait are single steps.                         *)
LmMtxFree(l) == \A d \in Calls : pc[d] = "broadcast" => lm[d] # l

-----------------------------------------------------------------------------
(* startBot looks for the trader's monitor; a bot that finds it joins it.  *)
FindMonitor(c) ==
    /\ pc[c] = "getMonitor"
    /\ Goto(c, IF runningMons[TraderOf[c]] # NoCall THEN "joined" ELSE "Wait")
    /\ UNCHANGED <<handlerVars, cacheVars, callVars>>

(* Wait, first critical section: the first call to come creates the entry  *)
(* and launches; a later one remembers the object it found.                *)
WaitLookup(c) ==
    LET t == TraderOf[c] IN
    /\ pc[c] = "Wait"
    /\ uidsMtx = NoCall
    /\ IF launching[t] = NoCall
       THEN /\ launching' = [launching EXCEPT ![t] = c]
            /\ waiting' = [waiting EXCEPT ![c] = <<>>]
            /\ Goto(c, "create")
            /\ UNCHANGED lm
       ELSE /\ lm' = [lm EXCEPT ![c] = launching[t]]
            /\ Goto(c, "append")
            /\ UNCHANGED <<launching, waiting>>
    /\ UNCHANGED <<handlerVars, uidsMtx, myPos, isSuccess, sent>>

(* Mutant: the channel is appended without taking launchingMon.mtx.        *)
WaitAppend_NoLock(c) ==
    /\ pc[c] = "append"
    /\ myPos' = [myPos EXCEPT ![c] = Len(waiting[lm[c]])]
    /\ waiting' = [waiting EXCEPT ![lm[c]] = Append(@, c)]
    /\ Goto(c, "receive")
    /\ UNCHANGED <<handlerVars, launching, uidsMtx, lm, isSuccess, sent>>

(* Wait, second critical section: take a position and append a channel.    *)
WaitAppend(c) ==
    /\ pc[c] = "append"
    /\ LmMtxFree(lm[c])
    /\ myPos' = [myPos EXCEPT ![c] = Len(waiting[lm[c]])]
    /\ waiting' = [waiting EXCEPT ![lm[c]] = Append(@, c)]
    /\ Goto(c, "receive")
    /\ UNCHANGED <<handlerVars, launching, uidsMtx, lm, isSuccess, sent>>

(* Mutant: the heir leaves the list as it is.                              *)
WaitReset_KeepsList(c) ==
    /\ pc[c] = "reset"
    /\ LmMtxFree(lm[c])
    /\ Goto(c, "create")
    /\ UNCHANGED <<handlerVars, cacheVars, callVars>>

(* The waiter at position 0 of a failed launch empties the list, returns   *)
(* false from Wait and launches in its turn.                               *)
WaitReset(c) ==
    /\ pc[c] = "reset"
    /\ LmMtxFree(lm[c])
    /\ waiting' = [waiting EXCEPT ![lm[c]] = <<>>]
    /\ Goto(c, "create")
    /\ UNCHANGED <<handlerVars, launching, uidsMtx, callVars>>

-----------------------------------------------------------------------------
(* createNewMonitor succeeds, and so does handleTraderBotDifferences.      *)
CreateMonitor(c) ==
    /\ pc[c] = "create"
    /\ Goto(c, "addMonitor")
    /\ UNCHANGED <<handlerVars, cacheVars, callVars>>

(* Mutant: the call to Finished is deferred after the error's return.      *)
LaunchFails_NotDeferred(c) ==
    /\ pc[c] = "create"
    /\ Goto(c, "done")
    /\ UNCHANGED <<handlerVars, cacheVars, callVars>>

(* One of them fails: startBot returns and its deferred Finished(uid,      *)
(* false) runs.                                                            *)
LaunchFails(c) ==
    /\ pc[c] = "create"
    /\ isSuccess' = [isSuccess EXCEPT ![c] = FALSE]
    /\ Goto(c, "Finished")
    /\ UNCHANGED <<handlerVars, cacheVars, lm, myPos, sent>>

(* handler.addMonitor overwrites whatever was registered for the trader.   *)
AddMonitor(c) ==
    /\ pc[c] = "addMonitor"
    /\ runningMons' = [runningMons EXCEPT ![TraderOf[c]] = c]
    /\ isSuccess' = [isSuccess EXCEPT ![c] = TRUE]
    /\ Goto(c, "Finished")
    /\ UNCHANGED <<cacheVars, lm, myPos, sent>>

(* What startBot does after a Finished: Finished(uid, true) is followed by *)
(* the deferred Finished(uid, false), with which every launch ends.        *)
AfterFinished(c) ==
    IF isSuccess[c]
    THEN /\ isSuccess' = [isSuccess EXCEPT ![c] = FALSE]
         /\ Goto(c, "Finished")
    ELSE /\ Goto(c, "done")
         /\ UNCHANGED isSuccess

(* Finished takes uidsMtx; without an entry for the trader it returns,     *)
(* else it takes the object's mtx too (no broadcast can hold it, for that  *)
(* needs uidsMtx) and begins to send.                                      *)
FinishedBegin(c) ==
    LET l == launching[TraderOf[c]] IN
    /\ pc[c] = "Finished"
    /\ uidsMtx = NoCall
    /\ \/ /\ l = NoCall
          /\ AfterFinished(c)
          /\ UNCHANGED <<uidsMtx, lm, sent>>
       \/ /\ l # NoCall
          /\ uidsMtx' = c
          /\ lm' = [lm EXCEPT ![c] = l]
          /\ sent' = [sent EXCEPT ![c] = 0]
          /\ Goto(c, "broadcast")
          /\ UNCHANGED isSuccess
    /\ UNCHANGED <<handlerVars, launching, waiting, myPos>>

(* Mutant: every waiter of a failed launch launches in its turn.           *)
Send_AllInherit(c, d) ==
    LET l == lm[c] IN
    /\ pc[c] = "broadcast"
    /\ sent[c] < Len(waiting[l])
    /\ waiting[l][sent[c] + 1] = d
    /\ pc[d] = "receive" /\ lm[d] = l /\ myPos[d] = sent[c]
    /\ sent' = [sent EXCEPT ![c] = @ + 1]
    /\ Goto(d, IF isSuccess[c] THEN "nilMonitor" ELSE "reset")
    /\ UNCHANGED <<handlerVars, cacheVars, lm, myPos, isSuccess>>

(* The next send of the broadcast: it needs the call that is blocked on    *)
(* exactly that channel, for the channels are unbuffered. On true Wait     *)
(* returns, and startBot goes on with a nil monitor; on false the waiter   *)
(* at position 0 launches and every other one calls Wait again.            *)
Send(c, d) ==
    LET l == lm[c] IN
    /\ pc[c] = "broadcast"
    /\ sent[c] < Len(waiting[l])
    /\ waiting[l][sent[c] + 1] = d
    /\ pc[d] = "receive" /\ lm[d] = l /\ myPos[d] = sent[c]
    /\ sent' = [sent EXCEPT ![c] = @ + 1]
    /\ Goto(d, IF isSuccess[c] THEN "nilMonitor"
               ELSE IF myPos[d] = 0 THEN "reset" ELSE "Wait")
    /\ UNCHANGED <<handlerVars, cacheVars, lm, myPos, isSuccess>>

(* Mutant: an early return that leaves uidsMtx locked.                     *)
FinishedEnd_KeepsLock(c) ==
    /\ pc[c] = "broadcast"
    /\ sent[c] = Len(waiting[lm[c]])
    /\ launching' = IF isSuccess[c]
                    THEN [launching EXCEPT ![TraderOf[c]] = NoCall]
                    ELSE launching
    /\ AfterFinished(c)
    /\ UNCHANGED <<handlerVars, uidsMtx, waiting, lm, myPos, sent>>

(* All channels served: a success deletes the entry, and both mutexes are  *)
(* released.                                                               *)
FinishedEnd(c) ==
    /\ pc[c] = "broadcast"
    /\ sent[c] = Len(waiting[lm[c]])
    /\ launching' = IF isSuccess[c]
                    THEN [launching EXCEPT ![TraderOf[c]] = NoCall]
                    ELSE launching
    /\ uidsMtx' = NoCall
    /\ AfterFinished(c)
    /\ UNCHANGED <<handlerVars, waiting, lm, myPos, sent>>

(* stopBot takes the last bot off the trader's monitor and unregisters it. *)
(* The bot that launched the monitor becomes active, and can be stopped,   *)
(* only after its call's Finished(uid, true) (botStartup.go:329-339).      *)
RemoveMonitor(t) ==
    /\ runningMons[t] # NoCall
    /\ ~ isSuccess[runningMons[t]]
    /\ runningMons' = [runningMons EXCEPT ![t] = NoCall]
    /\ UNCHANGED <<cacheVars, pc, callVars>>

CallStep(c) ==
    \/ FindMonitor(c) \/ WaitLookup(c) \/ WaitAppend(c) \/ WaitReset(c)
    \/ CreateMonitor(c) \/ LaunchFails(c) \/ AddMonitor(c)
    \/ FinishedBegin(c) \/ FinishedEnd(c)
    \/ \E d \in Calls : Send(c, d)

LaunchNext ==
    \/ \E c \in Calls : CallStep(c)
    \/ \E t \in Traders : RemoveMonitor(t)

LaunchSpec == LaunchInit /\ [][LaunchNext]_launchVars

(* A call that can go on does (the Go scheduler; the requests of           *)
(* createNewMonitor have timeouts); nobody need stop a bot.                *)
FairLaunchSpec == LaunchSpec /\ \A c \in Calls : WF_launchVars(CallStep(c))

-----------------------------------------------------------------------------
(* A failed launch is inherited by one waiter: no two calls are about to   *)
(* return false from the same launchingMon object (lines 60-66).           *)
OneHeir ==
    \A c, d \in Calls :
        pc[c] = "reset" /\ pc[d] = "reset" /\ lm[c] = lm[d] => c = d

(* While Finished is serving an object's channels nobody changes the list  *)
(* it ranges over, nor the map of objects (lines 74-87): what the two      *)
(* mutexes are for.                                                        *)
BroadcastIsStable ==
    [][\A c \in Calls :
          uidsMtx = c /\ uidsMtx' = c
          => launching' = launching /\ waiting'[lm[c]] = waiting[lm[c]]]_launchVars

(* The next channel a broadcast serves is the one call d is blocked on.    *)
Meets(c, d) ==
    /\ waiting[lm[c]][sent[c] + 1] = d
    /\ pc[d] = "receive" /\ lm[d] = lm[c] /\ myPos[d] = sent[c]

(* A waiter of a failed launch has still to empty the object's list.       *)
HeirPending(l) == \E h \in Calls : pc[h] = "reset" /\ lm[h] = l

(* A broadcast holds uidsMtx, so a send that nobody receives blocks every  *)
(* launch of the program for ever (line 85). That comes to pass in one way *)
(* only: a second Finished reached the object before the heir of the first *)
(* emptied its list; otherwise the next receiver is there.                 *)
BroadcastMeets ==
    \A c \in Calls :
        pc[c] = "broadcast" /\ sent[c] < Len(waiting[lm[c]])
        => HeirPending(lm[c]) \/ \E d \in Calls : Meets(c, d)

(* d waits on a channel that is in its object's list ...                   *)
Listed(d) ==
    /\ pc[d] = "receive"
    /\ myPos[d] < Len(waiting[lm[d]]) /\ waiting[lm[d]][myPos[d] + 1] = d

(* ... of the trader's entry, and some call has still to end its Finished  *)
(* for that trader.                                                        *)
Expected(d) ==
    /\ launching[TraderOf[d]] = lm[d]
    /\ \E e \in Calls : /\ TraderOf[e] = TraderOf[d]
                        /\ pc[e] \in Launching \cup Finishing \cup {"reset"}

(* Waiting for the launch in progress is not in vain: while a call is      *)
(* listed, neither the last Finished it can hope for nor the deletion of   *)
(* the entry passes it by, whichever calls launch in the meantime.         *)
NobodyAbandoned ==
    [][\A d \in Calls :
          Listed(d) /\ Expected(d) /\ Listed(d)' => Expected(d)']_launchVars

(* Wait, line 55: the receive is answered, unless the list was emptied or  *)
(* a broadcast found the heir in its way.                                  *)
WaitersAreAnswered ==
    \A d \in Calls :
        Listed(d) /\ Expected(d)
        ~> ~ Listed(d) \/ \E c \in Calls : /\ pc[c] = "broadcast" /\ HeirPending(lm[c])
                                            /\ sent[c] < Len(waiting[lm[c]])

(* The header of launchingMonitorsCache.go (lines 3-6): the cache exists   *)
(* "to prevent two monitors being launched for the same trader at the same *)
(* time". The code does not keep it: see the run launch_cache_header.      *)
OneLaunchAtATime ==
    \A c, d \in Calls :
        pc[c] \in Launching /\ pc[d] \in Launching /\ TraderOf[c] = TraderOf[d] => c = d
=============================================================================
