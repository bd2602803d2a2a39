--------------------------- MODULE MonitorProofs ---------------------------
(***************************************************************************)
(* Launching a monitor and running it. First the launching-monitors cache  *)
(* (LaunchCache), for any set of calls and of traders; then one monitor's  *)
(* loop and the proxies it shares (MonitorLoop), for any numbers of stays, *)
(* launches elsewhere and proxies. The two are proved apart: they share no *)
(* variable.                                                               *)
(***************************************************************************)
EXTENDS LaunchCache, MonitorLoop, SequenceTheorems, TotalsTheorems

(* Nobody but the call inside a broadcast holds uidsMtx.                   *)
BroadcastInv == \A c \in Calls : pc[c] = "broadcast" <=> uidsMtx = c

(* Whatever is used as a launchingMon object has been created, by a call   *)
(* that is past the decision to launch and never returns to it.            *)
ObjectInv ==
    /\ \A t \in Traders : launching[t] # NoCall => pc[launching[t]] \notin Undecided
    /\ \A c \in Calls :
          /\ lm[c] # NoCall => pc[lm[c]] \notin Undecided
          /\ pc[c] \in {"append", "receive", "reset", "broadcast"} => lm[c] # NoCall

(* The waiter that took position 0 of an object stays the first of its     *)
(* list until it empties the list itself.                                  *)
HeirInv ==
    \A c \in Calls :
        /\ pc[c] = "reset" => myPos[c] = 0
        /\ pc[c] \in {"receive", "reset"} /\ myPos[c] = 0
           => /\ waiting[lm[c]] # <<>>
              /\ waiting[lm[c]][1] = c

LaunchIInv == LaunchTypeOK /\ BroadcastInv /\ ObjectInv /\ HeirInv

(* The specification starts in the inductive invariant.                    *)
LEMMA LaunchInitIInv == LaunchInit => LaunchIInv
  BY CallsAssumption
  DEF LaunchInit, LaunchIInv, LaunchTypeOK, BroadcastInv, ObjectInv, HeirInv, Labels,
      Undecided, Launching, Finishing, Over

(* Moving a call to a known label keeps the type of pc.                    *)
LEMMA GotoType ==
  ASSUME pc \in [Calls -> Labels], NEW c \in Calls, NEW label \in Labels, Goto(c, label)
  PROVE  pc' \in [Calls -> Labels]
  BY DEF Goto

(* Replacing one object's waiting list keeps the type of waiting.          *)
LEMMA WaitingType ==
  ASSUME NEW S, NEW w \in [Calls -> S], NEW l, NEW s \in S
  PROVE  [w EXCEPT ![l] = s] \in [Calls -> S]
  OBVIOUS

(* Every step keeps the types.                                             *)
LEMMA LaunchTypeStep == LaunchTypeOK /\ ObjectInv /\ [LaunchNext]_launchVars => LaunchTypeOK'
<1> SUFFICES ASSUME LaunchTypeOK, ObjectInv, [LaunchNext]_launchVars PROVE LaunchTypeOK'
  OBVIOUS
<1> USE CallsAssumption, TraderAssumption DEF LaunchTypeOK, handlerVars, cacheVars, callVars
<1>a. /\ {"getMonitor", "Wait", "append", "receive", "reset", "create", "addMonitor"}
            \subseteq Labels
      /\ {"Finished", "broadcast", "joined", "nilMonitor", "done"} \subseteq Labels
  BY DEF Labels, Undecided, Launching, Finishing, Over
<1>1. ASSUME NEW c \in Calls, FindMonitor(c) PROVE LaunchTypeOK'
  BY <1>1, <1>a, GotoType DEF FindMonitor
<1>2. ASSUME NEW c \in Calls, WaitLookup(c) PROVE LaunchTypeOK'
  <2>1. pc' \in [Calls -> Labels]
    BY <1>2, <1>a, GotoType DEF WaitLookup
  <2>2. /\ launching' \in [Traders -> Calls \cup {NoCall}]
        /\ lm' \in [Calls -> Calls \cup {NoCall}]
    BY ZenonT(30), <1>2 DEF WaitLookup
  <2>3. waiting' \in [Calls -> Seq(Calls)]
    <3>1. <<>> \in Seq(Calls)
      BY EmptySeq
    <3>2. [waiting EXCEPT ![c] = <<>>] \in [Calls -> Seq(Calls)]
      BY <3>1, WaitingType
    <3> QED
      BY <1>2, <3>2 DEF WaitLookup
  <2> QED
    BY <1>2, <2>1, <2>2, <2>3 DEF WaitLookup
<1>3. ASSUME NEW c \in Calls, WaitAppend(c) PROVE LaunchTypeOK'
  <2>1. pc' \in [Calls -> Labels]
    BY <1>3, <1>a, GotoType DEF WaitAppend
  <2>2. /\ myPos' \in [Calls -> Nat]
        /\ waiting' \in [Calls -> Seq(Calls)]
    <3>1. lm[c] \in Calls
      BY <1>3 DEF WaitAppend, ObjectInv
    <3>2. /\ Append(waiting[lm[c]], c) \in Seq(Calls)
          /\ Len(waiting[lm[c]]) \in Nat
      BY <3>1, AppendProperties, LenProperties
    <3>3. [waiting EXCEPT ![lm[c]] = Append(waiting[lm[c]], c)] \in [Calls -> Seq(Calls)]
      BY <3>2, WaitingType
    <3> QED
      BY <1>3, <3>1, <3>2, <3>3 DEF WaitAppend
  <2> QED
    BY <1>3, <2>1, <2>2 DEF WaitAppend
<1>4. ASSUME NEW c \in Calls, WaitReset(c) PROVE LaunchTypeOK'
  <2>1. pc' \in [Calls -> Labels]
    BY <1>4, <1>a, GotoType DEF WaitReset
  <2>2. waiting' \in [Calls -> Seq(Calls)]
    <3>1. <<>> \in Seq(Calls)
      BY EmptySeq
    <3>2. [waiting EXCEPT ![lm[c]] = <<>>] \in [Calls -> Seq(Calls)]
      BY <3>1, WaitingType
    <3> QED
      BY <1>4, <3>2 DEF WaitReset
  <2> QED
    BY <1>4, <2>1, <2>2 DEF WaitReset
<1>5. ASSUME NEW c \in Calls, CreateMonitor(c) PROVE LaunchTypeOK'
  BY <1>5, <1>a, GotoType DEF CreateMonitor
<1>6. ASSUME NEW c \in Calls, LaunchFails(c) PROVE LaunchTypeOK'
  BY <1>6, <1>a, GotoType DEF LaunchFails
<1>7. ASSUME NEW c \in Calls, AddMonitor(c) PROVE LaunchTypeOK'
  BY <1>7, <1>a, GotoType DEF AddMonitor
<1>8. ASSUME NEW c \in Calls, FinishedBegin(c) PROVE LaunchTypeOK'
  <2>1. pc' \in [Calls -> Labels] /\ isSuccess' \in [Calls -> BOOLEAN]
    BY <1>8, <1>a, GotoType DEF FinishedBegin, AfterFinished
  <2>2. /\ uidsMtx' \in Calls \cup {NoCall}
        /\ lm' \in [Calls -> Calls \cup {NoCall}]
        /\ sent' \in [Calls -> Nat]
    <3> DEFINE l == launching[TraderOf[c]]
    <3>1. CASE l = NoCall
      BY <1>8, <3>1 DEF FinishedBegin
    <3>2. CASE l # NoCall
      <4>1. l \in Calls
        BY <3>2
      <4>2. /\ uidsMtx' = c
            /\ lm' = [lm EXCEPT ![c] = l]
            /\ sent' = [sent EXCEPT ![c] = 0]
        BY <1>8, <3>2 DEF FinishedBegin
      <4> HIDE DEF l
      <4> QED
        BY <4>1, <4>2
    <3> QED
      BY <3>1, <3>2
  <2>3. UNCHANGED <<runningMons, launching, waiting, myPos>>
    BY <1>8 DEF FinishedBegin
  <2> QED
    BY <2>1, <2>2, <2>3
<1>9. ASSUME NEW c \in Calls, FinishedEnd(c) PROVE LaunchTypeOK'
  BY <1>9, <1>a, GotoType DEF FinishedEnd, AfterFinished
<1>10. ASSUME NEW c \in Calls, NEW d \in Calls, Send(c, d) PROVE LaunchTypeOK'
  <2>1. pc' \in [Calls -> Labels]
    BY <1>10, <1>a, GotoType DEF Send
  <2>2. sent' \in [Calls -> Nat]
    BY SMTT(30), <1>10 DEF Send
  <2> QED
    BY <1>10, <2>1, <2>2 DEF Send
<1>11. ASSUME NEW t \in Traders, RemoveMonitor(t) PROVE LaunchTypeOK'
  BY <1>11 DEF RemoveMonitor
<1>12. CASE UNCHANGED launchVars
  BY <1>12 DEF launchVars
<1> QED
  BY <1>1, <1>2, <1>3, <1>4, <1>5, <1>6, <1>7, <1>8, <1>9, <1>10, <1>11, <1>12 DEF LaunchNext, CallStep
-----------------------------------------------------------------------------
(* A step of call c keeps ObjectInv if c stays decided once it is, and     *)
(* only publishes itself, decided, or an object already published.         *)
LEMMA ObjectStep ==
  ASSUME LaunchTypeOK, ObjectInv, NEW c \in Calls,
         \A e \in Calls \ {c} : pc'[e] = pc[e] /\ lm'[e] = lm[e],
         pc[c] \notin Undecided => pc'[c] \notin Undecided,
         \A t \in Traders : \/ launching'[t] \in {launching[t], NoCall}
                            \/ launching'[t] = c /\ pc'[c] \notin Undecided,
         \/ lm'[c] = lm[c]
         \/ \E t \in Traders : lm'[c] = launching[t] /\ launching[t] # NoCall,
         pc'[c] \in {"append", "receive", "reset", "broadcast"} => lm'[c] # NoCall
  PROVE  ObjectInv'
<1>1. \A e \in Calls : pc[e] \notin Undecided => pc'[e] \notin Undecided
  OBVIOUS
<1>2. ASSUME NEW t \in Traders, launching'[t] # NoCall
      PROVE  pc'[launching'[t]] \notin Undecided
  BY <1>1, <1>2 DEF LaunchTypeOK, ObjectInv
<1>3. ASSUME NEW e \in Calls, lm'[e] # NoCall
      PROVE  pc'[lm'[e]] \notin Undecided
  BY ZenonT(30), <1>1, <1>3 DEF LaunchTypeOK, ObjectInv
<1>4. ASSUME NEW e \in Calls, pc'[e] \in {"append", "receive", "reset", "broadcast"}
      PROVE  lm'[e] # NoCall
  BY <1>4 DEF ObjectInv
<1> QED
  BY <1>2, <1>3, <1>4 DEF ObjectInv

(* A step that takes no position and touches no list keeps HeirInv.        *)
LEMMA HeirStep ==
  ASSUME HeirInv, UNCHANGED <<waiting, myPos>>,
         \A d \in Calls : pc'[d] \in {"receive", "reset"}
                          => /\ pc[d] \in {"receive", "reset"} /\ lm'[d] = lm[d]
                             /\ pc'[d] = "reset" => myPos[d] = 0
  PROVE  HeirInv'
  BY DEF HeirInv

(* Every step keeps the lock, object and heir parts of the invariant.      *)
LEMMA LaunchIInvStep == LaunchIInv /\ [LaunchNext]_launchVars => LaunchIInv'
<1> SUFFICES ASSUME LaunchIInv, [LaunchNext]_launchVars PROVE LaunchIInv'
  OBVIOUS
<1> USE CallsAssumption, TraderAssumption DEF LaunchIInv
<1>0. LaunchTypeOK'
  BY LaunchTypeStep
<1>1. ASSUME NEW c \in Calls, FindMonitor(c) PROVE BroadcastInv' /\ ObjectInv' /\ HeirInv'
  <2>1. /\ \A d \in Calls \ {c} : pc'[d] = pc[d]
        /\ pc[c] = "getMonitor" /\ pc'[c] \in {"joined", "Wait"}
        /\ UNCHANGED <<launching, waiting, uidsMtx, lm, myPos>>
    BY <1>1 DEF LaunchTypeOK, FindMonitor, Goto, cacheVars, callVars
  <2>2. BroadcastInv'
    BY <2>1 DEF BroadcastInv
  <2>3. pc[c] \in Undecided
    BY <2>1 DEF Undecided
  <2>4. ObjectInv'
    BY <2>1, <2>3, ObjectStep
  <2>5. HeirInv'
    <3>1. \A e \in Calls : pc'[e] \in {"receive", "reset"}
                        => /\ pc[e] \in {"receive", "reset"} /\ lm'[e] = lm[e]
                           /\ pc'[e] = "reset" => myPos[e] = 0
      BY <2>1 DEF HeirInv
    <3>2. UNCHANGED <<waiting, myPos>>
      BY <2>1
    <3> QED
      BY <3>1, <3>2, HeirStep
  <2> QED
    BY <2>2, <2>4, <2>5
<1>2. ASSUME NEW c \in Calls, WaitLookup(c) PROVE BroadcastInv' /\ ObjectInv' /\ HeirInv'
  <2> USE <1>2 DEF LaunchTypeOK, WaitLookup, Goto, handlerVars
  <2>1. BroadcastInv'
    BY DEF BroadcastInv
  <2>2. ObjectInv'
    <3>1. CASE launching[TraderOf[c]] = NoCall
      BY ZenonT(30), <3>1, ObjectStep DEF Undecided
    <3>2. CASE launching[TraderOf[c]] # NoCall
      BY <3>2, ObjectStep DEF Undecided
    <3> QED
      BY <3>1, <3>2
  <2>3. HeirInv'
    <3>1. \A d \in Calls : lm[d] # c
      BY DEF ObjectInv, Undecided
    <3>2. /\ \A d \in Calls \ {c} : pc'[d] = pc[d] /\ lm'[d] = lm[d]
          /\ pc'[c] \notin {"receive", "reset"}
          /\ \A d \in Calls \ {c} : waiting'[d] = waiting[d]
          /\ myPos' = myPos
      OBVIOUS
    <3>3. \A d \in Calls : pc[d] \in {"receive", "reset"} => lm[d] \in Calls \ {c}
      BY <3>1 DEF ObjectInv
    <3>4. ASSUME NEW d \in Calls, pc'[d] \in {"receive", "reset"}
          PROVE  /\ d # c /\ pc[d] = pc'[d] /\ lm'[d] = lm[d] /\ myPos'[d] = myPos[d]
                 /\ waiting'[lm'[d]] = waiting[lm[d]]
      BY <3>2, <3>3, <3>4
    <3> QED
      BY ZenonT(30), <3>4 DEF HeirInv
  <2> QED
    BY <2>1, <2>2, <2>3
<1>3. ASSUME NEW c \in Calls, WaitAppend(c) PROVE BroadcastInv' /\ ObjectInv' /\ HeirInv'
  <2> USE <1>3 DEF LaunchTypeOK, WaitAppend, Goto, handlerVars
  <2>1. BroadcastInv' /\ ObjectInv'
    BY DEF BroadcastInv, ObjectInv, Undecided
  <2>2. HeirInv'
    <3> DEFINE w == waiting[lm[c]]
    <3>1. lm[c] \in Calls /\ w \in Seq(Calls)
      BY DEF ObjectInv
    <3>2. /\ waiting' = [waiting EXCEPT ![lm[c]] = Append(w, c)]
          /\ Append(w, c) # <<>>
          /\ w # <<>> => Append(w, c)[1] = w[1]
          /\ Len(w) = 0 => Append(w, c)[1] = c
      BY SMTT(30), <3>1, AppendProperties, EmptySeq, LenProperties
    <3>3. /\ \A d \in Calls \ {c} : pc'[d] = pc[d] /\ myPos'[d] = myPos[d]
          /\ pc'[c] = "receive" /\ myPos'[c] = Len(w)
          /\ lm' = lm
      OBVIOUS
    <3> HIDE DEF w
    <3>4. ASSUME NEW d \in Calls, pc'[d] \in {"receive", "reset"}, myPos'[d] = 0
          PROVE  waiting'[lm[d]] # <<>> /\ waiting'[lm[d]][1] = d
      <4>1. CASE d = c
        BY <3>1, <3>2, <3>3, <3>4, <4>1
      <4>2. CASE d # c
        <5>1. waiting[lm[d]] # <<>> /\ waiting[lm[d]][1] = d
          BY <3>3, <3>4, <4>2 DEF HeirInv
        <5>2. CASE lm[d] = lm[c]
          BY <3>1, <3>2, <5>1, <5>2 DEF w
        <5>3. CASE lm[d] # lm[c]
          BY <3>2, <5>1, <5>3
        <5> QED
          BY <5>2, <5>3
      <4> QED
        BY <4>1, <4>2
    <3> QED
      BY ZenonT(30), <3>3, <3>4 DEF HeirInv
  <2> QED
    BY <2>1, <2>2
<1>4. ASSUME NEW c \in Calls, WaitReset(c) PROVE BroadcastInv' /\ ObjectInv' /\ HeirInv'
  <2> USE <1>4 DEF LaunchTypeOK, WaitReset, Goto, handlerVars, callVars
  <2>1. BroadcastInv' /\ ObjectInv'
    BY DEF BroadcastInv, ObjectInv, Undecided
  <2>2. HeirInv'
    <3>1. \A d \in Calls : /\ pc[d] \in {"receive", "reset"} /\ myPos[d] = 0
                           /\ lm[d] = lm[c]
                           => d = c
      BY ZenonT(30) DEF HeirInv
    <3> QED
      BY <3>1 DEF HeirInv
  <2> QED
    BY <2>1, <2>2
<1>5. ASSUME NEW c \in Calls, CreateMonitor(c) \/ LaunchFails(c) \/ AddMonitor(c)
      PROVE  BroadcastInv' /\ ObjectInv' /\ HeirInv'
  <2>1. /\ pc[c] \in {"create", "addMonitor"} /\ pc'[c] \in {"addMonitor", "Finished"}
        /\ \A d \in Calls \ {c} : pc'[d] = pc[d]
        /\ UNCHANGED <<launching, waiting, uidsMtx, lm, myPos>>
    BY <1>5 DEF LaunchTypeOK, CreateMonitor, LaunchFails, AddMonitor, Goto, cacheVars, callVars
  <2>2. BroadcastInv'
    BY <2>1 DEF BroadcastInv
  <2>3. ObjectInv'
    BY <2>1 DEF LaunchTypeOK, ObjectInv, Undecided
  <2>4. HeirInv'
    BY <2>1 DEF LaunchTypeOK, HeirInv
  <2> QED
    BY <2>2, <2>3, <2>4
<1>6. ASSUME NEW c \in Calls, FinishedBegin(c) \/ FinishedEnd(c)
      PROVE  BroadcastInv' /\ ObjectInv' /\ HeirInv'
  <2>1. BroadcastInv'
    BY <1>6 DEF LaunchTypeOK, FinishedBegin, FinishedEnd, AfterFinished, Goto, BroadcastInv
  <2>2. /\ \A d \in Calls \ {c} : pc'[d] = pc[d] /\ lm'[d] = lm[d]
        /\ pc'[c] \in {"Finished", "broadcast", "done"}
        /\ waiting' = waiting /\ myPos' = myPos
    BY <1>6 DEF LaunchTypeOK, FinishedBegin, FinishedEnd, AfterFinished, Goto
  <2>3. \A t \in Traders : launching'[t] \in {launching[t], NoCall}
    BY <1>6 DEF LaunchTypeOK, FinishedBegin, FinishedEnd
  <2>4. /\ \/ lm'[c] = lm[c]
           \/ lm'[c] = launching[TraderOf[c]] /\ launching[TraderOf[c]] # NoCall
        /\ pc'[c] = "broadcast" => lm'[c] # NoCall
    BY <1>6 DEF LaunchTypeOK, FinishedBegin, FinishedEnd, AfterFinished, Goto
  <2>5. /\ pc'[c] \notin Undecided
        /\ TraderOf[c] \in Traders
    BY <2>2 DEF Undecided
  <2>6. ObjectInv'
    BY <2>2, <2>3, <2>4, <2>5, ObjectStep
  <2>7. HeirInv'
    <3>1. \A e \in Calls : pc'[e] \in {"receive", "reset"}
                        => /\ pc[e] \in {"receive", "reset"} /\ lm'[e] = lm[e]
                           /\ pc'[e] = "reset" => myPos[e] = 0
      BY <2>2 DEF HeirInv
    <3>2. UNCHANGED <<waiting, myPos>>
      BY <2>2
    <3> QED
      BY <3>1, <3>2, HeirStep
  <2> QED
    BY <2>1, <2>6, <2>7
<1>7. ASSUME NEW c \in Calls, NEW d \in Calls, Send(c, d)
      PROVE  BroadcastInv' /\ ObjectInv' /\ HeirInv'
  <2>1. /\ \A e \in Calls \ {d} : pc'[e] = pc[e]
        /\ pc[d] = "receive" /\ pc'[d] \in {"nilMonitor", "reset", "Wait"}
        /\ pc'[d] = "reset" => myPos[d] = 0
        /\ UNCHANGED <<launching, waiting, uidsMtx, lm, myPos>>
    BY <1>7 DEF LaunchTypeOK, Send, Goto, cacheVars
  <2>2. BroadcastInv'
    BY <2>1 DEF BroadcastInv
  <2>3. pc[d] \in Undecided
    BY <2>1 DEF Undecided
  <2>4. lm'[d] # NoCall
    BY <2>1 DEF ObjectInv
  <2>5. ObjectInv'
    BY <2>1, <2>3, <2>4, ObjectStep
  <2>6. HeirInv'
    <3>1. \A e \in Calls : pc'[e] \in {"receive", "reset"}
                        => /\ pc[e] \in {"receive", "reset"} /\ lm'[e] = lm[e]
                           /\ pc'[e] = "reset" => myPos[e] = 0
      BY <2>1 DEF HeirInv
    <3>2. UNCHANGED <<waiting, myPos>>
      BY <2>1
    <3> QED
      BY <3>1, <3>2, HeirStep
  <2> QED
    BY <2>2, <2>5, <2>6
<1>8. ASSUME NEW t \in Traders, RemoveMonitor(t) PROVE BroadcastInv' /\ ObjectInv' /\ HeirInv'
  BY <1>8 DEF RemoveMonitor, cacheVars, callVars, BroadcastInv, ObjectInv, HeirInv
<1>9. CASE UNCHANGED launchVars
  BY <1>0, <1>9 DEF launchVars, BroadcastInv, ObjectInv, HeirInv
<1> QED
  BY <1>0, <1>1, <1>2, <1>3, <1>4, <1>5, <1>6, <1>7, <1>8, <1>9 DEF LaunchNext, CallStep

(* The invariant holds in every reachable state.                           *)
LEMMA LaunchInductive == LaunchSpec => []LaunchIInv
  BY LaunchInitIInv, LaunchIInvStep, PTL DEF LaunchSpec

(* LaunchTypeOK for any number of calls and traders.                             *)
THEOREM LaunchTypeCorrect == LaunchSpec => []LaunchTypeOK
<1>1. LaunchIInv => LaunchTypeOK
  BY DEF LaunchIInv
<1> QED
  BY <1>1, LaunchInductive, PTL

(* A failed launch is inherited by one waiter at most (Wait, lines 60-66), *)
(* however many calls wait and however often launches fail.                *)
THEOREM HeirIsUnique == LaunchSpec => []OneHeir
<1>1. LaunchIInv => OneHeir
  <2> SUFFICES ASSUME LaunchIInv, NEW c \in Calls, NEW d \in Calls,
                      pc[c] = "reset", pc[d] = "reset", lm[c] = lm[d]
               PROVE  c = d
    BY DEF OneHeir
  <2>1. waiting[lm[c]][1] = c /\ waiting[lm[d]][1] = d
    BY DEF LaunchIInv, HeirInv
  <2> QED
    BY <2>1
<1> QED
  BY <1>1, LaunchInductive, PTL

(* Finished's two mutexes do protect the list it ranges over and the map   *)
(* of objects, whatever the other calls do meanwhile.                      *)
THEOREM BroadcastStable == LaunchSpec => BroadcastIsStable
<1>1. ASSUME LaunchIInv, [LaunchNext]_launchVars, NEW c \in Calls, uidsMtx = c, uidsMtx' = c
      PROVE  launching' = launching /\ waiting'[lm[c]] = waiting[lm[c]]
  <2> USE <1>1, CallsAssumption DEF LaunchIInv
  <2>1. pc[c] = "broadcast" /\ uidsMtx # NoCall /\ lm[c] \in Calls
    BY DEF BroadcastInv, ObjectInv, LaunchTypeOK
  <2>2. ASSUME NEW d \in Calls, WaitAppend(d)
        PROVE  launching' = launching /\ waiting'[lm[c]] = waiting[lm[c]]
    BY <2>1, <2>2 DEF WaitAppend, LmMtxFree, LaunchTypeOK
  <2>3. ASSUME NEW d \in Calls, WaitReset(d)
        PROVE  launching' = launching /\ waiting'[lm[c]] = waiting[lm[c]]
    BY <2>1, <2>3 DEF WaitReset, LmMtxFree, LaunchTypeOK
  <2>4. ASSUME NEW d \in Calls, NEW e \in Calls,
               \/ FindMonitor(d) \/ CreateMonitor(d) \/ LaunchFails(d)
               \/ AddMonitor(d) \/ Send(d, e)
        PROVE  launching' = launching /\ waiting'[lm[c]] = waiting[lm[c]]
    BY <2>4 DEF FindMonitor, CreateMonitor, LaunchFails, AddMonitor, Send, cacheVars
  <2>5. ASSUME NEW t \in Traders, RemoveMonitor(t)
        PROVE  launching' = launching /\ waiting'[lm[c]] = waiting[lm[c]]
    BY <2>5 DEF RemoveMonitor, cacheVars
  <2>6. ASSUME NEW d \in Calls
        PROVE  ~ WaitLookup(d) /\ ~ FinishedBegin(d) /\ ~ FinishedEnd(d)
    BY <2>1 DEF WaitLookup, FinishedBegin, FinishedEnd
  <2>7. CASE UNCHANGED launchVars
    BY <2>7 DEF launchVars
  <2> QED
    BY <2>2, <2>3, <2>4, <2>5, <2>6, <2>7 DEF LaunchNext, CallStep
<1>2. LaunchIInv /\ [LaunchNext]_launchVars
      => [\A c \in Calls :
             uidsMtx = c /\ uidsMtx' = c
             => launching' = launching /\ waiting'[lm[c]] = waiting[lm[c]]]_launchVars
  BY <1>1
<1> QED
  BY <1>2, LaunchInductive, PTL DEF LaunchSpec, BroadcastIsStable
-----------------------------------------------------------------------------
(* An object is created for the trader whose entry it is.                  *)
TraderInv == \A t \in Traders : launching[t] # NoCall => TraderOf[launching[t]] = t

(* A broadcast works through the list of its trader's object, and one of a *)
(* failure makes its first receiver the heir. Who was served waits no more *)
(* and cannot come back before the broadcast is over.                      *)
RangeInv ==
    \A c \in Calls : pc[c] = "broadcast" =>
        /\ launching[TraderOf[c]] = lm[c]
        /\ sent[c] <= Len(waiting[lm[c]])
        /\ ~ isSuccess[c] /\ sent[c] > 0 => HeirPending(lm[c])
        /\ \A i \in 1 .. sent[c] : LET d == waiting[lm[c]][i] IN
              /\ pc[d] \in {"nilMonitor", "reset", "Wait"}
              /\ pc[d] = "reset" => lm[d] = lm[c]

(* Entry i of object l: a broadcast of a success has served it, or the     *)
(* call that appended it is still blocked on its channel.                  *)
Answered(l, i) ==
    \E c \in Calls : pc[c] = "broadcast" /\ lm[c] = l /\ isSuccess[c] /\ i <= sent[c]
Blocked(l, i) ==
    LET d == waiting[l][i] IN pc[d] = "receive" /\ lm[d] = l /\ myPos[d] = i - 1

(* The list of an object with an entry is in order, unless the heir of its *)
(* failed launch has still to empty it.                                    *)
Orderly(l) ==
    HeirPending(l) \/ \A i \in 1 .. Len(waiting[l]) : Answered(l, i) \/ Blocked(l, i)
QueueInv == \A t \in Traders : launching[t] # NoCall => Orderly(launching[t])

ListIInv == LaunchIInv /\ TraderInv /\ RangeInv /\ QueueInv

(* An entry is created for its own trader, and deleted as a whole.         *)
LEMMA TraderStep ==
  ASSUME LaunchIInv, TraderInv, [LaunchNext]_launchVars
  PROVE  TraderInv'
<1> USE CallsAssumption, TraderAssumption DEF LaunchIInv, LaunchTypeOK, handlerVars, cacheVars
<1>1. ASSUME NEW c \in Calls, WaitLookup(c) PROVE TraderInv'
  <2>1. CASE launching' = launching
    BY <2>1 DEF TraderInv
  <2>2. CASE launching' = [launching EXCEPT ![TraderOf[c]] = c]
    BY <2>2 DEF TraderInv
  <2> QED
    BY <1>1, <2>1, <2>2 DEF WaitLookup
<1>2. ASSUME NEW c \in Calls, FinishedEnd(c) PROVE TraderInv'
  BY <1>2 DEF FinishedEnd, TraderInv
<1>3. CASE launching' = launching
  BY <1>3 DEF TraderInv
<1>4. ASSUME NEW c \in Calls, CallStep(c) PROVE TraderInv'
  BY <1>1, <1>2, <1>3, <1>4
  DEF CallStep, FindMonitor, WaitAppend, WaitReset, CreateMonitor, LaunchFails, AddMonitor,
      FinishedBegin, Send
<1>5. ASSUME NEW t \in Traders, RemoveMonitor(t) PROVE TraderInv'
  BY <1>3, <1>5 DEF RemoveMonitor
<1>6. CASE UNCHANGED launchVars
  BY <1>3, <1>6 DEF launchVars
<1> QED
  BY <1>4, <1>5, <1>6 DEF LaunchNext

(* What goes on while a broadcast holds its two mutexes: the list and the  *)
(* map stay, and whoever was served stays where it is.                     *)
LEMMA DuringBroadcast ==
  ASSUME LaunchIInv, [LaunchNext]_launchVars, NEW c \in Calls,
         pc[c] = "broadcast", pc'[c] = "broadcast"
  PROVE  /\ UNCHANGED <<launching, lm>>
         /\ waiting'[lm[c]] = waiting[lm[c]] /\ isSuccess'[c] = isSuccess[c]
         /\ \A d \in Calls : \/ pc[d] \in {"nilMonitor", "Wait"}
                             \/ pc[d] = "reset" /\ lm[d] = lm[c]
                             => pc'[d] = pc[d]
         /\ sent'[c] = sent[c] \/ \E d \in Calls : Send(c, d)
<1> DEFINE Kept == /\ UNCHANGED <<launching, lm>>
                   /\ waiting'[lm[c]] = waiting[lm[c]] /\ isSuccess'[c] = isSuccess[c]
                   /\ \A d \in Calls : \/ pc[d] \in {"nilMonitor", "Wait"}
                                       \/ pc[d] = "reset" /\ lm[d] = lm[c]
                                       => pc'[d] = pc[d]
                   /\ sent'[c] = sent[c] \/ \E d \in Calls : Send(c, d)
<1> USE CallsAssumption DEF LaunchIInv, LaunchTypeOK, handlerVars, cacheVars, callVars, Goto
<1>1. uidsMtx = c /\ c # NoCall /\ lm[c] \in Calls
  BY DEF BroadcastInv, ObjectInv
<1>2. ASSUME NEW d \in Calls, FindMonitor(d) \/ CreateMonitor(d) PROVE Kept
  <2>1. /\ UNCHANGED <<launching, lm, waiting, isSuccess, sent>>
        /\ pc[d] \in {"getMonitor", "create"} /\ \A e \in Calls \ {d} : pc'[e] = pc[e]
    BY <1>2 DEF FindMonitor, CreateMonitor
  <2> QED
    BY <2>1
<1>3. ASSUME NEW d \in Calls, LaunchFails(d) \/ AddMonitor(d) PROVE Kept
  <2>1. /\ UNCHANGED <<launching, lm, waiting, sent>> /\ isSuccess'[c] = isSuccess[c]
        /\ pc[d] \in {"create", "addMonitor"} /\ \A e \in Calls \ {d} : pc'[e] = pc[e]
    BY <1>3 DEF LaunchFails, AddMonitor
  <2> QED
    BY <2>1
<1>4. ASSUME NEW d \in Calls, WaitAppend(d) PROVE Kept
  <2>1. /\ UNCHANGED <<launching, lm, isSuccess, sent>> /\ lm[d] # lm[c]
        /\ waiting'[lm[c]] = waiting[lm[c]]
        /\ pc[d] = "append" /\ \A e \in Calls \ {d} : pc'[e] = pc[e]
    BY <1>1, <1>4 DEF WaitAppend, LmMtxFree
  <2> QED
    BY <2>1
<1>5. ASSUME NEW d \in Calls, WaitReset(d) PROVE Kept
  <2>1. /\ UNCHANGED <<launching, lm, isSuccess, sent>> /\ lm[d] # lm[c]
        /\ waiting'[lm[c]] = waiting[lm[c]]
        /\ pc[d] = "reset" /\ \A e \in Calls \ {d} : pc'[e] = pc[e]
    BY <1>1, <1>5 DEF WaitReset, LmMtxFree
  <2> QED
    BY <2>1
<1>6. ASSUME NEW d \in Calls, WaitLookup(d) \/ FinishedBegin(d) \/ FinishedEnd(d)
      PROVE  FALSE
  <2>1. ~ WaitLookup(d) /\ ~ FinishedBegin(d)
    BY <1>1 DEF WaitLookup, FinishedBegin
  <2>2. ASSUME FinishedEnd(d) PROVE FALSE
    <3>1. d = c
      BY <1>1, <2>2 DEF FinishedEnd, BroadcastInv
    <3> QED
      BY <2>2, <3>1 DEF FinishedEnd, AfterFinished
  <2> QED
    BY <1>6, <2>1, <2>2
<1>7. ASSUME NEW b \in Calls, NEW d \in Calls, Send(b, d) PROVE Kept
  <2>1. b = c
    BY <1>1, <1>7 DEF Send, BroadcastInv
  <2>2. /\ UNCHANGED <<launching, lm, waiting, isSuccess>>
        /\ pc[d] = "receive" /\ \A e \in Calls \ {d} : pc'[e] = pc[e]
    BY <1>7 DEF Send
  <2> QED
    BY <1>7, <2>1, <2>2
<1>8. ASSUME NEW t \in Traders, RemoveMonitor(t) PROVE Kept
  BY <1>8 DEF RemoveMonitor
<1>9. CASE UNCHANGED launchVars
  BY <1>9 DEF launchVars
<1> QED
  BY <1>2, <1>3, <1>4, <1>5, <1>6, <1>7, <1>8, <1>9 DEF LaunchNext, CallStep

(* A broadcast begins at the front of its list and goes on in order.       *)
LEMMA RangeStep ==
  ASSUME ListIInv, [LaunchNext]_launchVars
  PROVE  RangeInv'
<1> USE CallsAssumption DEF ListIInv, LaunchIInv
<1>t. LaunchTypeOK'
  BY LaunchTypeStep
<1> SUFFICES ASSUME NEW c \in Calls, pc'[c] = "broadcast"
             PROVE  /\ launching'[TraderOf[c]] = lm'[c]
                    /\ sent'[c] <= Len(waiting'[lm'[c]])
                    /\ ~ isSuccess'[c] /\ sent'[c] > 0 => HeirPending(lm[c])'
                    /\ \A i \in 1 .. sent'[c] :
                          /\ pc'[waiting'[lm'[c]][i]] \in {"nilMonitor", "reset", "Wait"}
                          /\ pc'[waiting'[lm'[c]][i]] = "reset"
                             => lm'[waiting'[lm'[c]][i]] = lm'[c]
  BY DEF RangeInv
<1>1. CASE pc[c] # "broadcast"
  <2>1. FinishedBegin(c)
    <3> USE <1>1 DEF LaunchTypeOK, Goto
    <3>1. ASSUME NEW d \in Calls,
                 FindMonitor(d) \/ WaitLookup(d) \/ WaitAppend(d) \/ WaitReset(d)
          PROVE  FALSE
      BY <3>1 DEF FindMonitor, WaitLookup, WaitAppend, WaitReset
    <3>2. ASSUME NEW d \in Calls, CreateMonitor(d) \/ LaunchFails(d) \/ AddMonitor(d)
          PROVE  FALSE
      BY <3>2 DEF CreateMonitor, LaunchFails, AddMonitor
    <3>3. ASSUME NEW d \in Calls, FinishedBegin(d) PROVE d = c
      BY <3>3 DEF FinishedBegin, AfterFinished
    <3>4. ASSUME NEW d \in Calls, FinishedEnd(d) PROVE FALSE
      BY <3>4 DEF FinishedEnd, AfterFinished
    <3>5. ASSUME NEW b \in Calls, NEW d \in Calls, Send(b, d) PROVE FALSE
      BY <3>5 DEF Send
    <3>6. ASSUME NEW t \in Traders, RemoveMonitor(t) PROVE FALSE
      BY <3>6 DEF RemoveMonitor
    <3>7. ~ UNCHANGED launchVars
      BY DEF launchVars
    <3> QED
      BY <3>1, <3>2, <3>3, <3>4, <3>5, <3>6, <3>7 DEF LaunchNext, CallStep
  <2>2. /\ sent'[c] = 0 /\ lm'[c] = launching[TraderOf[c]] /\ launching' = launching
        /\ waiting' = waiting /\ lm'[c] # NoCall
    BY <1>1, <2>1 DEF FinishedBegin, AfterFinished, Goto, LaunchTypeOK
  <2>3. lm'[c] \in Calls /\ waiting[lm'[c]] \in Seq(Calls)
    BY <1>t, <2>2 DEF LaunchTypeOK
  <2>4. Len(waiting[lm'[c]]) >= 0
    BY <2>3, LenProperties
  <2> QED
    BY <2>2, <2>4
<1>2. CASE pc[c] = "broadcast"
  <2>1. /\ UNCHANGED <<launching, lm>>
        /\ waiting'[lm[c]] = waiting[lm[c]] /\ isSuccess'[c] = isSuccess[c]
        /\ \A d \in Calls : \/ pc[d] \in {"nilMonitor", "Wait"}
                            \/ pc[d] = "reset" /\ lm[d] = lm[c]
                            => pc'[d] = pc[d]
    BY <1>2, DuringBroadcast
  <2>2. /\ launching[TraderOf[c]] = lm[c] /\ lm[c] \in Calls
        /\ waiting[lm[c]] \in Seq(Calls) /\ sent[c] \in Nat
        /\ sent[c] <= Len(waiting[lm[c]]) /\ Len(waiting[lm[c]]) \in Nat
    BY <1>2, LenProperties DEF RangeInv, ObjectInv, LaunchTypeOK
  <2>3. ASSUME HeirPending(lm[c]) PROVE HeirPending(lm[c])'
    BY <2>1, <2>3 DEF HeirPending
  <2>4. ASSUME NEW i \in 1 .. sent[c]
        PROVE  /\ pc'[waiting[lm[c]][i]] \in {"nilMonitor", "reset", "Wait"}
               /\ pc'[waiting[lm[c]][i]] = "reset" => lm[waiting[lm[c]][i]] = lm[c]
    <3>1. waiting[lm[c]][i] \in Calls
      BY <2>2, ElementOfSeq
    <3> QED
      BY <1>2, <2>1, <3>1 DEF RangeInv
  <2>5. CASE sent'[c] = sent[c]
    BY <1>2, <2>1, <2>2, <2>3, <2>4, <2>5 DEF RangeInv
  <2>6. ASSUME NEW d \in Calls, Send(c, d)
        PROVE  /\ sent'[c] = sent[c] + 1 /\ sent'[c] <= Len(waiting[lm[c]])
               /\ waiting[lm[c]][sent'[c]] = d /\ lm[d] = lm[c]
               /\ pc'[d] \in {"nilMonitor", "reset", "Wait"}
               /\ ~ isSuccess[c] /\ sent[c] = 0 => pc'[d] = "reset"
    BY <2>2, <2>6 DEF Send, Goto, LaunchTypeOK
  <2>7. ASSUME NEW d \in Calls, Send(c, d)
        PROVE  /\ sent'[c] <= Len(waiting'[lm'[c]])
               /\ ~ isSuccess'[c] => HeirPending(lm[c])'
               /\ \A i \in 1 .. sent'[c] :
                     /\ pc'[waiting'[lm'[c]][i]] \in {"nilMonitor", "reset", "Wait"}
                     /\ pc'[waiting'[lm'[c]][i]] = "reset"
                        => lm'[waiting'[lm'[c]][i]] = lm'[c]
    <3>1. ASSUME ~ isSuccess[c] PROVE HeirPending(lm[c])'
      <4>1. CASE sent[c] = 0
        BY <2>1, <2>6, <2>7, <3>1, <4>1 DEF HeirPending
      <4>2. CASE sent[c] > 0
        BY <1>2, <2>3, <3>1, <4>2 DEF RangeInv
      <4> QED
        BY <2>2, <4>1, <4>2
    <3>2. \A i \in 1 .. sent'[c] : i \in 1 .. sent[c] \/ i = sent'[c]
      BY <2>2, <2>6, <2>7
    <3>3. /\ sent'[c] <= Len(waiting[lm[c]]) /\ waiting[lm[c]][sent'[c]] = d
          /\ lm[d] = lm[c] /\ pc'[d] \in {"nilMonitor", "reset", "Wait"}
      BY <2>6, <2>7
    <3>4. ASSUME NEW i \in 1 .. sent'[c]
          PROVE  /\ pc'[waiting[lm[c]][i]] \in {"nilMonitor", "reset", "Wait"}
                 /\ pc'[waiting[lm[c]][i]] = "reset" => lm[waiting[lm[c]][i]] = lm[c]
      BY <2>4, <3>2, <3>3
    <3> QED
      BY <2>1, <3>1, <3>3, <3>4
  <2> QED
    BY <1>2, <2>1, <2>2, <2>5, <2>7, DuringBroadcast
<1> QED
  BY <1>1, <1>2

(* What keeps an object's list in order: its entries, its heir, its        *)
(* receivers and the success that is being told stay.                      *)
LEMMA OrderlyKept ==
  ASSUME NEW l \in Calls, Orderly(l), waiting \in [Calls -> Seq(Calls)], sent \in [Calls -> Nat],
         waiting'[l] = waiting[l],
         \A h \in Calls : pc[h] = "reset" /\ lm[h] = l => pc'[h] = "reset" /\ lm'[h] = l,
         \A d \in Calls : pc[d] = "receive" /\ lm[d] = l
                          => pc'[d] = "receive" /\ lm'[d] = l /\ myPos'[d] = myPos[d],
         \A c \in Calls : pc[c] = "broadcast" /\ lm[c] = l /\ isSuccess[c]
                          => /\ pc'[c] = "broadcast" /\ lm'[c] = l /\ isSuccess'[c]
                             /\ sent'[c] = sent[c]
  PROVE  Orderly(l)'
<1>1. HeirPending(l) => HeirPending(l)'
  BY DEF HeirPending
<1>2. ASSUME NEW i \in 1 .. Len(waiting[l]), Answered(l, i) PROVE Answered(l, i)'
  BY <1>2 DEF Answered
<1>3. ASSUME NEW i \in 1 .. Len(waiting[l]), Blocked(l, i) PROVE Blocked(l, i)'
  <2>1. waiting[l][i] \in Calls
    BY ElementOfSeq
  <2> QED
    BY <1>3, <2>1 DEF Blocked
<1> QED
  BY <1>1, <1>2, <1>3 DEF Orderly

(* The list of every object that has an entry afterwards is in order.      *)
LEMMA QueueFrom ==
  ASSUME LaunchTypeOK',
         \A l \in Calls : (\E t \in Traders : launching'[t] = l) => Orderly(l)'
  PROVE  QueueInv'
<1> SUFFICES ASSUME NEW t \in Traders, launching'[t] # NoCall
             PROVE  Orderly(launching[t])'
  BY DEF QueueInv
<1>1. PICK l \in Calls : l = launching'[t]
  BY DEF LaunchTypeOK
<1>2. Orderly(l)'
  BY <1>1
<1> QED
  BY <1>1, <1>2 DEF Orderly, HeirPending, Answered, Blocked

(* Every step keeps every object's list in order.                          *)
LEMMA QueueStep ==
  ASSUME ListIInv, [LaunchNext]_launchVars
  PROVE  QueueInv'
<1> USE CallsAssumption, TraderAssumption DEF ListIInv, LaunchIInv, LaunchTypeOK, Goto
<1>t. LaunchTypeOK'
  BY LaunchTypeStep
<1> SUFFICES ASSUME NEW l \in Calls, NEW t \in Traders, launching'[t] = l
             PROVE  Orderly(l)'
  BY <1>t, QueueFrom
<1> DEFINE Old == launching[t] = l
<1>o. ASSUME Old
      PROVE  Orderly(l) /\ pc[l] \notin Undecided /\ TraderOf[l] = t
  BY <1>o DEF QueueInv, ObjectInv, TraderInv
<1>1. ASSUME NEW c \in Calls, FindMonitor(c) \/ CreateMonitor(c) \/ LaunchFails(c) \/ AddMonitor(c)
      PROVE  Orderly(l)'
  <2>1. /\ UNCHANGED <<launching, waiting, lm, myPos, sent>>
        /\ pc[c] \in {"getMonitor", "create", "addMonitor"}
        /\ \A d \in Calls \ {c} : pc'[d] = pc[d] /\ isSuccess'[d] = isSuccess[d]
    BY <1>1 DEF FindMonitor, CreateMonitor, LaunchFails, AddMonitor, cacheVars, callVars
  <2> QED
    BY <1>o, <2>1, OrderlyKept
<1>2. ASSUME NEW c \in Calls, WaitLookup(c) PROVE Orderly(l)'
  <2>1. /\ pc[c] = "Wait" /\ UNCHANGED <<myPos, isSuccess, sent>>
        /\ \A d \in Calls \ {c} : pc'[d] = pc[d] /\ lm'[d] = lm[d] /\ waiting'[d] = waiting[d]
    BY <1>2 DEF WaitLookup
  <2>2. CASE Old
    <3>1. l # c /\ Orderly(l)
      BY <1>o, <2>1, <2>2 DEF Undecided
    <3>2. waiting'[l] = waiting[l]
      BY <2>1, <3>1
    <3> QED
      BY <2>1, <3>1, <3>2, OrderlyKept
  <2>3. CASE ~ Old
    <3>1. launching[TraderOf[c]] = NoCall /\ l = c
      BY <1>2, <2>3 DEF WaitLookup
    <3>2. waiting'[l] = <<>>
      BY <1>2, <3>1 DEF WaitLookup
    <3> QED
      BY <3>2 DEF Orderly
  <2> QED
    BY <2>2, <2>3
<1>3. ASSUME NEW c \in Calls, WaitAppend(c) PROVE Orderly(l)'
  <2>1. /\ pc[c] = "append" /\ pc'[c] = "receive" /\ UNCHANGED <<launching, lm, isSuccess, sent>>
        /\ \A d \in Calls \ {c} : pc'[d] = pc[d] /\ myPos'[d] = myPos[d]
        /\ lm[c] \in Calls /\ LmMtxFree(lm[c])
        /\ myPos'[c] = Len(waiting[lm[c]])
        /\ waiting'[lm[c]] = Append(waiting[lm[c]], c)
        /\ \A k \in Calls \ {lm[c]} : waiting'[k] = waiting[k]
    BY <1>3 DEF WaitAppend, handlerVars, ObjectInv
  <2>2. Old /\ Orderly(l)
    BY <1>o, <2>1
  <2>3. CASE l # lm[c]
    BY <2>1, <2>2, <2>3, OrderlyKept
  <2>4. CASE l = lm[c] /\ HeirPending(l)
    BY <2>1, <2>4 DEF Orderly, HeirPending
  <2>5. CASE l = lm[c] /\ ~ HeirPending(l)
    <3> DEFINE w == waiting[l]
    <3>1. /\ w \in Seq(Calls) /\ Len(w) \in Nat
          /\ Len(Append(w, c)) = Len(w) + 1 /\ Append(w, c)[Len(w) + 1] = c
          /\ \A i \in 1 .. Len(w) : Append(w, c)[i] = w[i] /\ w[i] \in Calls
      BY LenProperties, AppendProperties, ElementOfSeq
    <3>2. \A i \in 1 .. Len(w) : Blocked(l, i)
      BY <2>1, <2>2, <2>5 DEF Orderly, Answered, LmMtxFree
    <3>3. waiting'[l] = Append(w, c)
      BY <2>1, <2>5
    <3>4. ASSUME NEW i \in 1 .. Len(w) PROVE Blocked(l, i)'
      <4>1. /\ waiting'[l][i] = w[i] /\ w[i] \in Calls
            /\ pc[w[i]] = "receive" /\ lm[w[i]] = l /\ myPos[w[i]] = i - 1
        BY <3>1, <3>2, <3>3 DEF Blocked
      <4>2. w[i] # c
        BY <2>1, <4>1
      <4>3. pc'[w[i]] = "receive" /\ lm'[w[i]] = l /\ myPos'[w[i]] = i - 1
        BY <2>1, <4>1, <4>2
      <4> HIDE DEF w
      <4> QED
        BY <4>1, <4>3 DEF Blocked
    <3>n. PICK n \in Nat : n = Len(w)
      BY <3>1
    <3>5. Blocked(l, n + 1)'
      <4>1. waiting'[l][n + 1] = c /\ myPos'[c] = n + 1 - 1
        BY <2>1, <2>5, <3>1, <3>3, <3>n
      <4>2. pc'[c] = "receive" /\ lm'[c] = l
        BY <2>1, <2>5
      <4> HIDE DEF w
      <4> QED
        BY <4>1, <4>2 DEF Blocked
    <3>6. \A i \in 1 .. Len(waiting'[l]) : i \in 1 .. Len(w) \/ i = n + 1
      BY <3>1, <3>3, <3>n
    <3> HIDE DEF w
    <3> QED
      BY <3>4, <3>5, <3>6 DEF Orderly
  <2> QED
    BY <2>3, <2>4, <2>5
<1>4. ASSUME NEW c \in Calls, WaitReset(c) PROVE Orderly(l)'
  <2>1. /\ pc[c] = "reset" /\ UNCHANGED <<launching, lm, myPos, isSuccess, sent>>
        /\ \A d \in Calls \ {c} : pc'[d] = pc[d]
        /\ lm[c] \in Calls /\ waiting'[lm[c]] = <<>>
        /\ \A k \in Calls \ {lm[c]} : waiting'[k] = waiting[k]
    BY <1>4 DEF WaitReset, handlerVars, callVars, ObjectInv
  <2>2. CASE l = lm[c]
    BY <2>1, <2>2 DEF Orderly
  <2>3. CASE l # lm[c]
    BY <1>o, <2>1, <2>3, OrderlyKept
  <2> QED
    BY <2>2, <2>3
<1>5. ASSUME NEW c \in Calls, FinishedBegin(c) PROVE Orderly(l)'
  <2>1. /\ pc[c] = "Finished" /\ UNCHANGED <<launching, waiting, myPos>>
        /\ \A d \in Calls \ {c} : /\ pc'[d] = pc[d] /\ lm'[d] = lm[d]
                                  /\ isSuccess'[d] = isSuccess[d] /\ sent'[d] = sent[d]
    BY <1>5 DEF FinishedBegin, AfterFinished, handlerVars
  <2> QED
    BY <1>o, <2>1, OrderlyKept
<1>6. ASSUME NEW c \in Calls, FinishedEnd(c) PROVE Orderly(l)'
  <2>1. /\ pc[c] = "broadcast" /\ UNCHANGED <<waiting, lm, myPos, sent>>
        /\ \A d \in Calls \ {c} : pc'[d] = pc[d] /\ isSuccess'[d] = isSuccess[d]
        /\ launching' = IF isSuccess[c] THEN [launching EXCEPT ![TraderOf[c]] = NoCall]
                                        ELSE launching
    BY <1>6 DEF FinishedEnd, AfterFinished, handlerVars
  <2>2. Old /\ Orderly(l) /\ TraderOf[l] = t
    BY <1>o, <2>1
  <2>3. ~ isSuccess[c] \/ lm[c] # l
    <3>1. launching[TraderOf[c]] = lm[c]
      BY <2>1 DEF RangeInv
    <3>2. lm[c] = l => TraderOf[c] = t
      BY <2>1, <2>2, <3>1 DEF TraderInv
    <3> QED
      BY <2>1, <3>2
  <2> QED
    BY <2>1, <2>2, <2>3, OrderlyKept
<1>7. ASSUME NEW c \in Calls, NEW d \in Calls, Send(c, d) PROVE Orderly(l)'
  <2>1. /\ pc[c] = "broadcast" /\ UNCHANGED <<launching, waiting, lm, myPos, isSuccess>>
        /\ pc[d] = "receive" /\ lm[d] = lm[c] /\ myPos[d] = sent[c]
        /\ sent'[c] = sent[c] + 1 /\ \A e \in Calls \ {c} : sent'[e] = sent[e]
        /\ pc'[d] = IF isSuccess[c] THEN "nilMonitor" ELSE IF myPos[d] = 0 THEN "reset" ELSE "Wait"
        /\ \A e \in Calls \ {d} : pc'[e] = pc[e]
    BY <1>7 DEF Send, handlerVars, cacheVars
  <2>2. Old /\ Orderly(l)
    BY <1>o, <2>1
  <2>3. CASE lm[c] # l
    BY <2>1, <2>2, <2>3, OrderlyKept
  <2>4. CASE HeirPending(l)
    BY <2>1, <2>4 DEF Orderly, HeirPending
  <2>5. CASE lm[c] = l /\ ~ HeirPending(l) /\ ~ isSuccess[c]
    <3>1. sent[c] = 0
      BY <2>1, <2>5 DEF RangeInv
    <3>2. pc'[d] = "reset" /\ lm'[d] = l
      BY <2>1, <2>5, <3>1
    <3> QED
      BY <3>2 DEF Orderly, HeirPending
  <2>6. CASE lm[c] = l /\ ~ HeirPending(l) /\ isSuccess[c]
    <3>1. ASSUME NEW i \in 1 .. Len(waiting[l]), Answered(l, i) PROVE Answered(l, i)'
      <4>1. PICK b \in Calls : pc[b] = "broadcast" /\ lm[b] = l /\ isSuccess[b] /\ i <= sent[b]
        BY <3>1 DEF Answered
      <4>2. sent[b] \in Nat /\ b # d /\ (sent'[b] = sent[b] \/ sent'[b] = sent[b] + 1)
        BY <2>1, <4>1
      <4>3. i <= sent'[b]
        <5>1. i \in Int /\ i <= sent[b]
          BY <4>1
        <5>2. \A m, k \in Int : i <= m /\ (k = m \/ k = m + 1) => i <= k
          BY <5>1
        <5>3. sent[b] \in Int /\ sent'[b] \in Int
          BY <1>t, <4>2
        <5> QED
          BY ZenonT(30), <4>2, <5>1, <5>2, <5>3
      <4> QED
        BY <2>1, <4>1, <4>2, <4>3 DEF Answered
    <3>2. ASSUME NEW i \in 1 .. Len(waiting[l]), Blocked(l, i) PROVE Answered(l, i)' \/ Blocked(l, i)'
      <4>1. CASE waiting[l][i] = d
        <5>1. i = sent[c] + 1 /\ c # d
          BY <2>1, <3>2, <4>1 DEF Blocked
        <5>2. i <= sent'[c]
          BY <2>1, <5>1
        <5> QED
          BY <2>1, <2>6, <5>1, <5>2 DEF Answered
      <4>2. CASE waiting[l][i] # d
        <5>1. waiting[l][i] \in Calls
          BY ElementOfSeq
        <5> QED
          BY <2>1, <3>2, <4>2, <5>1 DEF Blocked
      <4> QED
        BY <4>1, <4>2
    <3> QED
      BY <2>1, <2>2, <2>6, <3>1, <3>2 DEF Orderly
  <2> QED
    BY <2>3, <2>4, <2>5, <2>6
<1>8. ASSUME NEW u \in Traders, RemoveMonitor(u) PROVE Orderly(l)'
  <2>1. UNCHANGED <<launching, waiting, lm, myPos, isSuccess, sent, pc>>
    BY <1>8 DEF RemoveMonitor, cacheVars, callVars
  <2> QED
    BY <1>o, <2>1, OrderlyKept
<1>9. CASE UNCHANGED launchVars
  <2>1. UNCHANGED <<launching, waiting, lm, myPos, isSuccess, sent, pc>>
    BY <1>9 DEF launchVars
  <2> QED
    BY <1>o, <2>1, OrderlyKept
<1> QED
  BY <1>1, <1>2, <1>3, <1>4, <1>5, <1>6, <1>7, <1>8, <1>9 DEF LaunchNext, CallStep

(* The lists of the cache are in order in every reachable state.           *)
LEMMA ListInductive == LaunchSpec => []ListIInv
<1>1. LaunchInit => ListIInv
  <2> SUFFICES ASSUME LaunchInit PROVE ListIInv
    OBVIOUS
  <2>1. LaunchIInv
    BY LaunchInitIInv
  <2>2. TraderInv /\ RangeInv /\ QueueInv
    BY DEF LaunchInit, TraderInv, RangeInv, QueueInv
  <2> QED
    BY <2>1, <2>2 DEF ListIInv
<1>2. ListIInv /\ [LaunchNext]_launchVars => ListIInv'
  BY LaunchIInvStep, TraderStep, RangeStep, QueueStep DEF ListIInv
<1> QED
  BY <1>1, <1>2, PTL DEF LaunchSpec

(* Finished's send (line 85) finds its receiver, whatever the other calls  *)
(* do, unless a second Finished came before the heir emptied the list: no  *)
(* other order of any number of starts can block uidsMtx for ever.         *)
THEOREM BroadcastsMeet == LaunchSpec => []BroadcastMeets
<1>1. ListIInv => BroadcastMeets
  <2> SUFFICES ASSUME ListIInv, NEW c \in Calls, pc[c] = "broadcast",
                      sent[c] < Len(waiting[lm[c]]), ~ HeirPending(lm[c])
               PROVE  \E d \in Calls : Meets(c, d)
    BY DEF BroadcastMeets
  <2> USE CallsAssumption, TraderAssumption DEF ListIInv, LaunchIInv, LaunchTypeOK
  <2> DEFINE l == lm[c]
  <2>1. /\ l \in Calls /\ launching[TraderOf[c]] = l /\ TraderOf[c] \in Traders
        /\ waiting[l] \in Seq(Calls) /\ sent[c] \in Nat
    BY DEF RangeInv, ObjectInv
  <2>2. sent[c] + 1 \in 1 .. Len(waiting[l])
    <3>1. Len(waiting[l]) \in Nat /\ sent[c] < Len(waiting[l])
      BY <2>1, LenProperties
    <3>2. \A m, n \in Nat : m < n => m + 1 \in 1 .. n
      OBVIOUS
    <3> QED
      BY ZenonT(30), <2>1, <3>1, <3>2
  <2>3. Orderly(l)
    BY <2>1 DEF QueueInv
  <2>4. Answered(l, sent[c] + 1) \/ Blocked(l, sent[c] + 1)
    BY <2>2, <2>3 DEF Orderly
  <2>5. ~ Answered(l, sent[c] + 1)
    <3>1. ASSUME NEW b \in Calls, pc[b] = "broadcast" PROVE b = c
      BY <3>1 DEF BroadcastInv
    <3> QED
      BY <2>1, <3>1 DEF Answered
  <2>6. waiting[l][sent[c] + 1] \in Calls
    BY <2>1, <2>2, ElementOfSeq
  <2>7. sent[c] + 1 - 1 = sent[c]
    BY <2>1
  <2>8. Meets(c, waiting[l][sent[c] + 1])
    BY <2>4, <2>5, <2>7 DEF Blocked, Meets
  <2> QED
    BY <2>6, <2>8
<1> QED
  BY <1>1, ListInductive, PTL

(* A call that is listed, and whose trader some call has still to finish,  *)
(* is not passed by: neither does a broadcast end without having served    *)
(* it, nor is the entry deleted under it.                                  *)
THEOREM WaitersNotAbandoned == LaunchSpec => NobodyAbandoned
<1>1. ASSUME ListIInv, [LaunchNext]_launchVars, NEW d \in Calls,
             Listed(d), Expected(d), Listed(d)'
      PROVE  Expected(d)'
  <2> USE <1>1, CallsAssumption, TraderAssumption DEF ListIInv, LaunchIInv, LaunchTypeOK, Goto
  <2> DEFINE t == TraderOf[d]
             l == lm[d]
             Busy == Launching \cup Finishing \cup {"reset"}
  <2>1. /\ pc[d] = "receive" /\ pc'[d] = "receive" /\ l \in Calls /\ t \in Traders
        /\ launching[t] = l /\ l # NoCall /\ TraderOf[l] = t
        /\ waiting[l] \in Seq(Calls) /\ myPos[d] \in Nat
        /\ myPos[d] < Len(waiting[l]) /\ waiting[l][myPos[d] + 1] = d
    BY <1>1 DEF Listed, Expected, ObjectInv, TraderInv
  <2>2. PICK e \in Calls : TraderOf[e] = t /\ pc[e] \in Busy
    BY <1>1 DEF Expected
  <2>3. e # d
    BY <2>1, <2>2 DEF Launching, Finishing
  <2>4. ASSUME NEW c \in Calls, FinishedEnd(c) PROVE lm[c] # l
    <3>1. pc[c] = "broadcast" /\ sent[c] = Len(waiting[lm[c]])
      BY <2>4 DEF FinishedEnd
    <3>2. Len(waiting[l]) \in Nat
      BY <2>1, LenProperties
    <3>3. ASSUME lm[c] = l PROVE myPos[d] + 1 \in 1 .. sent[c]
      <4>1. \A m, n \in Nat : m < n => m + 1 \in 1 .. n
        OBVIOUS
      <4>2. sent[c] \in Nat /\ myPos[d] < sent[c]
        BY <2>1, <3>1, <3>2, <3>3
      <4> QED
        BY ZenonT(30), <2>1, <4>1, <4>2
    <3>4. \A i \in 1 .. sent[c] : pc[waiting[lm[c]][i]] \in {"nilMonitor", "reset", "Wait"}
      BY <3>1 DEF RangeInv
    <3> QED
      BY <2>1, <3>3, <3>4
  <2>5. lm'[d] = l
    BY <1>1, <2>1 DEF LaunchNext, CallStep, FindMonitor, WaitLookup, WaitAppend, WaitReset,
         CreateMonitor, LaunchFails, AddMonitor, FinishedBegin, FinishedEnd, AfterFinished,
         Send, RemoveMonitor, launchVars, handlerVars, cacheVars, callVars
  <2>6. launching'[t] = l
    <3>1. ASSUME NEW c \in Calls, FinishedEnd(c) PROVE launching'[t] = l
      <4>1. launching[TraderOf[c]] = lm[c]
        <5>1. pc[c] = "broadcast"
          BY <3>1 DEF FinishedEnd
        <5> QED
          BY <5>1 DEF RangeInv
      <4>2. TraderOf[c] # t
        BY <2>1, <2>4, <3>1, <4>1
      <4> QED
        BY <2>1, <3>1, <4>2 DEF FinishedEnd
    <3>2. ASSUME NEW c \in Calls, WaitLookup(c) PROVE launching'[t] = l
      <4>1. CASE launching[TraderOf[c]] = NoCall
        <5>1. TraderOf[c] # t /\ launching' = [launching EXCEPT ![TraderOf[c]] = c]
          BY <2>1, <3>2, <4>1 DEF WaitLookup
        <5> QED
          BY <2>1, <5>1
      <4>2. CASE launching[TraderOf[c]] # NoCall
        BY <2>1, <3>2, <4>2 DEF WaitLookup
      <4> QED
        BY <4>1, <4>2
    <3> QED
      BY <1>1, <2>1, <3>1, <3>2
      DEF LaunchNext, CallStep, FindMonitor, WaitAppend, WaitReset, CreateMonitor, LaunchFails,
          AddMonitor, FinishedBegin, Send, RemoveMonitor, launchVars, handlerVars, cacheVars
  <2>7. pc'[e] \in Busy
    <3>1. CASE pc'[e] = pc[e]
      BY <2>2, <3>1
    <3>2. CASE WaitReset(e) \/ CreateMonitor(e) \/ LaunchFails(e) \/ AddMonitor(e)
      <4>1. pc'[e] \in {"create", "addMonitor", "Finished"}
        BY <3>2 DEF WaitReset, CreateMonitor, LaunchFails, AddMonitor
      <4> QED
        BY <4>1 DEF Launching, Finishing
    <3>3. CASE FinishedBegin(e)
      <4>1. pc'[e] = "broadcast"
        BY <2>1, <2>2, <3>3 DEF FinishedBegin
      <4> QED
        BY <4>1 DEF Finishing
    <3>4. CASE FinishedEnd(e)
      <4>1. lm[e] = l
        <5>1. pc[e] = "broadcast"
          BY <3>4 DEF FinishedEnd
        <5> QED
          BY <2>1, <2>2, <5>1 DEF RangeInv
      <4> QED
        BY <2>4, <3>4, <4>1
    <3>5. ASSUME NEW c \in Calls, CallStep(c), c # e PROVE pc'[e] \in Busy
      <4>1. ASSUME NEW b \in Calls, Send(c, b) PROVE pc'[e] = pc[e]
        <5>1. pc[b] = "receive" /\ b # e
          BY <2>2, <4>1 DEF Send, Launching, Finishing
        <5> QED
          BY <4>1, <5>1 DEF Send
      <4>2. CASE \A b \in Calls : ~ Send(c, b)
        <5>1. pc'[e] = pc[e]
          BY <3>5, <4>2
          DEF CallStep, FindMonitor, WaitLookup, WaitAppend, WaitReset, CreateMonitor,
              LaunchFails, AddMonitor, FinishedBegin, FinishedEnd, AfterFinished
        <5> QED
          BY <2>2, <5>1
      <4> QED
        BY <2>2, <4>1, <4>2
    <3>6. ~ FindMonitor(e) /\ ~ WaitLookup(e) /\ ~ WaitAppend(e)
      BY <2>2 DEF FindMonitor, WaitLookup, WaitAppend, Launching, Finishing
    <3>7. ASSUME NEW b \in Calls, Send(e, b) PROVE pc'[e] = pc[e]
      <4>1. pc[b] = "receive" /\ b # e
        BY <2>2, <3>7 DEF Send, Launching, Finishing
      <4> QED
        BY <3>7, <4>1 DEF Send
    <3>8. ASSUME CallStep(e) PROVE pc'[e] \in Busy
      BY <3>1, <3>2, <3>3, <3>4, <3>6, <3>7, <3>8 DEF CallStep
    <3>9. ASSUME NEW u \in Traders, RemoveMonitor(u) PROVE pc'[e] = pc[e]
      BY <3>9 DEF RemoveMonitor
    <3> QED
      BY <1>1, <3>1, <3>5, <3>8, <3>9 DEF LaunchNext, launchVars
  <2> QED
    BY <2>2, <2>5, <2>6, <2>7 DEF Expected
<1>2. ListIInv /\ [LaunchNext]_launchVars
      => [\A d \in Calls : Listed(d) /\ Expected(d) /\ Listed(d)' => Expected(d)']_launchVars
  BY <1>1
<1> QED
  BY <1>2, ListInductive, PTL DEF LaunchSpec, NobodyAbandoned
-----------------------------------------------------------------------------
(* The monitor's loop.                                                     *)

(* What is sent on clientsChan, and by whom: a stay that is sending has    *)
(* one blocked send, the loop has one only while it offers clients.        *)
ChanInv ==
    /\ \A i, j \in 1 .. Len(clientsChan) : clientsChan[i] = clientsChan[j] => i = j
    /\ \A i \in 1 .. Len(clientsChan) :
          IF clientsChan[i] = Loop THEN loop = "send" ELSE post[clientsChan[i]] = "send"
    /\ \A i, j \in 1 .. Len(returnChan) : returnChan[i] = returnChan[j] => i = j
    /\ \A i \in 1 .. Len(returnChan) : stop[returnChan[i]] = "returnChan"

(* Who holds a group of proxies, and how large it is.                      *)
HoldInv ==
    /\ \A s \in Stays :
          /\ post[s] \notin {"createClients", "send", "failed"} => hand[s] = <<>>
          /\ post[s] \in {"createClients", "send"} => Len(hand[s]) = Extra
          /\ stop[s] # "returnGroup" => removed[s] = <<>>
          /\ stop[s] \in {"returnChan", "receive"} => webhooks
    /\ \A o \in Others : other[o] # "running" => taken[o] = <<>>
    /\ loop = "send" => Len(httpClients) >= Extra

(* A bot is on the monitor from its addBot until it is taken off.          *)
BotsInv ==
    \A s \in Stays :
        /\ post[s] \in {"idle", "addBot"} => s \notin bots
        /\ stop[s] = "removeBot" => s \in bots

(* The starts that still owe the loop the clients of a first bot, and the  *)
(* stops that still want back those of a last one.                         *)
Owing == {"first", "nextGroup", "createClients", "send", "failed"}
Asking == {"webhookCount", "returnChan", "receive"}
Owed == [s \in Stays |-> IF post[s] \in Owing THEN Extra ELSE 0]
Asked == [s \in Stays |-> IF stop[s] \in Asking THEN Extra ELSE 0]
Debt == Total(Owed, Stays)
Claims == Total(Asked, Stays)
ForBots == IF bots = {} THEN 0 ELSE Extra
Surplus == (Len(httpClients) + Debt) - (PerSign + ForBots + Claims)

(* A monitor has the clients it needs, less those that are owed to it,     *)
(* more those that are wanted back; and more only after a bot left because *)
(* of its keys.                                                            *)
LenInv ==
    webhooks => /\ Surplus >= 0
                /\ (\A s \in Stays : stop[s] # "keyInvalid") => Surplus = 0

IInv == TypeOK /\ ChanInv /\ HoldInv /\ BotsInv /\ LenInv /\ CrashNeedsOvertaking

-----------------------------------------------------------------------------
LEMMA Sizes ==
    /\ Extra \in Nat /\ Extra > 0
    /\ PerSign \in Nat /\ PerSign > 0
    /\ PerCopy = PerSign + Extra
    /\ NumProxies \in Nat /\ PerCopy <= NumProxies
BY ProxiesAssumption DEF Extra

LEMMA StaysFinite == IsFiniteSet(Stays) /\ Loop \notin Stays
BY BoundsAssumption, UpTo DEF Stays, Loop

(* A group is cut off the front of a sequence.                             *)
LEMMA Cut ==
    ASSUME NEW S, NEW seq \in Seq(S), NEW n \in Nat, n <= Len(seq)
    PROVE  /\ SubSeq(seq, 1, n) \in Seq(S) /\ Len(SubSeq(seq, 1, n)) = n
           /\ SubSeq(seq, n + 1, Len(seq)) \in Seq(S)
           /\ Len(SubSeq(seq, n + 1, Len(seq))) = Len(seq) - n
<1>1. Len(seq) \in Nat /\ \A i \in 1 .. Len(seq) : seq[i] \in S
  BY LenProperties, ElementOfSeq
<1>2. \A i \in 1 .. n : seq[i] \in S
  BY <1>1
<1>3. \A i \in n + 1 .. Len(seq) : seq[i] \in S
  BY <1>1
<1>4. /\ SubSeq(seq, 1, n) \in Seq(S)
      /\ Len(SubSeq(seq, 1, n)) = IF 1 <= n THEN n - 1 + 1 ELSE 0
  BY <1>2, SubSeqProperties
<1>5. /\ SubSeq(seq, n + 1, Len(seq)) \in Seq(S)
      /\ Len(SubSeq(seq, n + 1, Len(seq)))
         = IF n + 1 <= Len(seq) THEN Len(seq) - (n + 1) + 1 ELSE 0
  BY <1>1, <1>3, SubSeqProperties
<1> QED
  BY <1>1, <1>4, <1>5

(* Who is served first on a channel, and who is left.                      *)
LEMMA Served ==
    ASSUME NEW S, NEW chan \in Seq(S), chan # <<>>,
           \A i, j \in 1 .. Len(chan) : chan[i] = chan[j] => i = j
    PROVE  /\ Head(chan) \in S /\ Head(chan) = chan[1] /\ 1 \in 1 .. Len(chan)
           /\ Tail(chan) \in Seq(S)
           /\ \A i \in 1 .. Len(Tail(chan)) :
                 /\ i + 1 \in 1 .. Len(chan)
                 /\ Tail(chan)[i] = chan[i + 1] /\ Tail(chan)[i] # Head(chan)
           /\ \A i, j \in 1 .. Len(Tail(chan)) : Tail(chan)[i] = Tail(chan)[j] => i = j
<1>1. /\ Head(chan) \in S /\ Tail(chan) \in Seq(S)
      /\ Len(Tail(chan)) = Len(chan) - 1
      /\ \A i \in 1 .. Len(Tail(chan)) : Tail(chan)[i] = chan[i + 1]
  BY HeadTailProperties
<1>2. Len(chan) \in Nat \ {0}
  BY EmptySeq
<1>3. Head(chan) = chan[1]
  OBVIOUS
<1>4. \A i \in 1 .. Len(Tail(chan)) : i + 1 \in 1 .. Len(chan) /\ i + 1 # 1
  BY <1>1, <1>2
<1>5. \A i, j \in 1 .. Len(Tail(chan)) : i + 1 = j + 1 => i = j
  BY <1>1, <1>2
<1> QED
  BY <1>1, <1>2, <1>3, <1>4, <1>5

(* A sender joins a channel on which it is not yet.                        *)
LEMMA Queued ==
    ASSUME NEW S, NEW chan \in Seq(S), NEW x \in S,
           \A i, j \in 1 .. Len(chan) : chan[i] = chan[j] => i = j,
           \A i \in 1 .. Len(chan) : chan[i] # x
    PROVE  /\ Append(chan, x) \in Seq(S)
           /\ \A i \in 1 .. Len(Append(chan, x)) :
                 Append(chan, x)[i] = x \/ (i \in 1 .. Len(chan) /\ Append(chan, x)[i] = chan[i])
           /\ \A i, j \in 1 .. Len(Append(chan, x)) :
                 Append(chan, x)[i] = Append(chan, x)[j] => i = j
<1>1. /\ Append(chan, x) \in Seq(S)
      /\ Len(Append(chan, x)) = Len(chan) + 1
      /\ \A i \in 1 .. Len(chan) : Append(chan, x)[i] = chan[i]
      /\ Append(chan, x)[Len(chan) + 1] = x
  BY AppendProperties
<1>2. Len(chan) \in Nat
  BY LenProperties
<1>3. \A i \in 1 .. Len(Append(chan, x)) : i \in 1 .. Len(chan) \/ i = Len(chan) + 1
  BY <1>1, <1>2
<1> QED
  BY <1>1, <1>2, <1>3

-----------------------------------------------------------------------------
LEMMA ClientsServed ==
    ASSUME TypeOK, ChanInv, clientsChan # <<>>
    PROVE  LET from == Head(clientsChan) IN
           /\ from \in Stays \cup {Loop}
           /\ from = Loop => loop = "send"
           /\ from # Loop => from \in Stays /\ post[from] = "send"
           /\ Tail(clientsChan) \in Seq(Stays \cup {Loop})
           /\ \A i \in 1 .. Len(Tail(clientsChan)) :
                 LET c == Tail(clientsChan)[i] IN
                 /\ c \in Stays \cup {Loop} /\ c # from
                 /\ IF c = Loop THEN loop = "send" ELSE post[c] = "send"
           /\ \A i, j \in 1 .. Len(Tail(clientsChan)) :
                 Tail(clientsChan)[i] = Tail(clientsChan)[j] => i = j
<1>1. clientsChan \in Seq(Stays \cup {Loop})
  BY DEF TypeOK
<1> DEFINE S == Stays \cup {Loop}
           c == clientsChan
<1>2. /\ c \in Seq(S) /\ c # <<>>
      /\ \A i, j \in 1 .. Len(c) : c[i] = c[j] => i = j
  BY <1>1 DEF ChanInv
<1> HIDE DEF S, c
<1>3. /\ Head(c) \in S /\ Head(c) = c[1] /\ 1 \in 1 .. Len(c)
      /\ Tail(c) \in Seq(S)
      /\ \A i \in 1 .. Len(Tail(c)) :
            /\ i + 1 \in 1 .. Len(c)
            /\ Tail(c)[i] = c[i + 1] /\ Tail(c)[i] # Head(c)
      /\ \A i, j \in 1 .. Len(Tail(c)) : Tail(c)[i] = Tail(c)[j] => i = j
  BY <1>2, Served
<1>4. \A i \in 1 .. Len(Tail(c)) : Tail(c)[i] \in S
  BY <1>3, ElementOfSeq
<1>5. \A i \in 1 .. Len(c) : IF c[i] = Loop THEN loop = "send" ELSE post[c[i]] = "send"
  BY DEF ChanInv, c
<1>6. \A i \in 1 .. Len(Tail(c)) :
         IF Tail(c)[i] = Loop THEN loop = "send" ELSE post[Tail(c)[i]] = "send"
  BY <1>3, <1>5
<1>7. IF Head(c) = Loop THEN loop = "send" ELSE post[Head(c)] = "send"
  BY <1>3, <1>5
<1> QED
  BY <1>3, <1>4, <1>6, <1>7 DEF S, c

LEMMA ReturnServed ==
    ASSUME TypeOK, ChanInv, returnChan # <<>>
    PROVE  /\ Head(returnChan) \in Stays /\ stop[Head(returnChan)] = "returnChan"
           /\ Tail(returnChan) \in Seq(Stays)
           /\ \A i \in 1 .. Len(Tail(returnChan)) :
                 /\ Tail(returnChan)[i] \in Stays
                 /\ Tail(returnChan)[i] # Head(returnChan)
                 /\ stop[Tail(returnChan)[i]] = "returnChan"
           /\ \A i, j \in 1 .. Len(Tail(returnChan)) :
                 Tail(returnChan)[i] = Tail(returnChan)[j] => i = j
<1> DEFINE c == returnChan
<1>1. /\ c \in Seq(Stays) /\ c # <<>>
      /\ \A i, j \in 1 .. Len(c) : c[i] = c[j] => i = j
      /\ \A i \in 1 .. Len(c) : stop[c[i]] = "returnChan"
  BY DEF TypeOK, ChanInv
<1> HIDE DEF c
<1>2. /\ Head(c) \in Stays /\ Head(c) = c[1] /\ 1 \in 1 .. Len(c)
      /\ Tail(c) \in Seq(Stays)
      /\ \A i \in 1 .. Len(Tail(c)) :
            /\ i + 1 \in 1 .. Len(c)
            /\ Tail(c)[i] = c[i + 1] /\ Tail(c)[i] # Head(c)
      /\ \A i, j \in 1 .. Len(Tail(c)) : Tail(c)[i] = Tail(c)[j] => i = j
  BY <1>1, Served
<1>3. \A i \in 1 .. Len(Tail(c)) : Tail(c)[i] \in Stays
  BY <1>2, ElementOfSeq
<1> QED
  BY <1>1, <1>2, <1>3 DEF c

-----------------------------------------------------------------------------
LEMMA TypeStep ==
    ASSUME TypeOK, ChanInv, HoldInv, [Next]_vars
    PROVE  TypeOK'
<1> USE DEF TypeOK, channelVars, monitorVars, postVars, stopVars, otherVars
<1>1. CASE Poll \/ SelectDefault \/ ReceiveEnd
  BY <1>1 DEF Poll, SelectDefault, ReceiveEnd
<1>2. CASE ReceiveClients
  <2> DEFINE s == Head(clientsChan)
  <2>1. s \in Stays /\ Tail(clientsChan) \in Seq(Stays \cup {Loop})
    BY <1>2, ClientsServed DEF ReceiveClients
  <2>2. /\ httpClients' = httpClients \o hand[s]
        /\ hand' = [hand EXCEPT ![s] = <<>>] /\ post' = [post EXCEPT ![s] = "done"]
        /\ clientsChan' = Tail(clientsChan) /\ loop' = "poll"
        /\ UNCHANGED <<pool, returnChan, ending, monitorVars, active, stopVars, otherVars>>
    BY <1>2 DEF ReceiveClients
  <2> HIDE DEF s
  <2>3. httpClients' \in Seq(Proxies)
    BY <2>1, <2>2, ConcatProperties
  <2>4. hand' \in [Stays -> Seq(Proxies)]
    BY <2>1, <2>2, EmptySeq
  <2> QED
    BY <2>1, <2>2, <2>3, <2>4
<1>3. CASE ReceiveReturn
  <2>1. Head(returnChan) \in Stays /\ Tail(returnChan) \in Seq(Stays)
    BY <1>3, ReturnServed DEF ReceiveReturn
  <2>2. Append(clientsChan, Loop) \in Seq(Stays \cup {Loop})
    BY AppendProperties
  <2> QED
    BY <1>3, <2>1, <2>2 DEF ReceiveReturn
<1>4. ASSUME NEW s \in Stays,
             GetMonitor(s) \/ AddBot(s) \/ PostBotLaunch(s) \/ StopBot(s) \/ RemoveBot(s)
                \/ KeyInvalid(s)
      PROVE  TypeOK'
  <2>1. CASE GetMonitor(s)
    BY <2>1 DEF GetMonitor
  <2>2. CASE AddBot(s)
    <3>1. post' \in [Stays -> {"idle", "addBot", "first", "launched", "nextGroup",
                               "createClients", "send", "done", "failed"}]
      BY <2>2 DEF AddBot
    <3> QED
      BY <2>2, <3>1 DEF AddBot
  <2>3. CASE PostBotLaunch(s)
    BY <2>3 DEF PostBotLaunch
  <2>4. CASE StopBot(s) \/ RemoveBot(s) \/ KeyInvalid(s)
    BY <2>4 DEF StopBot, RemoveBot, KeyInvalid
  <2> QED
    BY <1>4, <2>1, <2>2, <2>3, <2>4
<1>5. ASSUME NEW s \in Stays, TakeGroup(s)
      PROVE  TypeOK'
  <2>1. CASE HasGroup(Extra)
    <3>1. NextGroup(Extra) \in Seq(Proxies) /\ PoolAfter(Extra) \in Seq(Proxies)
      <4>1. Extra <= Len(pool)
        BY <2>1, Sizes, LenProperties DEF HasGroup
      <4> QED
        BY <4>1, Sizes, Cut DEF NextGroup, PoolAfter
    <3> QED
      BY <1>5, <2>1, <3>1 DEF TakeGroup
  <2>2. CASE ~ HasGroup(Extra)
    BY <1>5, <2>2 DEF TakeGroup
  <2> QED
    BY <2>1, <2>2
<1>6. ASSUME NEW s \in Stays, AddClients(s)
      PROVE  TypeOK'
  <2>1. Append(clientsChan, s) \in Seq(Stays \cup {Loop})
    BY AppendProperties
  <2> QED
    BY <1>6, <2>1 DEF AddClients
<1>7. ASSUME NEW s \in Stays, EndMonitor(s)
      PROVE  TypeOK'
  <2>1. /\ removed' \in [Stays -> Seq(Proxies)] /\ ending' \in Nat
        /\ stop' = [stop EXCEPT ![s] = "returnGroup"] /\ registered' = FALSE
    BY <1>7 DEF EndMonitor
  <2> QED
    BY <1>7, <2>1 DEF EndMonitor
<1>8. ASSUME NEW s \in Stays, RecoverClients(s)
      PROVE  TypeOK'
  <2>1. Append(returnChan, s) \in Seq(Stays)
    BY AppendProperties
  <2> QED
    BY <1>8, <2>1 DEF RecoverClients
<1>9. ASSUME NEW s \in Stays, Receive(s)
      PROVE  TypeOK'
  <2> DEFINE from == Head(clientsChan)
  <2>1. /\ Tail(clientsChan) \in Seq(Stays \cup {Loop})
        /\ from = Loop => loop = "send"
        /\ from # Loop => from \in Stays
    BY <1>9, ClientsServed DEF Receive
  <2>2. /\ clientsChan' = Tail(clientsChan) /\ stop' = [stop EXCEPT ![s] = "returnGroup"]
        /\ UNCHANGED <<pool, returnChan, ending, monitorVars, active, otherVars>>
    BY <1>9 DEF Receive
  <2>3. CASE from = Loop
    <3>1. /\ removed' = [removed EXCEPT ![s] = SubSeq(httpClients, 1, Extra)]
          /\ httpClients' = SubSeq(httpClients, Extra + 1, Len(httpClients))
          /\ loop' = "poll"
          /\ UNCHANGED <<post, hand>>
      BY <1>9, <2>3 DEF Receive
    <3>2. Extra <= Len(httpClients)
      BY <2>1, <2>3, Sizes, LenProperties DEF HoldInv
    <3>3. /\ SubSeq(httpClients, 1, Extra) \in Seq(Proxies)
          /\ SubSeq(httpClients, Extra + 1, Len(httpClients)) \in Seq(Proxies)
      BY <3>2, Sizes, Cut
    <3> QED
      BY <2>1, <2>2, <3>1, <3>3
  <2>4. CASE from # Loop
    <3>1. /\ removed' = [removed EXCEPT ![s] = hand[from]]
          /\ hand' = [hand EXCEPT ![from] = <<>>]
          /\ post' = [post EXCEPT ![from] = "done"]
          /\ UNCHANGED <<httpClients, loop>>
      BY <1>9, <2>4 DEF Receive
    <3> HIDE DEF from
    <3>2. hand' \in [Stays -> Seq(Proxies)] /\ removed' \in [Stays -> Seq(Proxies)]
      BY <2>1, <2>4, <3>1, EmptySeq
    <3> QED
      BY <2>1, <2>2, <2>4, <3>1, <3>2
  <2> QED
    BY <2>3, <2>4
<1>10. ASSUME NEW s \in Stays, ReturnProxies(s)
       PROVE  TypeOK'
  <2>1. pool \o removed[s] \in Seq(Proxies) /\ <<>> \in Seq(Proxies)
    BY ConcatProperties, EmptySeq
  <2> QED
    BY <1>10, <2>1 DEF ReturnProxies, ReturnGroup
<1>11. ASSUME NEW o \in Others, CheckProxies(o)
       PROVE  TypeOK'
  BY <1>11 DEF CheckProxies
<1>12. ASSUME NEW o \in Others, AttachProxies(o)
       PROVE  TypeOK'
  <2>1. CASE HasGroup(PerCopy)
    <3>1. NextGroup(PerCopy) \in Seq(Proxies) /\ PoolAfter(PerCopy) \in Seq(Proxies)
      <4>1. PerCopy \in Nat /\ PerCopy <= Len(pool)
        BY <2>1, Sizes, LenProperties DEF HasGroup
      <4> QED
        BY <4>1, Cut DEF NextGroup, PoolAfter
    <3> QED
      BY <1>12, <2>1, <3>1 DEF AttachProxies
  <2>2. CASE ~ HasGroup(PerCopy)
    BY <1>12, <2>2 DEF AttachProxies
  <2> QED
    BY <2>1, <2>2
<1>13. ASSUME NEW o \in Others, OtherReturns(o)
       PROVE  TypeOK'
  <2>1. pool \o taken[o] \in Seq(Proxies) /\ <<>> \in Seq(Proxies)
    BY ConcatProperties, EmptySeq
  <2> QED
    BY <1>13, <2>1 DEF OtherReturns, ReturnGroup
<1>14. CASE UNCHANGED vars
  BY <1>14 DEF vars
<1> QED
  BY <1>1, <1>2, <1>3, <1>4, <1>5, <1>6, <1>7, <1>8, <1>9, <1>10, <1>11, <1>12, <1>13, <1>14
     DEF Next, LoopStep, PostStep, StopStep

-----------------------------------------------------------------------------
(* Who is on the channels stays there, if nobody leaves its send.          *)
LEMMA ChanKept ==
    ASSUME TypeOK, ChanInv, UNCHANGED <<clientsChan, returnChan>>,
           loop = "send" => loop' = "send",
           \A t \in Stays : post[t] = "send" => post'[t] = "send",
           \A t \in Stays : stop[t] = "returnChan" => stop'[t] = "returnChan"
    PROVE  ChanInv'
<1>1. \A i \in 1 .. Len(clientsChan) : clientsChan[i] \in Stays \cup {Loop}
  BY ElementOfSeq DEF TypeOK
<1>2. \A i \in 1 .. Len(returnChan) : returnChan[i] \in Stays
  BY ElementOfSeq DEF TypeOK
<1> QED
  BY <1>1, <1>2 DEF ChanInv

LEMMA ChanStep ==
    ASSUME TypeOK, ChanInv, [Next]_vars
    PROVE  ChanInv'
<1> USE DEF channelVars, monitorVars, postVars, stopVars, otherVars
<1>a. post \in [Stays -> {"idle", "addBot", "first", "launched", "nextGroup", "createClients",
                          "send", "done", "failed"}]
  BY DEF TypeOK
<1>b. stop \in [Stays -> {"idle", "removeBot", "webhookCount", "returnChan", "receive",
                          "returnGroup", "done", "keyInvalid"}]
  BY DEF TypeOK
<1>1. CASE Poll \/ SelectDefault \/ ReceiveEnd
  BY <1>1, ChanKept DEF Poll, SelectDefault, ReceiveEnd
<1>2. CASE ReceiveClients
  <2>1. /\ Head(clientsChan) \in Stays
        /\ \A i \in 1 .. Len(Tail(clientsChan)) :
              LET c == Tail(clientsChan)[i] IN
              c \in Stays /\ c # Head(clientsChan) /\ c # Loop /\ post[c] = "send"
        /\ \A i, j \in 1 .. Len(Tail(clientsChan)) :
              Tail(clientsChan)[i] = Tail(clientsChan)[j] => i = j
    BY <1>2, ClientsServed DEF ReceiveClients
  <2>2. /\ post' = [post EXCEPT ![Head(clientsChan)] = "done"]
        /\ clientsChan' = Tail(clientsChan)
        /\ UNCHANGED <<returnChan, stop>>
    BY <1>2 DEF ReceiveClients
  <2> QED
    BY <1>a, <2>1, <2>2 DEF ChanInv
<1>3. CASE ReceiveReturn
  <2>1. /\ stop' = [stop EXCEPT ![Head(returnChan)] = "receive"]
        /\ returnChan' = Tail(returnChan)
        /\ returnChan # <<>> /\ loop = "select" /\ UNCHANGED post
    BY <1>3 DEF ReceiveReturn
  <2>2. /\ \A i, j \in 1 .. Len(returnChan') : returnChan'[i] = returnChan'[j] => i = j
        /\ \A i \in 1 .. Len(returnChan') : stop'[returnChan'[i]] = "returnChan"
    BY <1>b, <2>1, ReturnServed
  <2>3. \A i \in 1 .. Len(clientsChan) : clientsChan[i] # Loop /\ post[clientsChan[i]] = "send"
    BY <2>1 DEF ChanInv
  <2>4. CASE UNCHANGED clientsChan
    BY <2>1, <2>2, <2>3, <2>4 DEF ChanInv
  <2>5. CASE loop' = "send" /\ clientsChan' = Append(clientsChan, Loop)
    <3>1. /\ \A i \in 1 .. Len(clientsChan') :
                clientsChan'[i] = Loop
                \/ (i \in 1 .. Len(clientsChan) /\ clientsChan'[i] = clientsChan[i])
          /\ \A i, j \in 1 .. Len(clientsChan') : clientsChan'[i] = clientsChan'[j] => i = j
      <4> DEFINE S == Stays \cup {Loop}
      <4>1. clientsChan \in Seq(S) /\ Loop \in S
        BY DEF TypeOK
      <4> HIDE DEF S
      <4> QED
        BY <2>3, <2>5, <4>1, Queued DEF ChanInv
    <3> QED
      BY <2>1, <2>2, <2>3, <2>5, <3>1 DEF ChanInv
  <2> QED
    BY <1>3, <2>4, <2>5 DEF ReceiveReturn
<1>4. ASSUME NEW s \in Stays, GetMonitor(s) \/ AddBot(s) \/ PostBotLaunch(s)
      PROVE  ChanInv'
  <2>1. UNCHANGED <<clientsChan, returnChan, loop, stop>>
    BY <1>4 DEF GetMonitor, AddBot, PostBotLaunch
  <2>2. post[s] # "send" /\ \A t \in Stays \ {s} : post'[t] = post[t]
    BY <1>a, <1>4 DEF GetMonitor, AddBot, PostBotLaunch
  <2> QED
    BY <2>1, <2>2, ChanKept
<1>5. ASSUME NEW s \in Stays, TakeGroup(s)
      PROVE  ChanInv'
  <2>1. UNCHANGED <<clientsChan, returnChan, loop, stop>>
    BY <1>5 DEF TakeGroup
  <2>2. post[s] # "send" /\ \A t \in Stays \ {s} : post'[t] = post[t]
    BY <1>a, <1>5 DEF TakeGroup
  <2> QED
    BY <2>1, <2>2, ChanKept
<1>6. ASSUME NEW s \in Stays, AddClients(s)
      PROVE  ChanInv'
  <2>1. /\ post[s] = "createClients" /\ \A t \in Stays \ {s} : post'[t] = post[t]
        /\ UNCHANGED <<returnChan, loop, stop>>
    BY <1>a, <1>6 DEF AddClients
  <2>2. CASE UNCHANGED clientsChan
    BY <2>1, <2>2, ChanKept
  <2>3. CASE clientsChan' = Append(clientsChan, s) /\ post'[s] = "send"
    <3> DEFINE S == Stays \cup {Loop}
    <3>1. clientsChan \in Seq(S) /\ s \in S
      BY DEF TypeOK
    <3>2. \A i \in 1 .. Len(clientsChan) : clientsChan[i] # s /\ clientsChan[i] \in S
      BY <2>1, <3>1, ElementOfSeq, StaysFinite DEF ChanInv
    <3>3. /\ \A i \in 1 .. Len(clientsChan') :
                clientsChan'[i] = s
                \/ (i \in 1 .. Len(clientsChan) /\ clientsChan'[i] = clientsChan[i])
          /\ \A i, j \in 1 .. Len(clientsChan') : clientsChan'[i] = clientsChan'[j] => i = j
      <4> HIDE DEF S
      <4> QED
        BY <2>3, <3>1, <3>2, Queued DEF ChanInv
    <3> QED
      BY <2>1, <2>3, <3>2, <3>3, StaysFinite DEF ChanInv
  <2> QED
    BY <1>a, <1>6, <2>2, <2>3 DEF AddClients
<1>7. ASSUME NEW s \in Stays, StopBot(s) \/ RemoveBot(s) \/ KeyInvalid(s)
      PROVE  ChanInv'
  <2>1. UNCHANGED <<clientsChan, returnChan, loop, post>>
    BY <1>7 DEF StopBot, RemoveBot, KeyInvalid
  <2>2. stop[s] # "returnChan" /\ \A t \in Stays \ {s} : stop'[t] = stop[t]
    BY <1>b, <1>7 DEF StopBot, RemoveBot, KeyInvalid
  <2> QED
    BY <2>1, <2>2, ChanKept
<1>8. ASSUME NEW s \in Stays, EndMonitor(s) \/ ReturnProxies(s)
      PROVE  ChanInv'
  <2>1. UNCHANGED <<clientsChan, returnChan, loop, post>>
    BY <1>8 DEF EndMonitor, ReturnProxies
  <2>2. stop[s] # "returnChan" /\ \A t \in Stays \ {s} : stop'[t] = stop[t]
    BY <1>b, <1>8 DEF EndMonitor, ReturnProxies
  <2> QED
    BY <2>1, <2>2, ChanKept
<1>9. ASSUME NEW s \in Stays, RecoverClients(s)
      PROVE  ChanInv'
  <2>1. /\ stop[s] = "webhookCount" /\ stop' = [stop EXCEPT ![s] = "returnChan"]
        /\ returnChan' = Append(returnChan, s)
        /\ UNCHANGED <<clientsChan, loop, post>>
    BY <1>9 DEF RecoverClients
  <2>2. returnChan \in Seq(Stays) /\ \A i \in 1 .. Len(returnChan) : returnChan[i] \in Stays
    BY ElementOfSeq DEF TypeOK
  <2>3. \A i \in 1 .. Len(returnChan) : returnChan[i] # s
    BY <2>1 DEF ChanInv
  <2>4. /\ \A i \in 1 .. Len(returnChan') :
              returnChan'[i] = s
              \/ (i \in 1 .. Len(returnChan) /\ returnChan'[i] = returnChan[i])
        /\ \A i, j \in 1 .. Len(returnChan') : returnChan'[i] = returnChan'[j] => i = j
    BY <2>1, <2>2, <2>3, Queued DEF ChanInv
  <2>5. \A i \in 1 .. Len(returnChan') : stop'[returnChan'[i]] = "returnChan"
    BY <1>b, <2>1, <2>2, <2>3, <2>4 DEF ChanInv
  <2> QED
    BY <2>1, <2>4, <2>5 DEF ChanInv
<1>10. ASSUME NEW s \in Stays, Receive(s)
       PROVE  ChanInv'
  <2> DEFINE from == Head(clientsChan)
  <2>1. /\ \A i \in 1 .. Len(Tail(clientsChan)) :
              LET c == Tail(clientsChan)[i] IN
              /\ c \in Stays \cup {Loop} /\ c # from
              /\ IF c = Loop THEN loop = "send" ELSE post[c] = "send"
        /\ \A i, j \in 1 .. Len(Tail(clientsChan)) :
              Tail(clientsChan)[i] = Tail(clientsChan)[j] => i = j
        /\ from # Loop => from \in Stays
    BY <1>10, ClientsServed DEF Receive
  <2>2. /\ clientsChan' = Tail(clientsChan) /\ stop' = [stop EXCEPT ![s] = "returnGroup"]
        /\ stop[s] = "receive" /\ UNCHANGED returnChan
        /\ IF from = Loop THEN UNCHANGED post
           ELSE post' = [post EXCEPT ![from] = "done"] /\ UNCHANGED loop
    BY <1>10 DEF Receive
  <2> HIDE DEF from
  <2>3. \A i \in 1 .. Len(clientsChan') :
           IF clientsChan'[i] = Loop THEN loop' = "send" ELSE post'[clientsChan'[i]] = "send"
    <3>1. CASE from = Loop
      BY <2>1, <2>2, <3>1
    <3>2. CASE from # Loop
      BY <1>a, <2>1, <2>2, <3>2
    <3> QED
      BY <3>1, <3>2
  <2>4. \A i \in 1 .. Len(returnChan) :
           returnChan[i] \in Stays /\ stop'[returnChan[i]] = "returnChan"
    <3>1. \A i \in 1 .. Len(returnChan) : returnChan[i] \in Stays
      BY ElementOfSeq DEF TypeOK
    <3> QED
      BY <1>b, <2>2, <3>1 DEF ChanInv
  <2> QED
    BY <2>1, <2>2, <2>3, <2>4 DEF ChanInv
<1>11. ASSUME NEW o \in Others, CheckProxies(o) \/ AttachProxies(o) \/ OtherReturns(o)
       PROVE  ChanInv'
  BY <1>11, ChanKept DEF CheckProxies, AttachProxies, OtherReturns
<1>12. CASE UNCHANGED vars
  BY <1>12, ChanKept DEF vars
<1> QED
  BY <1>1, <1>2, <1>3, <1>4, <1>5, <1>6, <1>7, <1>8, <1>9, <1>10, <1>11, <1>12
     DEF Next, LoopStep, PostStep, StopStep

-----------------------------------------------------------------------------
LEMMA HoldStep ==
    ASSUME TypeOK, ChanInv, HoldInv, [Next]_vars
    PROVE  HoldInv'
<1> USE DEF TypeOK, HoldInv, channelVars, monitorVars, postVars, stopVars, otherVars
<1>1. CASE Poll \/ SelectDefault \/ ReceiveEnd
  BY <1>1 DEF Poll, SelectDefault, ReceiveEnd
<1>2. CASE ReceiveClients
  <2>1. Head(clientsChan) \in Stays
    BY <1>2, ClientsServed DEF ReceiveClients
  <2> QED
    BY <1>2, <2>1 DEF ReceiveClients
<1>3. CASE ReceiveReturn
  <2>1. Head(returnChan) \in Stays /\ stop[Head(returnChan)] = "returnChan"
    BY <1>3, ReturnServed DEF ReceiveReturn
  <2>2. Len(httpClients) \in Nat /\ Extra \in Nat
    BY Sizes, LenProperties
  <2>3. loop' = "send" => Len(httpClients') >= Extra
    BY <1>3, <2>2 DEF ReceiveReturn
  <2>4. /\ stop' = [stop EXCEPT ![Head(returnChan)] = "receive"]
        /\ UNCHANGED <<post, hand, removed, webhooks, other, taken>>
    BY <1>3 DEF ReceiveReturn
  <2> QED
    BY <2>1, <2>3, <2>4
<1>4. ASSUME NEW s \in Stays, GetMonitor(s) \/ AddBot(s) \/ PostBotLaunch(s)
      PROVE  HoldInv'
  BY <1>4 DEF GetMonitor, AddBot, PostBotLaunch
<1>5. ASSUME NEW s \in Stays, StopBot(s) \/ RemoveBot(s) \/ KeyInvalid(s)
      PROVE  HoldInv'
  BY <1>5 DEF StopBot, RemoveBot, KeyInvalid
<1>6. ASSUME NEW s \in Stays, TakeGroup(s)
      PROVE  HoldInv'
  <2>1. HasGroup(Extra) => Len(NextGroup(Extra)) = Extra
    <3>1. HasGroup(Extra) => Extra <= Len(pool)
      BY Sizes, LenProperties DEF HasGroup
    <3> QED
      BY <3>1, Sizes, Cut DEF NextGroup
  <2> QED
    BY <1>6, <2>1 DEF TakeGroup
<1>7. ASSUME NEW s \in Stays, AddClients(s)
      PROVE  HoldInv'
  BY <1>7 DEF AddClients
<1>8. ASSUME NEW s \in Stays, EndMonitor(s) \/ RecoverClients(s)
      PROVE  HoldInv'
  BY <1>8 DEF EndMonitor, RecoverClients
<1>9. ASSUME NEW s \in Stays, Receive(s)
      PROVE  HoldInv'
  <2>1. Head(clientsChan) # Loop => Head(clientsChan) \in Stays
    BY <1>9, ClientsServed DEF Receive
  <2> QED
    BY <1>9, <2>1 DEF Receive
<1>10. ASSUME NEW s \in Stays, ReturnProxies(s)
       PROVE  HoldInv'
  BY <1>10 DEF ReturnProxies
<1>11. ASSUME NEW o \in Others, CheckProxies(o) \/ AttachProxies(o) \/ OtherReturns(o)
       PROVE  HoldInv'
  BY <1>11 DEF CheckProxies, AttachProxies, OtherReturns
<1>12. CASE UNCHANGED vars
  BY <1>12 DEF vars
<1> QED
  BY <1>1, <1>2, <1>3, <1>4, <1>5, <1>6, <1>7, <1>8, <1>9, <1>10, <1>11, <1>12
     DEF Next, LoopStep, PostStep, StopStep

LEMMA BotsStep ==
    ASSUME TypeOK, ChanInv, BotsInv, [Next]_vars
    PROVE  BotsInv'
<1> USE DEF TypeOK, BotsInv, channelVars, monitorVars, postVars, stopVars, otherVars
<1>1. CASE Poll \/ SelectDefault \/ ReceiveEnd
  BY <1>1 DEF Poll, SelectDefault, ReceiveEnd
<1>2. CASE ReceiveClients
  <2>1. Head(clientsChan) \in Stays
    BY <1>2, ClientsServed DEF ReceiveClients
  <2> QED
    BY <1>2, <2>1, ClientsServed DEF ReceiveClients
<1>3. CASE ReceiveReturn
  BY <1>3, ReturnServed DEF ReceiveReturn
<1>4. ASSUME NEW s \in Stays, GetMonitor(s) \/ AddBot(s) \/ PostBotLaunch(s)
      PROVE  BotsInv'
  BY <1>4 DEF GetMonitor, AddBot, PostBotLaunch
<1>5. ASSUME NEW s \in Stays, StopBot(s) \/ RemoveBot(s) \/ KeyInvalid(s)
      PROVE  BotsInv'
  BY <1>5 DEF StopBot, RemoveBot, KeyInvalid
<1>6. ASSUME NEW s \in Stays, TakeGroup(s) \/ AddClients(s)
      PROVE  BotsInv'
  BY <1>6 DEF TakeGroup, AddClients
<1>7. ASSUME NEW s \in Stays, EndMonitor(s) \/ RecoverClients(s) \/ ReturnProxies(s)
      PROVE  BotsInv'
  BY <1>7 DEF EndMonitor, RecoverClients, ReturnProxies
<1>8. ASSUME NEW s \in Stays, Receive(s)
      PROVE  BotsInv'
  <2>1. Head(clientsChan) # Loop
        => Head(clientsChan) \in Stays /\ post[Head(clientsChan)] = "send"
    BY <1>8, ClientsServed DEF Receive
  <2> QED
    BY <1>8, <2>1 DEF Receive
<1>9. ASSUME NEW o \in Others, CheckProxies(o) \/ AttachProxies(o) \/ OtherReturns(o)
      PROVE  BotsInv'
  BY <1>9 DEF CheckProxies, AttachProxies, OtherReturns
<1>10. CASE UNCHANGED vars
  BY <1>10 DEF vars
<1> QED
  BY <1>1, <1>2, <1>3, <1>4, <1>5, <1>6, <1>7, <1>8, <1>9, <1>10
     DEF Next, LoopStep, PostStep, StopStep

-----------------------------------------------------------------------------
(* How the sums change when one stay goes on.                              *)
LEMMA DebtChange ==
    ASSUME NEW s \in Stays, \A t \in Stays \ {s} : post'[t] = post[t]
    PROVE  /\ Debt \in Nat /\ Debt' \in Nat
           /\ Debt' = Debt - (IF post[s] \in Owing THEN Extra ELSE 0)
                      + (IF post'[s] \in Owing THEN Extra ELSE 0)
<1> DEFINE f == Owed
           g == [t \in Stays |-> IF post'[t] \in Owing THEN Extra ELSE 0]
<1>1. /\ \A t \in Stays : f[t] \in Nat /\ g[t] \in Nat
      /\ \A t \in Stays \ {s} : g[t] = f[t]
  BY Sizes DEF Owed
<1>2. /\ f[s] = IF post[s] \in Owing THEN Extra ELSE 0
      /\ g[s] = IF post'[s] \in Owing THEN Extra ELSE 0
  BY DEF Owed
<1>3. Debt = Total(f, Stays) /\ Debt' = Total(g, Stays)
  BY DEF Debt, Owed, Owing
<1> HIDE DEF f, g
<1>4. /\ Total(g, Stays) = Total(f, Stays) - f[s] + g[s]
      /\ Total(f, Stays) \in Nat /\ Total(g, Stays) \in Nat
  BY <1>1, StaysFinite, TotalChange, TotalType
<1> QED
  BY <1>2, <1>3, <1>4

LEMMA ClaimsChange ==
    ASSUME NEW s \in Stays, \A t \in Stays \ {s} : stop'[t] = stop[t]
    PROVE  /\ Claims \in Nat /\ Claims' \in Nat
           /\ Claims' = Claims - (IF stop[s] \in Asking THEN Extra ELSE 0)
                        + (IF stop'[s] \in Asking THEN Extra ELSE 0)
<1> DEFINE f == Asked
           g == [t \in Stays |-> IF stop'[t] \in Asking THEN Extra ELSE 0]
<1>1. /\ \A t \in Stays : f[t] \in Nat /\ g[t] \in Nat
      /\ \A t \in Stays \ {s} : g[t] = f[t]
  BY Sizes DEF Asked
<1>2. /\ f[s] = IF stop[s] \in Asking THEN Extra ELSE 0
      /\ g[s] = IF stop'[s] \in Asking THEN Extra ELSE 0
  BY DEF Asked
<1>3. Claims = Total(f, Stays) /\ Claims' = Total(g, Stays)
  BY DEF Claims, Asked, Asking
<1> HIDE DEF f, g
<1>4. /\ Total(g, Stays) = Total(f, Stays) - f[s] + g[s]
      /\ Total(f, Stays) \in Nat /\ Total(g, Stays) \in Nat
  BY <1>1, StaysFinite, TotalChange, TotalType
<1> QED
  BY <1>2, <1>3, <1>4

LEMMA SumTypes == Debt \in Nat /\ Claims \in Nat
<1>1. \A t \in Stays : Owed[t] \in Nat /\ Asked[t] \in Nat
  BY Sizes DEF Owed, Asked
<1> QED
  BY <1>1, StaysFinite, TotalType DEF Debt, Claims

LEMMA SumsKept ==
    /\ UNCHANGED post => UNCHANGED Debt
    /\ UNCHANGED stop => UNCHANGED Claims
    /\ UNCHANGED bots => UNCHANGED ForBots
BY DEF Debt, Owed, Claims, Asked, ForBots

LEMMA LenStep ==
    ASSUME TypeOK, ChanInv, HoldInv, BotsInv, LenInv, [Next]_vars
    PROVE  LenInv'
<1> USE DEF channelVars, monitorVars, postVars, stopVars, otherVars
<1>a. post \in [Stays -> {"idle", "addBot", "first", "launched", "nextGroup", "createClients",
                          "send", "done", "failed"}]
  BY DEF TypeOK
<1>b. stop \in [Stays -> {"idle", "removeBot", "webhookCount", "returnChan", "receive",
                          "returnGroup", "done", "keyInvalid"}]
  BY DEF TypeOK
<1>c. Len(httpClients) \in Nat /\ hand \in [Stays -> Seq(Proxies)] /\ httpClients \in Seq(Proxies)
  BY LenProperties DEF TypeOK
<1>d. ASSUME UNCHANGED <<webhooks, stop, Surplus>>
      PROVE  LenInv'
  BY <1>d DEF LenInv
<1>e. ASSUME UNCHANGED <<webhooks, post, stop, httpClients, bots>>
      PROVE  LenInv'
  BY <1>e, <1>d, SumsKept DEF Surplus
<1>1. CASE Poll \/ SelectDefault \/ ReceiveEnd
  BY <1>1, <1>e DEF Poll, SelectDefault, ReceiveEnd
<1>2. CASE ReceiveClients
  <2> DEFINE s == Head(clientsChan)
  <2>1. s \in Stays /\ post[s] = "send"
    BY <1>2, ClientsServed DEF ReceiveClients
  <2>2. /\ httpClients' = httpClients \o hand[s] /\ post' = [post EXCEPT ![s] = "done"]
        /\ UNCHANGED <<webhooks, stop, bots>>
    BY <1>2 DEF ReceiveClients
  <2> HIDE DEF s
  <2>3. Len(hand[s]) = Extra
    BY <2>1 DEF HoldInv
  <2>4. Len(httpClients') = Len(httpClients) + Extra
    <3>1. hand[s] \in Seq(Proxies)
      BY <1>c, <2>1
    <3> QED
      BY <1>c, <2>2, <2>3, <3>1, ConcatProperties
  <2>5. Debt \in Nat /\ Debt' \in Nat /\ Debt' = Debt - Extra
    <3>1. post'[s] = "done" /\ \A t \in Stays \ {s} : post'[t] = post[t]
      BY <1>a, <2>1, <2>2
    <3>2. post[s] \in Owing /\ post'[s] \notin Owing
      BY <2>1, <3>1 DEF Owing
    <3> QED
      BY <2>1, <3>1, <3>2, Sizes, DebtChange
  <2>6. UNCHANGED <<Claims, ForBots>>
    BY <2>2, SumsKept
  <2>7. Surplus' = Surplus
    <3>1. Surplus' = (Len(httpClients') + Debt') - (PerSign + ForBots' + Claims')
      BY DEF Surplus
    <3>2. ForBots \in Nat
      BY Sizes DEF ForBots
    <3> QED
      BY <1>c, <2>4, <2>5, <2>6, <3>1, <3>2, Sizes, SumTypes DEF Surplus
  <2> QED
    BY <1>d, <2>2, <2>7
<1>3. CASE ReceiveReturn
  <2> DEFINE s == Head(returnChan)
  <2>1. s \in Stays /\ stop[s] = "returnChan"
    BY <1>3, ReturnServed DEF ReceiveReturn
  <2>2. /\ stop' = [stop EXCEPT ![s] = "receive"]
        /\ UNCHANGED <<webhooks, post, httpClients, bots>>
    BY <1>3 DEF ReceiveReturn
  <2> HIDE DEF s
  <2>3. stop'[s] = "receive" /\ \A t \in Stays \ {s} : stop'[t] = stop[t]
    BY <1>b, <2>1, <2>2
  <2>4. stop[s] \in Asking /\ stop'[s] \in Asking
    BY <2>1, <2>3 DEF Asking
  <2>5. Claims' = Claims
    BY <2>1, <2>3, <2>4, Sizes, ClaimsChange
  <2>6. Surplus' = Surplus
    BY <2>2, <2>5, SumsKept DEF Surplus
  <2>7. (\A t \in Stays : stop'[t] # "keyInvalid") => \A t \in Stays : stop[t] # "keyInvalid"
    BY <2>1, <2>3
  <2> QED
    BY <2>2, <2>6, <2>7 DEF LenInv
<1>4. ASSUME NEW s \in Stays, GetMonitor(s) \/ PostBotLaunch(s) \/ TakeGroup(s) \/ AddClients(s)
      PROVE  LenInv'
  <2>1. UNCHANGED <<webhooks, stop, httpClients, bots>>
    BY <1>4 DEF GetMonitor, PostBotLaunch, TakeGroup, AddClients
  <2>2. /\ \A t \in Stays \ {s} : post'[t] = post[t]
        /\ post[s] \in Owing <=> post'[s] \in Owing
    <3>1. CASE GetMonitor(s)
      BY <1>a, <3>1 DEF GetMonitor, Owing
    <3>2. CASE PostBotLaunch(s)
      BY <1>a, <3>2 DEF PostBotLaunch, Owing
    <3>3. CASE TakeGroup(s)
      BY <1>a, <3>3 DEF TakeGroup, Owing
    <3>4. CASE AddClients(s)
      BY <1>a, <3>4 DEF AddClients, Owing
    <3> QED
      BY <1>4, <3>1, <3>2, <3>3, <3>4
  <2>3. Debt' = Debt
    BY <2>2, Sizes, DebtChange
  <2> QED
    BY <1>d, <2>1, <2>3, SumsKept DEF Surplus
<1>5. ASSUME NEW s \in Stays, AddBot(s)
      PROVE  LenInv'
  <2>1. /\ post[s] = "addBot" /\ s \notin bots /\ bots' = bots \cup {s} /\ bots \subseteq Stays
        /\ UNCHANGED <<webhooks, stop, httpClients>>
    BY <1>5 DEF AddBot, BotsInv, TypeOK
  <2>2. /\ post'[s] = IF Cardinality(bots') = 1 THEN "first" ELSE "launched"
        /\ \A t \in Stays \ {s} : post'[t] = post[t]
    BY <1>a, <1>5 DEF AddBot
  <2>3. Cardinality(bots') = 1 <=> bots = {}
    <3>1. IsFiniteSet(bots) /\ Cardinality(bots) \in Nat
      BY <2>1, StaysFinite, FS_Subset, FS_CardinalityType
    <3>2. Cardinality(bots \cup {s}) = Cardinality(bots) + 1
      BY <2>1, <3>1, FS_AddElement
    <3> QED
      BY <2>1, <3>1, <3>2, FS_EmptySet
  <2>4. post[s] \notin Owing /\ (post'[s] \in Owing <=> bots = {})
    BY <2>1, <2>2, <2>3 DEF Owing
  <2>5. /\ Debt \in Nat /\ Debt' \in Nat
        /\ Debt' = Debt + IF bots = {} THEN Extra ELSE 0
    BY <2>2, <2>4, Sizes, DebtChange
  <2>6. ForBots' = Extra /\ ForBots = IF bots = {} THEN 0 ELSE Extra
    BY <2>1 DEF ForBots
  <2>7. Surplus' = Surplus
    <3> DEFINE n == Len(httpClients)
    <3>1. Len(httpClients') = n /\ n \in Nat /\ Claims' = Claims /\ Claims \in Nat
      BY <1>c, <2>1, SumTypes, SumsKept
    <3>2. /\ Surplus' = (Len(httpClients') + Debt') - (PerSign + ForBots' + Claims')
          /\ Surplus = (n + Debt) - (PerSign + ForBots + Claims)
      BY DEF Surplus
    <3> HIDE DEF n
    <3>3. Surplus' = (n + Debt') - (PerSign + ForBots' + Claims)
      BY <3>1, <3>2
    <3> QED
      BY <2>5, <2>6, <3>1, <3>2, <3>3, Sizes
  <2> QED
    BY <1>d, <2>1, <2>7
<1>6. ASSUME NEW s \in Stays, StopBot(s) \/ RecoverClients(s) \/ ReturnProxies(s)
      PROVE  LenInv'
  <2>1. UNCHANGED <<webhooks, post, httpClients, bots>>
    BY <1>6 DEF StopBot, RecoverClients, ReturnProxies
  <2>2. /\ \A t \in Stays \ {s} : stop'[t] = stop[t]
        /\ stop[s] \in Asking <=> stop'[s] \in Asking
        /\ stop[s] # "keyInvalid"
    BY <1>b, <1>6 DEF StopBot, RecoverClients, ReturnProxies, Asking
  <2>3. Claims' = Claims
    BY <2>2, Sizes, ClaimsChange
  <2>4. Surplus' = Surplus
    BY <2>1, <2>3, SumsKept DEF Surplus
  <2> QED
    BY <2>1, <2>2, <2>4 DEF LenInv
<1>7. ASSUME NEW s \in Stays, RemoveBot(s)
      PROVE  LenInv'
  <2>1. /\ s \in bots /\ stop[s] = "removeBot" /\ bots' = bots \ {s}
        /\ UNCHANGED <<webhooks, post, httpClients>>
    BY <1>7 DEF RemoveBot, BotsInv
  <2>2. /\ \A t \in Stays \ {s} : stop'[t] = stop[t]
        /\ stop'[s] = IF bots' = {} THEN "webhookCount" ELSE "done"
    BY <1>b, <1>7 DEF RemoveBot
  <2>3. stop[s] \notin Asking /\ (stop'[s] \in Asking <=> bots' = {})
    BY <2>1, <2>2 DEF Asking
  <2>4. /\ Claims \in Nat /\ Claims' \in Nat
        /\ Claims' = Claims + IF bots' = {} THEN Extra ELSE 0
    BY <2>2, <2>3, Sizes, ClaimsChange
  <2>5. ForBots = Extra /\ ForBots' = IF bots' = {} THEN 0 ELSE Extra
    BY <2>1 DEF ForBots
  <2>6. Surplus' = Surplus
    BY <1>c, <2>1, <2>4, <2>5, Sizes, SumTypes, SumsKept DEF Surplus
  <2> QED
    BY <2>1, <2>2, <2>6 DEF LenInv
<1>8. ASSUME NEW s \in Stays, KeyInvalid(s)
      PROVE  LenInv'
  <2>1. /\ s \in bots /\ stop[s] = "idle" /\ UNCHANGED <<webhooks, post, httpClients>>
    BY <1>8 DEF KeyInvalid
  <2>2. stop'[s] = "keyInvalid" /\ \A t \in Stays \ {s} : stop'[t] = stop[t]
    BY <1>b, <1>8 DEF KeyInvalid
  <2>3. Claims' = Claims
    <3>1. stop[s] \notin Asking /\ stop'[s] \notin Asking
      BY <2>1, <2>2 DEF Asking
    <3> QED
      BY <2>2, <3>1, Sizes, ClaimsChange
  <2>4. ForBots = Extra /\ ForBots' \in {0, Extra}
    BY <2>1 DEF ForBots
  <2>5. Surplus' >= Surplus /\ Surplus \in Int /\ Surplus' \in Int
    BY <1>c, <2>1, <2>3, <2>4, Sizes, SumTypes, SumsKept DEF Surplus
  <2> QED
    BY <2>1, <2>2, <2>5 DEF LenInv
<1>9. ASSUME NEW s \in Stays, EndMonitor(s)
      PROVE  LenInv'
  BY <1>9 DEF EndMonitor, LenInv
<1>10. ASSUME NEW s \in Stays, Receive(s)
       PROVE  LenInv'
  <2> DEFINE from == Head(clientsChan)
  <2>1. /\ from = Loop => loop = "send"
        /\ from # Loop => from \in Stays /\ post[from] = "send"
    BY <1>10, ClientsServed DEF Receive
  <2>2. /\ stop[s] = "receive" /\ stop' = [stop EXCEPT ![s] = "returnGroup"]
        /\ UNCHANGED <<webhooks, bots>>
        /\ IF from = Loop
           THEN httpClients' = SubSeq(httpClients, Extra + 1, Len(httpClients)) /\ UNCHANGED post
           ELSE post' = [post EXCEPT ![from] = "done"] /\ UNCHANGED httpClients
    BY <1>10 DEF Receive
  <2> HIDE DEF from
  <2>3. stop'[s] = "returnGroup" /\ \A t \in Stays \ {s} : stop'[t] = stop[t]
    BY <1>b, <2>2
  <2>4. Claims \in Nat /\ Claims' \in Nat /\ Claims' = Claims - Extra
    <3>1. stop[s] \in Asking /\ stop'[s] \notin Asking
      BY <2>2, <2>3 DEF Asking
    <3> QED
      BY <2>3, <3>1, Sizes, ClaimsChange
  <2>5. Len(httpClients') + Debt' = Len(httpClients) + Debt - Extra
    <3>1. CASE from = Loop
      <4>1. Extra <= Len(httpClients)
        BY <1>c, <2>1, <3>1, Sizes DEF HoldInv
      <4>2. Len(httpClients') = Len(httpClients) - Extra
        BY <1>c, <2>2, <3>1, <4>1, Sizes, Cut
      <4> QED
        BY <1>c, <2>2, <3>1, <4>2, Sizes, SumTypes, SumsKept
    <3>2. CASE from # Loop
      <4>1. post'[from] = "done" /\ \A t \in Stays \ {from} : post'[t] = post[t]
        BY <1>a, <2>1, <2>2, <3>2
      <4>2. post[from] \in Owing /\ post'[from] \notin Owing
        BY <2>1, <3>2, <4>1 DEF Owing
      <4>3. Debt \in Nat /\ Debt' \in Nat /\ Debt' = Debt - Extra
        BY <2>1, <3>2, <4>1, <4>2, Sizes, DebtChange
      <4> QED
        BY <1>c, <2>2, <3>2, <4>3, Sizes
    <3> QED
      BY <3>1, <3>2
  <2>6. Surplus' = Surplus
    <3>1. Surplus' = (Len(httpClients') + Debt') - (PerSign + ForBots' + Claims')
      BY DEF Surplus
    <3>2. ForBots' = ForBots /\ ForBots \in Nat
      BY <2>2, Sizes DEF ForBots
    <3> QED
      BY <1>c, <2>4, <2>5, <3>1, <3>2, Sizes, SumTypes DEF Surplus
  <2>7. (\A t \in Stays : stop'[t] # "keyInvalid") => \A t \in Stays : stop[t] # "keyInvalid"
    BY <2>2, <2>3
  <2> QED
    BY <2>2, <2>6, <2>7 DEF LenInv
<1>11. ASSUME NEW o \in Others, CheckProxies(o) \/ AttachProxies(o) \/ OtherReturns(o)
       PROVE  LenInv'
  BY <1>11, <1>e DEF CheckProxies, AttachProxies, OtherReturns
<1>12. CASE UNCHANGED vars
  BY <1>12, <1>e DEF vars
<1> QED
  BY <1>1, <1>2, <1>3, <1>4, <1>5, <1>6, <1>7, <1>8, <1>9, <1>10, <1>11, <1>12
     DEF Next, LoopStep, PostStep, StopStep

-----------------------------------------------------------------------------
(* The loop crashes only while a stop asks for clients it does not have:   *)
(* then some start still owes them.                                        *)
LEMMA CrashStep ==
    ASSUME TypeOK, ChanInv, HoldInv, LenInv, CrashNeedsOvertaking, [Next]_vars
    PROVE  CrashNeedsOvertaking'
<1> SUFFICES ASSUME loop' = "crashed"
             PROVE  \E s \in Stays : post'[s] \in Owing
  BY DEF CrashNeedsOvertaking, Owing
<1>1. CASE loop = "crashed"
  <2>1. UNCHANGED vars
    BY <1>1 DEF Next, LoopStep, Poll, ReceiveClients, ReceiveReturn, ReceiveEnd, SelectDefault,
       Running, GetMonitor, AddBot, PostStep, PostBotLaunch, TakeGroup, AddClients, StopBot,
       KeyInvalid, StopStep, RemoveBot, EndMonitor, RecoverClients, Receive, ReturnProxies,
       CheckProxies, AttachProxies, OtherReturns
  <2> QED
    BY <1>1, <2>1 DEF vars, postVars, CrashNeedsOvertaking, Owing
<1>2. CASE loop # "crashed"
  <2>1. ReceiveReturn /\ Len(httpClients) < Extra /\ post' = post
    BY <1>2 DEF Next, LoopStep, Poll, ReceiveClients, ReceiveReturn, ReceiveEnd, SelectDefault,
       GetMonitor, AddBot, PostStep, PostBotLaunch, TakeGroup, AddClients, StopBot,
       KeyInvalid, StopStep, RemoveBot, EndMonitor, RecoverClients, Receive, ReturnProxies,
       CheckProxies, AttachProxies, OtherReturns, vars, postVars
  <2> DEFINE s == Head(returnChan)
  <2>2. s \in Stays /\ stop[s] = "returnChan" /\ webhooks
    BY <2>1, ReturnServed DEF ReceiveReturn, HoldInv
  <2> HIDE DEF s
  <2>3. Extra <= Claims
    <3>1. \A t \in Stays : Asked[t] \in Nat
      BY Sizes DEF Asked
    <3>2. Asked[s] = Extra
      BY <2>2 DEF Asked, Asking
    <3> QED
      BY <2>2, <3>1, <3>2, StaysFinite, TotalChange DEF Claims
  <2>4. Debt > 0
    <3>1. Surplus >= 0
      BY <2>2 DEF LenInv
    <3>2. Len(httpClients) \in Nat /\ ForBots \in Nat
      BY Sizes, LenProperties DEF TypeOK, ForBots
    <3> QED
      BY <2>1, <2>3, <3>1, <3>2, Sizes, SumTypes DEF Surplus
  <2>5. PICK t \in Stays : Owed[t] # 0
    <3>1. \A t \in Stays : Owed[t] \in Nat
      BY Sizes DEF Owed
    <3> QED
      BY <2>4, <3>1, StaysFinite, TotalZero DEF Debt
  <2> QED
    BY <2>1, <2>5 DEF Owed
<1> QED
  BY <1>1, <1>2

-----------------------------------------------------------------------------
LEMMA Counting ==
    ASSUME NEW n \in Nat, NEW k \in Nat, NEW S, \A i \in 1 .. n : i + k \in S
    PROVE  /\ [i \in 1 .. n |-> i + k] \in Seq(S)
           /\ Len([i \in 1 .. n |-> i + k]) = n
<1>1. [i \in 1 .. n |-> i + k] \in [1 .. n -> S]
  OBVIOUS
<1>2. [i \in 1 .. n |-> i + k] \in Seq(S)
  BY <1>1, SeqDef
<1> QED
  BY <1>1, <1>2, LenProperties

LEMMA InitGroups ==
    ASSUME Init
    PROVE  /\ httpClients \in Seq(Proxies) /\ pool \in Seq(Proxies)
           /\ Len(httpClients) = IF webhooks THEN PerSign ELSE PerCopy
           /\ Len(pool) = NumProxies - Len(httpClients)
           /\ \A i \in 1 .. Len(httpClients) : httpClients[i] = i
           /\ \A i \in 1 .. Len(pool) : pool[i] = i + Len(httpClients)
<1> DEFINE n == IF webhooks THEN PerSign ELSE PerCopy
<1>1. n \in Nat /\ NumProxies - n \in Nat /\ NumProxies \in Nat
  BY Sizes
<1>2. /\ httpClients = [i \in 1 .. n |-> i]
      /\ pool = [i \in 1 .. (NumProxies - Len(httpClients)) |-> i + Len(httpClients)]
  BY DEF Init
<1> HIDE DEF n
<1>3. httpClients = [i \in 1 .. n |-> i + 0]
  BY <1>1, <1>2
<1>4. \A i \in 1 .. n : i + 0 \in Proxies
  BY <1>1 DEF Proxies
<1>5. httpClients \in Seq(Proxies) /\ Len(httpClients) = n
  BY <1>1, <1>3, <1>4, Counting
<1>6. \A i \in 1 .. (NumProxies - n) : i + n \in Proxies
  BY <1>1 DEF Proxies
<1>7. pool = [i \in 1 .. (NumProxies - n) |-> i + n]
  BY <1>2, <1>5
<1>8. pool \in Seq(Proxies) /\ Len(pool) = NumProxies - n
  BY <1>1, <1>6, <1>7, Counting
<1> QED
  BY <1>2, <1>5, <1>7, <1>8 DEF n

LEMMA InitIInv ==
    ASSUME Init
    PROVE  TypeOK /\ ChanInv /\ HoldInv /\ BotsInv /\ LenInv /\ CrashNeedsOvertaking
<1>1. TypeOK
  <2>1. /\ httpClients \in Seq(Proxies) /\ pool \in Seq(Proxies) /\ monProxies \in Seq(Proxies)
    BY InitGroups DEF Init
  <2>2. /\ clientsChan \in Seq(Stays \cup {Loop}) /\ returnChan \in Seq(Stays)
        /\ hand \in [Stays -> Seq(Proxies)] /\ removed \in [Stays -> Seq(Proxies)]
        /\ taken \in [Others -> Seq(Proxies)]
    BY EmptySeq DEF Init
  <2>3. webhooks \in BOOLEAN /\ registered \in BOOLEAN
    BY DEF Init
  <2>4. /\ bots \subseteq Stays /\ active \subseteq Stays /\ ending \in Nat /\ loop = "poll"
        /\ \A s \in Stays : post[s] \in {"done", "idle"}
        /\ post = [s \in Stays |-> post[s]]
        /\ stop = [s \in Stays |-> "idle"] /\ other = [o \in Others |-> "idle"]
    BY DEF Init
  <2> QED
    BY <2>1, <2>2, <2>3, <2>4 DEF TypeOK
<1>2. ChanInv
  BY DEF Init, ChanInv
<1>3. HoldInv /\ BotsInv /\ CrashNeedsOvertaking
  BY DEF Init, HoldInv, BotsInv, CrashNeedsOvertaking
<1>4. LenInv
  <2>1. \A s \in Stays : post[s] \notin Owing /\ stop[s] \notin Asking
    BY DEF Init, Owing, Asking
  <2>2. Debt = 0 /\ Claims = 0
    <3>1. \A s \in Stays : Owed[s] = 0 /\ Asked[s] = 0
      BY <2>1 DEF Owed, Asked
    <3> QED
      BY <3>1, StaysFinite, TotalZero DEF Debt, Claims
  <2>3. webhooks => ForBots = 0 /\ Len(httpClients) = PerSign
    BY InitGroups DEF Init, ForBots
  <2>4. webhooks => Surplus = 0
    BY <2>2, <2>3, Sizes DEF Surplus
  <2> QED
    BY <2>4 DEF LenInv
<1> QED
  BY <1>1, <1>2, <1>3, <1>4

-----------------------------------------------------------------------------
(* How often a proxy is in a sequence.                                     *)
LEMMA PlacesFinite ==
    ASSUME NEW S, NEW seq \in Seq(S), NEW p
    PROVE  /\ IsFiniteSet({i \in DOMAIN seq : seq[i] = p})
           /\ Occurrences(seq, p) \in Nat
<1>1. DOMAIN seq = 1 .. Len(seq) /\ Len(seq) \in Nat
  BY LenProperties
<1>2. IsFiniteSet({i \in DOMAIN seq : seq[i] = p})
  BY <1>1, UpTo, FS_Subset
<1> QED
  BY <1>2, FS_CardinalityType DEF Occurrences

LEMMA NoOccurrence ==
    ASSUME NEW seq, NEW p, \A i \in DOMAIN seq : seq[i] # p
    PROVE  Occurrences(seq, p) = 0
<1>1. {i \in DOMAIN seq : seq[i] = p} = {}
  OBVIOUS
<1> QED
  BY <1>1, FS_EmptySet DEF Occurrences

LEMMA EmptyHasNone ==
    ASSUME NEW p
    PROVE  Occurrences(<<>>, p) = 0
<1>1. DOMAIN <<>> = {}
  BY EmptySeq
<1> QED
  BY <1>1, NoOccurrence

LEMMA OneOccurrence ==
    ASSUME NEW seq, NEW p, NEW k \in DOMAIN seq, \A i \in DOMAIN seq : seq[i] = p <=> i = k
    PROVE  Occurrences(seq, p) = 1
<1>1. {i \in DOMAIN seq : seq[i] = p} = {k}
  OBVIOUS
<1> QED
  BY <1>1, FS_Singleton DEF Occurrences

(* Two groups put together have what each of them has.                     *)
LEMMA ConcatOccurrences ==
    ASSUME NEW S, NEW a \in Seq(S), NEW b \in Seq(S), NEW p
    PROVE  Occurrences(a \o b, p) = Occurrences(a, p) + Occurrences(b, p)
<1> DEFINE m == Len(a)
           A == {i \in DOMAIN a : a[i] = p}
           B == {i \in DOMAIN b : b[i] = p}
           C == {i \in DOMAIN (a \o b) : (a \o b)[i] = p}
           D == {i + m : i \in B}
<1>1. /\ m \in Nat /\ Len(b) \in Nat
      /\ DOMAIN a = 1 .. m /\ DOMAIN b = 1 .. Len(b)
  BY LenProperties
<1>2. /\ DOMAIN (a \o b) = 1 .. (m + Len(b))
      /\ \A i \in 1 .. (m + Len(b)) :
            (a \o b)[i] = IF i <= m THEN a[i] ELSE b[i - m]
  <2>1. /\ a \o b \in Seq(S) /\ Len(a \o b) = m + Len(b)
        /\ \A i \in 1 .. (m + Len(b)) :
              (a \o b)[i] = IF i <= m THEN a[i] ELSE b[i - m]
    BY ConcatProperties
  <2> QED
    BY <2>1, LenProperties
<1>3. C = A \cup D
  <2>1. ASSUME NEW i \in C
        PROVE  i \in A \cup D
    <3>1. i \in 1 .. (m + Len(b)) /\ (a \o b)[i] = p
      BY <1>2
    <3>2. CASE i <= m
      BY <1>1, <1>2, <3>1, <3>2
    <3>3. CASE i > m
      <4>1. i - m \in 1 .. Len(b) /\ b[i - m] = p /\ i = (i - m) + m
        BY <1>1, <1>2, <3>1, <3>3
      <4> QED
        BY <1>1, <4>1
    <3> QED
      BY <1>1, <3>1, <3>2, <3>3
  <2>2. ASSUME NEW i \in A
        PROVE  i \in C
    <3>1. i \in 1 .. m /\ a[i] = p
      BY <1>1
    <3>2. i \in 1 .. (m + Len(b)) /\ i <= m
      BY <1>1, <3>1
    <3> QED
      BY <1>2, <3>1, <3>2
  <2>3. ASSUME NEW i \in B
        PROVE  i + m \in C
    <3>1. i \in 1 .. Len(b) /\ b[i] = p
      BY <1>1
    <3>2. i + m \in 1 .. (m + Len(b)) /\ ~ (i + m <= m) /\ (i + m) - m = i
      BY <1>1, <3>1
    <3>3. (a \o b)[i + m] = p
      BY <1>2, <3>1, <3>2
    <3> QED
      BY <1>2, <3>2, <3>3
  <2> QED
    BY <2>1, <2>2, <2>3
<1>4. A \cap D = {}
  <2>1. \A i \in A : i \in 1 .. m
    BY <1>1
  <2>2. \A i \in B : i \in 1 .. Len(b)
    BY <1>1
  <2> QED
    BY <1>1, <2>1, <2>2
<1>5. IsFiniteSet(A) /\ IsFiniteSet(B)
  BY PlacesFinite
<1>6. IsFiniteSet(D) /\ Cardinality(D) = Cardinality(B)
  <2> DEFINE f == [i \in B |-> i + m]
  <2>1. \A i \in B : i \in Int
    BY <1>1
  <2>2. f \in Bijection(B, D)
    <3>1. f \in [B -> D] /\ \A d \in D : \E i \in B : f[i] = d
      OBVIOUS
    <3>2. \A i, j \in B : i + m = j + m => i = j
      BY <1>1, <2>1
    <3>3. \A i, j \in B : f[i] = f[j] => i = j
      BY <3>2
    <3> HIDE DEF f, B, D
    <3> QED
      BY <3>1, <3>3 DEF Bijection, Injection, Surjection, IsInjective
  <2>3. ExistsBijection(B, D)
    BY <2>2 DEF ExistsBijection
  <2> HIDE DEF B, D
  <2> QED
    BY <1>5, <2>3, FS_Bijection
<1>7. /\ Occurrences(a, p) = Cardinality(A) /\ Occurrences(b, p) = Cardinality(B)
      /\ Occurrences(a \o b, p) = Cardinality(C)
  BY DEF Occurrences
<1> HIDE DEF A, B, C, D
<1>8. Cardinality(A \cup D) = Cardinality(A) + Cardinality(D) - Cardinality(A \cap D)
  BY <1>5, <1>6, FS_Union
<1>9. Cardinality(A) \in Nat /\ Cardinality(D) \in Nat /\ Cardinality(A \cap D) = 0
  BY <1>4, <1>5, <1>6, FS_CardinalityType, FS_EmptySet
<1> QED
  BY <1>3, <1>6, <1>7, <1>8, <1>9

(* A group and what it was cut off have what the whole had.                *)
LEMMA CutOccurrences ==
    ASSUME NEW S, NEW seq \in Seq(S), NEW n \in Nat, n <= Len(seq), NEW p
    PROVE  Occurrences(seq, p)
           = Occurrences(SubSeq(seq, 1, n), p) + Occurrences(SubSeq(seq, n + 1, Len(seq)), p)
<1>1. /\ SubSeq(seq, 1, n) \in Seq(S)
      /\ SubSeq(seq, n + 1, Len(seq)) \in Seq(S)
  BY Cut
<1>2. SubSeq(seq, 1, n) \o SubSeq(seq, n + 1, Len(seq)) = seq
  <2>1. Len(seq) \in Nat
    BY LenProperties
  <2>2. /\ 1 \in 1 .. Len(seq) + 1 /\ n \in 1 - 1 .. Len(seq)
        /\ Len(seq) \in n .. Len(seq)
    BY <2>1
  <2>3. SubSeq(seq, 1, n) \o SubSeq(seq, n + 1, Len(seq)) = SubSeq(seq, 1, Len(seq))
    BY <2>2, ConcatAdjacentSubSeq
  <2> QED
    BY <2>3, SubSeqFull
<1> DEFINE a == SubSeq(seq, 1, n)
           b == SubSeq(seq, n + 1, Len(seq))
<1>3. a \in Seq(S) /\ b \in Seq(S) /\ a \o b = seq
  BY <1>1, <1>2
<1> HIDE DEF a, b
<1>4. Occurrences(a \o b, p) = Occurrences(a, p) + Occurrences(b, p)
  BY <1>3, ConcatOccurrences
<1> QED
  BY <1>3, <1>4 DEF a, b

-----------------------------------------------------------------------------
(* A sum in which two summands change, or one.                             *)
LEMMA TotalChangeTwo ==
    ASSUME NEW S, IsFiniteSet(S), NEW x \in S, NEW y \in S,
           NEW f, \A z \in S : f[z] \in Nat,
           NEW g, \A z \in S : g[z] \in Nat,
           \A z \in S \ {x, y} : g[z] = f[z],
           IF x = y THEN g[x] = f[x] ELSE g[x] + g[y] = f[x] + f[y]
    PROVE  Total(g, S) = Total(f, S)
<1> DEFINE h == [z \in S |-> IF z = x THEN g[z] ELSE f[z]]
<1>1. /\ \A z \in S : h[z] \in Nat
      /\ \A z \in S \ {x} : h[z] = f[z]
      /\ \A z \in S \ {y} : z = x \/ h[z] = g[z]
      /\ h[x] = g[x]
      /\ x # y => h[y] = f[y]
  OBVIOUS
<1> HIDE DEF h
<1>2. Total(h, S) = Total(f, S) - f[x] + h[x]
  BY <1>1, TotalChange
<1>3. \A z \in S \ {y} : g[z] = h[z]
  BY <1>1
<1>4. Total(g, S) = Total(h, S) - h[y] + g[y]
  BY <1>1, <1>3, TotalChange
<1>5. Total(f, S) \in Nat /\ Total(g, S) \in Nat /\ Total(h, S) \in Nat
  BY <1>1, TotalType
<1>6. /\ f[x] \in Nat /\ f[y] \in Nat /\ g[x] \in Nat /\ g[y] \in Nat
      /\ h[x] \in Nat /\ h[y] \in Nat
  BY <1>1
<1>7. CASE x = y
  BY <1>1, <1>2, <1>4, <1>5, <1>6, <1>7
<1>8. CASE x # y
  BY <1>1, <1>2, <1>4, <1>5, <1>6, <1>8
<1> QED
  BY <1>7, <1>8

(* Where a proxy is: in the hands of the goroutines of starts and stops,   *)
(* with the other launches, and everywhere.                                *)
InHands(p) == Total([s \in Stays |-> Occurrences(hand[s], p) + Occurrences(removed[s], p)], Stays)
OutThere(p) == Total([o \in Others |-> Occurrences(taken[o], p)], Others)
Owners(p) == (Occurrences(pool, p) + Occurrences(httpClients, p)) + (InHands(p) + OutThere(p))

LEMMA OwnersTypes ==
    ASSUME TypeOK, NEW p
    PROVE  /\ Occurrences(pool, p) \in Nat /\ Occurrences(httpClients, p) \in Nat
           /\ \A s \in Stays : Occurrences(hand[s], p) \in Nat /\ Occurrences(removed[s], p) \in Nat
           /\ \A o \in Others : Occurrences(taken[o], p) \in Nat
           /\ InHands(p) \in Nat /\ OutThere(p) \in Nat
<1>1. /\ pool \in Seq(Proxies) /\ httpClients \in Seq(Proxies)
      /\ \A s \in Stays : hand[s] \in Seq(Proxies) /\ removed[s] \in Seq(Proxies)
      /\ \A o \in Others : taken[o] \in Seq(Proxies)
  BY DEF TypeOK
<1>2. /\ Occurrences(pool, p) \in Nat /\ Occurrences(httpClients, p) \in Nat
      /\ \A s \in Stays : Occurrences(hand[s], p) \in Nat /\ Occurrences(removed[s], p) \in Nat
      /\ \A o \in Others : Occurrences(taken[o], p) \in Nat
  BY <1>1, PlacesFinite
<1>3. InHands(p) \in Nat
  <2> DEFINE f == [s \in Stays |-> Occurrences(hand[s], p) + Occurrences(removed[s], p)]
  <2>1. \A s \in Stays : f[s] \in Nat
    BY <1>2
  <2>2. InHands(p) = Total(f, Stays)
    BY DEF InHands
  <2> HIDE DEF f
  <2> QED
    BY <2>1, <2>2, StaysFinite, TotalType
<1>4. OutThere(p) \in Nat
  <2> DEFINE f == [o \in Others |-> Occurrences(taken[o], p)]
  <2>1. \A o \in Others : f[o] \in Nat
    BY <1>2
  <2>2. OutThere(p) = Total(f, Others)
    BY DEF OutThere
  <2> HIDE DEF f
  <2> QED
    BY <2>1, <2>2, BoundsAssumption, TotalType
<1> QED
  BY <1>2, <1>3, <1>4

(* The goroutines of one stay take or give up a group.                     *)
LEMMA HandsChange ==
    ASSUME TypeOK, TypeOK', NEW p, NEW s \in Stays,
           \A t \in Stays \ {s} : hand'[t] = hand[t] /\ removed'[t] = removed[t]
    PROVE  InHands(p)' = InHands(p) - (Occurrences(hand[s], p) + Occurrences(removed[s], p))
                         + (Occurrences(hand'[s], p) + Occurrences(removed'[s], p))
<1> DEFINE f == [t \in Stays |-> Occurrences(hand[t], p) + Occurrences(removed[t], p)]
           g == [t \in Stays |-> Occurrences(hand'[t], p) + Occurrences(removed'[t], p)]
<1>1. \A t \in Stays : hand'[t] \in Seq(Proxies) /\ removed'[t] \in Seq(Proxies)
  BY DEF TypeOK
<1>2. \A t \in Stays : Occurrences(hand'[t], p) \in Nat /\ Occurrences(removed'[t], p) \in Nat
  BY <1>1, PlacesFinite
<1>3. /\ \A t \in Stays : f[t] \in Nat /\ g[t] \in Nat
      /\ \A t \in Stays \ {s} : g[t] = f[t]
  <2>1. \A t \in Stays : Occurrences(hand[t], p) \in Nat /\ Occurrences(removed[t], p) \in Nat
    BY OwnersTypes
  <2>2. \A t \in Stays : f[t] \in Nat
    BY <2>1
  <2>3. \A t \in Stays : g[t] \in Nat
    BY <1>2
  <2>4. \A t \in Stays \ {s} : g[t] = f[t]
    OBVIOUS
  <2> QED
    BY <2>2, <2>3, <2>4
<1>4. /\ f[s] = Occurrences(hand[s], p) + Occurrences(removed[s], p)
      /\ g[s] = Occurrences(hand'[s], p) + Occurrences(removed'[s], p)
  OBVIOUS
<1>5. InHands(p) = Total(f, Stays) /\ InHands(p)' = Total(g, Stays)
  BY DEF InHands, Occurrences
<1> HIDE DEF f, g
<1>6. Total(g, Stays) = Total(f, Stays) - f[s] + g[s]
  BY <1>3, StaysFinite, TotalChange
<1> QED
  BY <1>4, <1>5, <1>6

LEMMA OutThereChange ==
    ASSUME TypeOK, TypeOK', NEW p, NEW o \in Others,
           \A t \in Others \ {o} : taken'[t] = taken[t]
    PROVE  OutThere(p)' = OutThere(p) - Occurrences(taken[o], p) + Occurrences(taken'[o], p)
<1> DEFINE f == [t \in Others |-> Occurrences(taken[t], p)]
           g == [t \in Others |-> Occurrences(taken'[t], p)]
<1>1. \A t \in Others : taken'[t] \in Seq(Proxies)
  BY DEF TypeOK
<1>2. /\ \A t \in Others : f[t] \in Nat /\ g[t] \in Nat
      /\ \A t \in Others \ {o} : g[t] = f[t]
  BY <1>1, PlacesFinite, OwnersTypes
<1>3. f[o] = Occurrences(taken[o], p) /\ g[o] = Occurrences(taken'[o], p)
  OBVIOUS
<1>4. OutThere(p) = Total(f, Others) /\ OutThere(p)' = Total(g, Others)
  BY DEF OutThere, Occurrences
<1> HIDE DEF f, g
<1>5. Total(g, Others) = Total(f, Others) - f[o] + g[o]
  BY <1>2, BoundsAssumption, TotalChange
<1> QED
  BY <1>3, <1>4, <1>5

LEMMA PlacesKept ==
    ASSUME NEW p
    PROVE  /\ UNCHANGED <<hand, removed>> => InHands(p)' = InHands(p)
           /\ UNCHANGED taken => OutThere(p)' = OutThere(p)
BY DEF InHands, OutThere, Occurrences

(* Proxies only move: no step makes two of one, or loses one, but the one  *)
(* with which a monitor without webhooks is told to end.                   *)
LEMMA ProxiesMove ==
    ASSUME TypeOK, TypeOK', ChanInv, HoldInv, Accounted', [Next]_vars, NEW p
    PROVE  Owners(p)' = Owners(p)
<1> USE DEF channelVars, monitorVars, postVars, stopVars, otherVars
<1>a. /\ Occurrences(pool, p) \in Nat /\ Occurrences(httpClients, p) \in Nat
      /\ \A s \in Stays : Occurrences(hand[s], p) \in Nat /\ Occurrences(removed[s], p) \in Nat
      /\ \A o \in Others : Occurrences(taken[o], p) \in Nat
      /\ InHands(p) \in Nat /\ OutThere(p) \in Nat
  BY OwnersTypes
<1>b. Occurrences(<<>>, p) = 0
  BY EmptyHasNone
<1>c. Owners(p)' = (Occurrences(pool', p) + Occurrences(httpClients', p))
                   + (InHands(p)' + OutThere(p)')
  BY DEF Owners, Occurrences
<1>d. ASSUME UNCHANGED <<pool, httpClients, hand, removed, taken>>
      PROVE  Owners(p)' = Owners(p)
  BY <1>c, <1>d, PlacesKept DEF Owners
<1>e. /\ pool \in Seq(Proxies) /\ httpClients \in Seq(Proxies)
      /\ hand \in [Stays -> Seq(Proxies)] /\ removed \in [Stays -> Seq(Proxies)]
      /\ taken \in [Others -> Seq(Proxies)]
  BY DEF TypeOK
<1>1. CASE Poll \/ SelectDefault \/ ReceiveEnd \/ ReceiveReturn
  BY <1>1, <1>d DEF Poll, SelectDefault, ReceiveEnd, ReceiveReturn
<1>2. CASE ReceiveClients
  <2> DEFINE s == Head(clientsChan)
  <2>1. s \in Stays
    BY <1>2, ClientsServed DEF ReceiveClients
  <2>2. /\ httpClients' = httpClients \o hand[s] /\ hand' = [hand EXCEPT ![s] = <<>>]
        /\ UNCHANGED <<pool, removed, taken>>
    BY <1>2 DEF ReceiveClients
  <2> HIDE DEF s
  <2>3. Occurrences(httpClients', p) = Occurrences(httpClients, p) + Occurrences(hand[s], p)
    BY <1>e, <2>1, <2>2, ConcatOccurrences
  <2>4. /\ hand'[s] = <<>> /\ removed'[s] = removed[s]
        /\ \A t \in Stays \ {s} : hand'[t] = hand[t] /\ removed'[t] = removed[t]
    BY <1>e, <2>1, <2>2
  <2>5. InHands(p)' = InHands(p) - (Occurrences(hand[s], p) + Occurrences(removed[s], p))
                      + (0 + Occurrences(removed[s], p))
    BY <1>b, <2>1, <2>4, HandsChange
  <2>6. Occurrences(hand[s], p) \in Nat /\ Occurrences(removed[s], p) \in Nat
    BY <1>a, <2>1
  <2>7. OutThere(p)' = OutThere(p) /\ Occurrences(pool', p) = Occurrences(pool, p)
    BY <2>2, PlacesKept
  <2> QED
    BY <1>a, <1>c, <2>3, <2>5, <2>6, <2>7 DEF Owners
<1>3. ASSUME NEW s \in Stays,
             GetMonitor(s) \/ AddBot(s) \/ PostBotLaunch(s) \/ AddClients(s) \/ StopBot(s)
                \/ RemoveBot(s) \/ KeyInvalid(s) \/ RecoverClients(s)
      PROVE  Owners(p)' = Owners(p)
  BY <1>3, <1>d DEF GetMonitor, AddBot, PostBotLaunch, AddClients, StopBot, RemoveBot, KeyInvalid,
     RecoverClients
<1>4. ASSUME NEW s \in Stays, TakeGroup(s)
      PROVE  Owners(p)' = Owners(p)
  <2>1. CASE ~ HasGroup(Extra)
    BY <1>4, <1>d, <2>1 DEF TakeGroup
  <2>2. CASE HasGroup(Extra)
    <3>1. /\ hand' = [hand EXCEPT ![s] = NextGroup(Extra)] /\ pool' = PoolAfter(Extra)
          /\ hand[s] = <<>> /\ UNCHANGED <<httpClients, removed, taken>>
      BY <1>4, <2>2 DEF TakeGroup, HoldInv
    <3>2. Extra <= Len(pool)
      BY <1>e, <2>2, Sizes, LenProperties DEF HasGroup
    <3>3. Occurrences(pool, p)
          = Occurrences(NextGroup(Extra), p) + Occurrences(PoolAfter(Extra), p)
      BY <1>e, <3>2, Sizes, CutOccurrences DEF NextGroup, PoolAfter
    <3>4. /\ hand'[s] = NextGroup(Extra) /\ removed'[s] = removed[s]
          /\ \A t \in Stays \ {s} : hand'[t] = hand[t] /\ removed'[t] = removed[t]
      BY <1>e, <3>1
    <3>5. InHands(p)' = InHands(p) - (0 + Occurrences(removed[s], p))
                        + (Occurrences(NextGroup(Extra), p) + Occurrences(removed[s], p))
      BY <1>b, <3>1, <3>4, HandsChange
    <3>6. /\ Occurrences(removed[s], p) \in Nat
          /\ Occurrences(NextGroup(Extra), p) \in Nat /\ Occurrences(PoolAfter(Extra), p) \in Nat
      <4>1. NextGroup(Extra) \in Seq(Proxies) /\ PoolAfter(Extra) \in Seq(Proxies)
        BY <1>e, <3>2, Sizes, Cut DEF NextGroup, PoolAfter
      <4> QED
        BY <1>a, <4>1, PlacesFinite
    <3>7. /\ OutThere(p)' = OutThere(p)
          /\ Occurrences(httpClients', p) = Occurrences(httpClients, p)
          /\ Occurrences(pool', p) = Occurrences(PoolAfter(Extra), p)
      BY <3>1, PlacesKept
    <3> QED
      BY <1>a, <1>c, <3>3, <3>5, <3>6, <3>7 DEF Owners
  <2> QED
    BY <2>1, <2>2
<1>5. ASSUME NEW s \in Stays, EndMonitor(s)
      PROVE  Owners(p)' = Owners(p)
  BY <1>5 DEF EndMonitor, Accounted
<1>6. ASSUME NEW s \in Stays, Receive(s)
      PROVE  Owners(p)' = Owners(p)
  <2> DEFINE from == Head(clientsChan)
  <2>1. /\ from = Loop => loop = "send"
        /\ from # Loop => from \in Stays
    BY <1>6, ClientsServed DEF Receive
  <2>2. /\ UNCHANGED <<pool, taken>> /\ removed[s] = <<>>
        /\ IF from = Loop
           THEN /\ removed' = [removed EXCEPT ![s] = SubSeq(httpClients, 1, Extra)]
                /\ httpClients' = SubSeq(httpClients, Extra + 1, Len(httpClients))
                /\ UNCHANGED hand
           ELSE /\ removed' = [removed EXCEPT ![s] = hand[from]]
                /\ hand' = [hand EXCEPT ![from] = <<>>]
                /\ UNCHANGED httpClients
    BY <1>6 DEF Receive, HoldInv
  <2> HIDE DEF from
  <2>3. OutThere(p)' = OutThere(p) /\ Occurrences(pool', p) = Occurrences(pool, p)
    BY <2>2, PlacesKept
  <2>4. CASE from = Loop
    <3> DEFINE group == SubSeq(httpClients, 1, Extra)
    <3>1. Extra <= Len(httpClients)
      BY <2>1, <2>4, Sizes, LenProperties, <1>e DEF HoldInv
    <3>2. /\ Occurrences(httpClients, p) = Occurrences(group, p) + Occurrences(httpClients', p)
          /\ group \in Seq(Proxies) /\ httpClients' \in Seq(Proxies)
      <4> DEFINE rest == SubSeq(httpClients, Extra + 1, Len(httpClients))
      <4>1. Occurrences(httpClients, p) = Occurrences(group, p) + Occurrences(rest, p)
        BY <1>e, <3>1, Sizes, CutOccurrences
      <4>2. group \in Seq(Proxies) /\ rest \in Seq(Proxies) /\ httpClients' = rest
        BY <1>e, <2>2, <2>4, <3>1, Sizes, Cut
      <4> HIDE DEF group, rest
      <4> QED
        BY <4>1, <4>2
    <3>3. /\ removed'[s] = group /\ hand'[s] = hand[s]
          /\ \A t \in Stays \ {s} : hand'[t] = hand[t] /\ removed'[t] = removed[t]
      BY <1>e, <2>2, <2>4
    <3> HIDE DEF group
    <3>4. InHands(p)' = InHands(p) - (Occurrences(hand[s], p) + 0)
                        + (Occurrences(hand[s], p) + Occurrences(group, p))
      BY <1>b, <2>2, <3>3, HandsChange
    <3>5. /\ Occurrences(hand[s], p) \in Nat /\ Occurrences(group, p) \in Nat
          /\ Occurrences(httpClients', p) \in Nat
      BY <1>a, <3>2, PlacesFinite
    <3>6. InHands(p)' = InHands(p) + Occurrences(group, p)
      <4>1. InHands(p) \in Nat
        BY <1>a
      <4> QED
        BY <3>4, <3>5, <4>1
    <3>7. Owners(p)' = (Occurrences(pool, p) + Occurrences(httpClients', p))
                       + ((InHands(p) + Occurrences(group, p)) + OutThere(p))
      BY <1>c, <2>3, <3>6
    <3>8. Owners(p) = (Occurrences(pool, p)
                       + (Occurrences(group, p) + Occurrences(httpClients', p)))
                      + (InHands(p) + OutThere(p))
      BY <3>2 DEF Owners
    <3> QED
      BY <1>a, <3>5, <3>7, <3>8
  <2>5. CASE from # Loop
    <3> DEFINE f == [t \in Stays |-> Occurrences(hand[t], p) + Occurrences(removed[t], p)]
               g == [t \in Stays |-> Occurrences(hand'[t], p) + Occurrences(removed'[t], p)]
    <3>1. /\ from \in Stays /\ hand'[from] = <<>> /\ removed'[s] = hand[from]
          /\ removed[s] = <<>>
          /\ \A t \in Stays \ {from} : hand'[t] = hand[t]
          /\ \A t \in Stays \ {s} : removed'[t] = removed[t]
      BY <1>e, <2>1, <2>2, <2>5
    <3>2. \A t \in Stays : Occurrences(hand'[t], p) \in Nat /\ Occurrences(removed'[t], p) \in Nat
      <4>1. \A t \in Stays : hand'[t] \in Seq(Proxies) /\ removed'[t] \in Seq(Proxies)
        BY DEF TypeOK
      <4> QED
        BY <4>1, PlacesFinite
    <3>3. \A t \in Stays : f[t] \in Nat
      BY <1>a
    <3>4. \A t \in Stays : g[t] \in Nat
      BY <3>2
    <3>5. \A t \in Stays \ {from, s} : g[t] = f[t]
      BY <3>1
    <3>6. IF from = s THEN g[from] = f[from] ELSE g[from] + g[s] = f[from] + f[s]
      <4>1. CASE from = s
        BY <1>a, <1>b, <3>1, <4>1
      <4>2. CASE from # s
        <5>1. /\ f[from] = Occurrences(hand[from], p) + Occurrences(removed[from], p)
              /\ f[s] = Occurrences(hand[s], p) + 0
              /\ g[from] = 0 + Occurrences(removed[from], p)
              /\ g[s] = Occurrences(hand[s], p) + Occurrences(hand[from], p)
          BY <1>b, <3>1, <4>2
        <5>2. /\ Occurrences(hand[from], p) \in Nat /\ Occurrences(removed[from], p) \in Nat
              /\ Occurrences(hand[s], p) \in Nat
          BY <1>a, <3>1
        <5> HIDE DEF f, g
        <5> QED
          BY <4>2, <5>1, <5>2
      <4> QED
        BY <4>1, <4>2
    <3>7. InHands(p) = Total(f, Stays) /\ InHands(p)' = Total(g, Stays)
      BY DEF InHands, Occurrences
    <3> HIDE DEF f, g
    <3>8. InHands(p)' = InHands(p)
      BY <3>1, <3>3, <3>4, <3>5, <3>6, <3>7, StaysFinite, TotalChangeTwo
    <3>9. Occurrences(httpClients', p) = Occurrences(httpClients, p)
      BY <2>2, <2>5
    <3> QED
      BY <1>a, <1>c, <2>3, <3>8, <3>9 DEF Owners
  <2> QED
    BY <2>4, <2>5
<1>7. ASSUME NEW s \in Stays, ReturnProxies(s)
      PROVE  Owners(p)' = Owners(p)
  <2>1. /\ pool' = pool \o removed[s] /\ removed' = [removed EXCEPT ![s] = <<>>]
        /\ UNCHANGED <<httpClients, hand, taken>>
    BY <1>7 DEF ReturnProxies, ReturnGroup
  <2>2. Occurrences(pool', p) = Occurrences(pool, p) + Occurrences(removed[s], p)
    BY <1>e, <2>1, ConcatOccurrences
  <2>3. /\ removed'[s] = <<>> /\ hand'[s] = hand[s]
        /\ \A t \in Stays \ {s} : hand'[t] = hand[t] /\ removed'[t] = removed[t]
    BY <1>e, <2>1
  <2>4. InHands(p)' = InHands(p) - (Occurrences(hand[s], p) + Occurrences(removed[s], p))
                      + (Occurrences(hand[s], p) + 0)
    BY <1>b, <2>3, HandsChange
  <2>5. /\ Occurrences(hand[s], p) \in Nat /\ Occurrences(removed[s], p) \in Nat
    BY <1>a
  <2>6. OutThere(p)' = OutThere(p) /\ Occurrences(httpClients', p) = Occurrences(httpClients, p)
    BY <2>1, PlacesKept
  <2> QED
    BY <1>a, <1>c, <2>2, <2>4, <2>5, <2>6 DEF Owners
<1>8. ASSUME NEW o \in Others, CheckProxies(o)
      PROVE  Owners(p)' = Owners(p)
  BY <1>8, <1>d DEF CheckProxies
<1>9. ASSUME NEW o \in Others, AttachProxies(o)
      PROVE  Owners(p)' = Owners(p)
  <2>1. CASE ~ HasGroup(PerCopy)
    BY <1>9, <1>d, <2>1 DEF AttachProxies
  <2>2. CASE HasGroup(PerCopy)
    <3>1. /\ taken' = [taken EXCEPT ![o] = NextGroup(PerCopy)] /\ pool' = PoolAfter(PerCopy)
          /\ taken[o] = <<>> /\ UNCHANGED <<httpClients, hand, removed>>
      BY <1>9, <2>2 DEF AttachProxies, HoldInv
    <3>2. PerCopy \in Nat /\ PerCopy <= Len(pool)
      BY <1>e, <2>2, Sizes, LenProperties DEF HasGroup
    <3>3. Occurrences(pool, p)
          = Occurrences(NextGroup(PerCopy), p) + Occurrences(PoolAfter(PerCopy), p)
      BY <1>e, <3>2, CutOccurrences DEF NextGroup, PoolAfter
    <3>4. taken'[o] = NextGroup(PerCopy) /\ \A t \in Others \ {o} : taken'[t] = taken[t]
      BY <1>e, <3>1
    <3>5. OutThere(p)' = OutThere(p) - 0 + Occurrences(NextGroup(PerCopy), p)
      BY <1>b, <3>1, <3>4, OutThereChange
    <3>6. Occurrences(NextGroup(PerCopy), p) \in Nat /\ Occurrences(PoolAfter(PerCopy), p) \in Nat
      <4>1. NextGroup(PerCopy) \in Seq(Proxies) /\ PoolAfter(PerCopy) \in Seq(Proxies)
        BY <1>e, <3>2, Cut DEF NextGroup, PoolAfter
      <4> QED
        BY <4>1, PlacesFinite
    <3>7. /\ InHands(p)' = InHands(p)
          /\ Occurrences(httpClients', p) = Occurrences(httpClients, p)
          /\ Occurrences(pool', p) = Occurrences(PoolAfter(PerCopy), p)
      BY <3>1, PlacesKept
    <3> QED
      BY <1>a, <1>c, <3>3, <3>5, <3>6, <3>7 DEF Owners
  <2> QED
    BY <2>1, <2>2
<1>10. ASSUME NEW o \in Others, OtherReturns(o)
       PROVE  Owners(p)' = Owners(p)
  <2>1. /\ pool' = pool \o taken[o] /\ taken' = [taken EXCEPT ![o] = <<>>]
        /\ UNCHANGED <<httpClients, hand, removed>>
    BY <1>10 DEF OtherReturns, ReturnGroup
  <2>2. Occurrences(pool', p) = Occurrences(pool, p) + Occurrences(taken[o], p)
    BY <1>e, <2>1, ConcatOccurrences
  <2>3. taken'[o] = <<>> /\ \A t \in Others \ {o} : taken'[t] = taken[t]
    BY <1>e, <2>1
  <2>4. OutThere(p)' = OutThere(p) - Occurrences(taken[o], p) + 0
    BY <1>b, <2>3, OutThereChange
  <2>5. Occurrences(taken[o], p) \in Nat
    BY <1>a
  <2>6. InHands(p)' = InHands(p) /\ Occurrences(httpClients', p) = Occurrences(httpClients, p)
    BY <2>1, PlacesKept
  <2> QED
    BY <1>a, <1>c, <2>2, <2>4, <2>5, <2>6 DEF Owners
<1>11. CASE UNCHANGED vars
  BY <1>11, <1>d DEF vars
<1> QED
  BY <1>1, <1>2, <1>3, <1>4, <1>5, <1>6, <1>7, <1>8, <1>9, <1>10, <1>11
     DEF Next, LoopStep, PostStep, StopStep

(* At first the proxies 1 .. n are in use and the others in the pool.      *)
LEMMA InitOwners ==
    ASSUME Init, NEW p \in Proxies
    PROVE  Owners(p) = 1
<1> DEFINE n == Len(httpClients)
<1>1. /\ n \in Nat /\ DOMAIN httpClients = 1 .. n
      /\ Len(pool) = NumProxies - n /\ NumProxies - n \in Nat
      /\ DOMAIN pool = 1 .. (NumProxies - n)
      /\ p \in 1 .. NumProxies /\ NumProxies \in Nat
  <2>1. /\ httpClients \in Seq(Proxies) /\ pool \in Seq(Proxies)
        /\ Len(pool) = NumProxies - n
    BY InitGroups
  <2> QED
    BY <2>1, Sizes, LenProperties DEF Proxies
<1>2. /\ \A i \in 1 .. n : httpClients[i] = i
      /\ \A i \in 1 .. (NumProxies - n) : pool[i] = i + n
  BY <1>1, InitGroups
<1>3. InHands(p) = 0 /\ OutThere(p) = 0
  <2> DEFINE f == [s \in Stays |-> Occurrences(hand[s], p) + Occurrences(removed[s], p)]
             g == [o \in Others |-> Occurrences(taken[o], p)]
  <2>1. /\ \A s \in Stays : hand[s] = <<>> /\ removed[s] = <<>>
        /\ \A o \in Others : taken[o] = <<>>
    BY DEF Init
  <2>2. (\A s \in Stays : f[s] = 0) /\ (\A o \in Others : g[o] = 0)
    BY <2>1, EmptyHasNone
  <2>3. InHands(p) = Total(f, Stays) /\ OutThere(p) = Total(g, Others)
    BY DEF InHands, OutThere
  <2> HIDE DEF f, g
  <2> QED
    BY <2>2, <2>3, StaysFinite, BoundsAssumption, TotalZero
<1> HIDE DEF n
<1>4. CASE p <= n
  <2>1. Occurrences(httpClients, p) = 1
    <3>1. p \in DOMAIN httpClients /\ \A i \in DOMAIN httpClients : httpClients[i] = p <=> i = p
      BY <1>1, <1>2, <1>4
    <3> QED
      BY <3>1, OneOccurrence
  <2>2. Occurrences(pool, p) = 0
    <3>1. \A i \in DOMAIN pool : pool[i] # p
      BY <1>1, <1>2, <1>4
    <3> QED
      BY <3>1, NoOccurrence
  <2> QED
    BY <1>3, <2>1, <2>2 DEF Owners
<1>5. CASE p > n
  <2>1. Occurrences(httpClients, p) = 0
    <3>1. \A i \in DOMAIN httpClients : httpClients[i] # p
      BY <1>1, <1>2, <1>5
    <3> QED
      BY <3>1, NoOccurrence
  <2>2. Occurrences(pool, p) = 1
    <3>1. p - n \in DOMAIN pool /\ \A i \in DOMAIN pool : pool[i] = p <=> i = p - n
      BY <1>1, <1>2, <1>5
    <3> QED
      BY <3>1, OneOccurrence
  <2> QED
    BY <1>3, <2>1, <2>2 DEF Owners
<1> QED
  BY <1>1, <1>4, <1>5

(* The property is that each proxy has one owner.                          *)
LEMMA OneOwnerMeans ==
    ASSUME TypeOK
    PROVE  OneOwner <=> (Accounted => \A p \in Proxies : Owners(p) = 1)
<1>1. ASSUME NEW p \in Proxies
      PROVE  Owners(p) = Occurrences(pool, p) + Occurrences(httpClients, p)
                         + InHands(p) + OutThere(p)
  <2>1. /\ Occurrences(pool, p) \in Nat /\ Occurrences(httpClients, p) \in Nat
        /\ InHands(p) \in Nat /\ OutThere(p) \in Nat
    BY OwnersTypes
  <2> QED
    BY <2>1 DEF Owners
<1>2. OneOwner <=> (Accounted => \A p \in Proxies :
                       Occurrences(pool, p) + Occurrences(httpClients, p)
                       + InHands(p) + OutThere(p) = 1)
  BY DEF OneOwner, InHands, OutThere
<1> QED
  BY <1>1, <1>2

(* Accounts that were closed stay closed.                                  *)
LEMMA StayClosed == [Next]_vars /\ Accounted' => Accounted
<1>1. [Next]_vars => webhooks' = webhooks /\ (registered' => registered)
  BY DEF Next, LoopStep, Poll, ReceiveClients, ReceiveReturn, ReceiveEnd, SelectDefault,
     GetMonitor, AddBot, PostStep, PostBotLaunch, TakeGroup, AddClients, StopBot, KeyInvalid,
     StopStep, RemoveBot, EndMonitor, RecoverClients, Receive, ReturnProxies, CheckProxies,
     AttachProxies, OtherReturns, vars, monitorVars
<1> QED
  BY <1>1 DEF Accounted

LEMMA OwnersStep ==
    ASSUME TypeOK, TypeOK', ChanInv, HoldInv, OneOwner, [Next]_vars
    PROVE  OneOwner'
<1>1. (OneOwner <=> (Accounted => \A p \in Proxies : Owners(p) = 1))'
  <2>1. TypeOK => (OneOwner <=> (Accounted => \A p \in Proxies : Owners(p) = 1))
    BY OneOwnerMeans
  <2> QED
    BY <2>1, OneOwnerMeans, PTL
<1>2. ASSUME Accounted' PROVE \A p \in Proxies : Owners(p)' = 1
  BY <1>2, OneOwnerMeans, ProxiesMove, StayClosed
<1> QED
  BY <1>1, <1>2

(* From here on everything follows from this.                              *)
LEMMA Inductive == Spec => [](IInv /\ OneOwner)
<1>1. Init => IInv /\ OneOwner
  <2> SUFFICES ASSUME Init
               PROVE  IInv /\ OneOwner
    OBVIOUS
  <2>1. IInv
    BY InitIInv DEF IInv
  <2> QED
    BY <2>1, InitOwners, OneOwnerMeans DEF IInv
<1>2. IInv /\ OneOwner /\ [Next]_vars => (IInv /\ OneOwner)'
  <2> SUFFICES ASSUME IInv, OneOwner, [Next]_vars
               PROVE  (IInv /\ OneOwner)'
    OBVIOUS
  <2>1. TypeOK /\ ChanInv /\ HoldInv /\ BotsInv /\ LenInv /\ CrashNeedsOvertaking
    BY DEF IInv
  <2>2. TypeOK'
    BY <2>1, TypeStep
  <2>3. ChanInv'
    BY <2>1, ChanStep
  <2>4. HoldInv'
    BY <2>1, HoldStep
  <2>5. BotsInv' /\ LenInv' /\ CrashNeedsOvertaking'
    BY <2>1, BotsStep, LenStep, CrashStep
  <2>6. OneOwner'
    BY <2>1, <2>2, OwnersStep
  <2> QED
    BY <2>2, <2>3, <2>4, <2>5, <2>6 DEF IInv
<1> QED
  BY <1>1, <1>2, PTL DEF Spec

(* monitor.go:33-75, classes/proxies.go: the channels carry stays or the   *)
(* loop's own offer, every group is made of proxies, and no counter of     *)
(* blocked goroutines gets below zero, for any sizes.                      *)
THEOREM TypeCorrect == Spec => []TypeOK
<1>1. IInv => TypeOK
  BY DEF IInv
<1> QED
  BY <1>1, Inductive, PTL

(* monitor.go:229-231, 421-433, botStartup.go:348-392, classes/proxies.go: *)
(* in whatever order the goroutines of starts and stops reach the loop,    *)
(* also when a stop is handed what a start was sending, every proxy is in  *)
(* exactly one place; for a monitor without webhooks, until it is told to  *)
(* end.                                                                    *)
THEOREM ProxiesHaveOneOwner == Spec => []OneOwner
BY Inductive, PTL

(* botStartup.go:371-391, 485-506: once no goroutine of a start or a stop  *)
(* is under way, a monitor with webhooks has the clients its bots need.    *)
THEOREM ClientsBalanced == Spec => []Balanced
<1>1. IInv => Balanced
  <2> SUFFICES ASSUME IInv, webhooks, Quiet
               PROVE  Len(httpClients) = IF bots = {} THEN PerSign ELSE PerCopy
    BY DEF Balanced
  <2>1. \A s \in Stays : Owed[s] = 0 /\ Asked[s] = 0
    BY DEF Quiet, Owed, Asked, Owing, Asking
  <2>2. Debt = 0 /\ Claims = 0
    BY <2>1, StaysFinite, TotalZero DEF Debt, Claims
  <2>3. Surplus = 0
    BY DEF IInv, LenInv, Quiet
  <2>4. Len(httpClients) \in Nat
    BY LenProperties DEF IInv, TypeOK
  <2> QED
    BY <2>2, <2>3, <2>4, Sizes DEF Surplus, ForBots
<1> QED
  BY <1>1, Inductive, PTL

(* monitor.go:421-433: the loop slices off more clients than it has only   *)
(* while some start still owes it the clients of a first bot.              *)
THEOREM CrashesNeedOvertaking == Spec => []CrashNeedsOvertaking
<1>1. IInv => CrashNeedsOvertaking
  BY DEF IInv
<1> QED
  BY <1>1, Inductive, PTL

-----------------------------------------------------------------------------
(* A stop that was told how many clients to expect is the only one, and    *)
(* the loop is offering them, or has crashed.                              *)
OfferInv ==
    /\ \A r, s \in Stays : stop[r] = "receive" /\ stop[s] = "receive" => r = s
    /\ \A s \in Stays : stop[s] = "receive" => loop \in {"send", "crashed"}
    /\ loop = "send" => \E i \in 1 .. Len(clientsChan) : clientsChan[i] = Loop

(* It waits for nobody: something is on the channel that it can take.      *)
ReceiverHasOffer == \A s \in Stays : stop[s] = "receive" /\ Running => clientsChan # <<>>

LEMMA OfferStep ==
    ASSUME TypeOK, ChanInv, OfferInv, [Next]_vars
    PROVE  OfferInv'
<1> USE DEF channelVars, monitorVars, postVars, stopVars, otherVars
<1>a. /\ stop \in [Stays -> {"idle", "removeBot", "webhookCount", "returnChan", "receive",
                             "returnGroup", "done", "keyInvalid"}]
      /\ clientsChan \in Seq(Stays \cup {Loop})
  BY DEF TypeOK
<1>b. ASSUME UNCHANGED clientsChan, loop' = loop \/ loop \notin {"send", "crashed"},
             loop' # "send" \/ loop = "send",
             \A t \in Stays : stop'[t] = "receive" => stop[t] = "receive"
      PROVE  OfferInv'
  BY <1>b DEF OfferInv
<1>1. CASE Poll \/ SelectDefault \/ ReceiveEnd
  BY <1>1, <1>b DEF Poll, SelectDefault, ReceiveEnd
<1>2. CASE ReceiveClients
  BY <1>2 DEF ReceiveClients, OfferInv
<1>3. CASE ReceiveReturn
  <2> DEFINE s == Head(returnChan)
  <2>1. s \in Stays
    BY <1>3, ReturnServed DEF ReceiveReturn
  <2>2. /\ loop = "select" /\ stop' = [stop EXCEPT ![s] = "receive"]
        /\ loop' \in {"send", "crashed"}
        /\ loop' = "send" => clientsChan' = Append(clientsChan, Loop)
    BY <1>3 DEF ReceiveReturn
  <2> HIDE DEF s
  <2>3. \A t \in Stays : stop[t] # "receive"
    BY <2>2 DEF OfferInv
  <2>4. \A t \in Stays : stop'[t] = "receive" => t = s
    BY <1>a, <2>1, <2>2, <2>3
  <2>5. /\ Len(Append(clientsChan, Loop)) = Len(clientsChan) + 1
        /\ Append(clientsChan, Loop)[Len(clientsChan) + 1] = Loop
        /\ Len(clientsChan) \in Nat
    <3>1. Loop \in Stays \cup {Loop}
      OBVIOUS
    <3> QED
      BY <1>a, <3>1, AppendProperties, LenProperties
  <2>6. loop' = "send" => \E i \in 1 .. Len(clientsChan') : clientsChan'[i] = Loop
    BY <2>2, <2>5
  <2> QED
    BY <2>2, <2>4, <2>6 DEF OfferInv
<1>4. ASSUME NEW s \in Stays,
             GetMonitor(s) \/ AddBot(s) \/ PostBotLaunch(s) \/ TakeGroup(s)
      PROVE  OfferInv'
  BY <1>4, <1>b DEF GetMonitor, AddBot, PostBotLaunch, TakeGroup
<1>5. ASSUME NEW s \in Stays, AddClients(s)
      PROVE  OfferInv'
  <2>1. UNCHANGED <<loop, stop>>
    BY <1>5 DEF AddClients
  <2>2. clientsChan' = clientsChan \/ clientsChan' = Append(clientsChan, s)
    BY <1>5 DEF AddClients
  <2>3. /\ Len(Append(clientsChan, s)) = Len(clientsChan) + 1 /\ Len(clientsChan) \in Nat
        /\ \A i \in 1 .. Len(clientsChan) : Append(clientsChan, s)[i] = clientsChan[i]
    BY <1>a, AppendProperties, LenProperties
  <2>4. loop' = "send" => \E i \in 1 .. Len(clientsChan') : clientsChan'[i] = Loop
    <3>1. CASE clientsChan' = clientsChan
      BY <2>1, <3>1 DEF OfferInv
    <3>2. CASE clientsChan' = Append(clientsChan, s)
      <4>1. SUFFICES ASSUME loop' = "send"
                     PROVE  \E i \in 1 .. Len(clientsChan') : clientsChan'[i] = Loop
        OBVIOUS
      <4>2. PICK i \in 1 .. Len(clientsChan) : clientsChan[i] = Loop
        BY <2>1, <4>1 DEF OfferInv
      <4>3. i \in 1 .. Len(clientsChan')
        BY <2>3, <3>2
      <4> QED
        BY <2>3, <3>2, <4>2, <4>3
    <3> QED
      BY <2>2, <3>1, <3>2
  <2> QED
    BY <2>1, <2>4 DEF OfferInv
<1>6. ASSUME NEW s \in Stays,
             StopBot(s) \/ RemoveBot(s) \/ KeyInvalid(s) \/ EndMonitor(s) \/ RecoverClients(s)
                \/ ReturnProxies(s)
      PROVE  OfferInv'
  <2>1. UNCHANGED <<loop, clientsChan>>
    BY <1>6 DEF StopBot, RemoveBot, KeyInvalid, EndMonitor, RecoverClients, ReturnProxies
  <2>2. \A t \in Stays : stop'[t] = "receive" => stop[t] = "receive"
    BY <1>6, <1>a DEF StopBot, RemoveBot, KeyInvalid, EndMonitor, RecoverClients, ReturnProxies
  <2> QED
    BY <1>b, <2>1, <2>2
<1>7. ASSUME NEW s \in Stays, Receive(s)
      PROVE  OfferInv'
  <2> DEFINE from == Head(clientsChan)
             rest == Tail(clientsChan)
  <2>1. /\ clientsChan # <<>> /\ clientsChan' = rest /\ stop[s] = "receive"
        /\ stop' = [stop EXCEPT ![s] = "returnGroup"]
        /\ loop' = IF from = Loop THEN "poll" ELSE loop
    BY <1>7 DEF Receive
  <2>2. \A t \in Stays : stop'[t] # "receive"
    BY <1>a, <2>1 DEF OfferInv
  <2>3. loop' = "send" => \E i \in 1 .. Len(rest) : rest[i] = Loop
    <3>1. SUFFICES ASSUME loop' = "send"
                   PROVE  \E i \in 1 .. Len(rest) : rest[i] = Loop
      OBVIOUS
    <3>2. PICK i \in 1 .. Len(clientsChan) : clientsChan[i] = Loop /\ i # 1
      BY <2>1, <3>1 DEF OfferInv
    <3>3. /\ Len(rest) = Len(clientsChan) - 1 /\ Len(clientsChan) \in Nat
          /\ \A j \in 1 .. Len(rest) : rest[j] = clientsChan[j + 1]
      BY <1>a, <2>1, HeadTailProperties, LenProperties
    <3> HIDE DEF rest
    <3>4. i - 1 \in 1 .. Len(rest) /\ (i - 1) + 1 = i
      BY <3>2, <3>3
    <3> QED
      BY <3>2, <3>3, <3>4
  <2> QED
    BY <2>1, <2>2, <2>3 DEF OfferInv
<1>8. ASSUME NEW o \in Others, CheckProxies(o) \/ AttachProxies(o) \/ OtherReturns(o)
      PROVE  OfferInv'
  BY <1>8, <1>b DEF CheckProxies, AttachProxies, OtherReturns
<1>9. CASE UNCHANGED vars
  BY <1>9, <1>b DEF vars
<1> QED
  BY <1>1, <1>2, <1>3, <1>4, <1>5, <1>6, <1>7, <1>8, <1>9 DEF Next, LoopStep, PostStep, StopStep

(* monitor.go:229-238, 421-424, botStartup.go:494-500: a stop that has     *)
(* asked the loop for clients and was heard is never left waiting for an   *)
(* offer, whoever else was sending. (That the loop may be, is Stuck.)      *)
THEOREM StopsAreServed == Spec => []ReceiverHasOffer
<1>1. Init => OfferInv
  BY DEF Init, OfferInv
<1>2. IInv /\ OfferInv /\ [Next]_vars => OfferInv'
  BY OfferStep DEF IInv
<1>3. IInv /\ OfferInv => ReceiverHasOffer
  <2> SUFFICES ASSUME IInv, OfferInv, NEW s \in Stays, stop[s] = "receive", Running
               PROVE  clientsChan # <<>>
    BY DEF ReceiverHasOffer
  <2>1. \E i \in 1 .. Len(clientsChan) : clientsChan[i] = Loop
    BY DEF OfferInv, Running
  <2> QED
    BY <2>1
<1> QED
  BY <1>1, <1>2, <1>3, Inductive, PTL DEF Spec
-----------------------------------------------------------------------------
(* The proxies of a group, as a set.                                       *)
LEMMA MembersType ==
    ASSUME NEW S, NEW seq \in Seq(S)
    PROVE  /\ Members(seq) \subseteq S
           /\ \A x : x \in Members(seq) <=> \E i \in 1 .. Len(seq) : seq[i] = x
<1>1. DOMAIN seq = 1 .. Len(seq) /\ \A i \in 1 .. Len(seq) : seq[i] \in S
  BY LenProperties, ElementOfSeq
<1> QED
  BY <1>1 DEF Members

LEMMA MembersEmpty == Members(<<>>) = {}
<1>1. DOMAIN <<>> = {}
  BY EmptySeq
<1> QED
  BY <1>1 DEF Members

LEMMA MembersConcat ==
    ASSUME NEW S, NEW a \in Seq(S), NEW b \in Seq(S)
    PROVE  Members(a \o b) = Members(a) \cup Members(b)
<1> DEFINE m == Len(a)
           n == Len(b)
<1>1. /\ m \in Nat /\ n \in Nat /\ a \o b \in Seq(S) /\ Len(a \o b) = m + n
      /\ \A i \in 1 .. (m + n) : (a \o b)[i] = IF i <= m THEN a[i] ELSE b[i - m]
  BY LenProperties, ConcatProperties
<1>2. /\ \A x : x \in Members(a) <=> \E i \in 1 .. m : a[i] = x
      /\ \A x : x \in Members(b) <=> \E i \in 1 .. n : b[i] = x
      /\ \A x : x \in Members(a \o b) <=> \E i \in 1 .. (m + n) : (a \o b)[i] = x
  BY <1>1, MembersType
<1> HIDE DEF m, n
<1>3. ASSUME NEW x \in Members(a \o b) PROVE x \in Members(a) \cup Members(b)
  <2>1. PICK i \in 1 .. (m + n) : (a \o b)[i] = x
    BY <1>2
  <2>2. CASE i <= m
    <3>1. i \in 1 .. m /\ a[i] = x
      BY <1>1, <2>1, <2>2
    <3> QED
      BY <1>2, <3>1
  <2>3. CASE ~ (i <= m)
    <3>1. i - m \in 1 .. n
      BY <1>1, <2>3
    <3>2. b[i - m] = x
      BY <1>1, <2>1, <2>3
    <3> QED
      BY <1>2, <3>1, <3>2
  <2> QED
    BY <2>2, <2>3
<1>4. ASSUME NEW x \in Members(a) PROVE x \in Members(a \o b)
  <2>1. PICK i \in 1 .. m : a[i] = x
    BY <1>2
  <2>2. i \in 1 .. (m + n) /\ (a \o b)[i] = x
    BY <1>1, <2>1
  <2> QED
    BY <1>2, <2>2
<1>5. ASSUME NEW x \in Members(b) PROVE x \in Members(a \o b)
  <2>1. PICK i \in 1 .. n : b[i] = x
    BY <1>2
  <2>2. i + m \in 1 .. (m + n) /\ ~ (i + m <= m) /\ (i + m) - m = i
    BY <1>1, <2>1
  <2>3. (a \o b)[i + m] = x
    BY <1>1, <2>1, <2>2
  <2> QED
    BY <1>2, <2>2, <2>3
<1> QED
  BY <1>3, <1>4, <1>5

(* A group cut off a sequence without repetitions: what is left does not   *)
(* have its members, and it has as many as its length says.                *)
LEMMA MembersCut ==
    ASSUME NEW S, NEW seq \in Seq(S), NEW n \in Nat, n <= Len(seq),
           \A i, j \in 1 .. Len(seq) : seq[i] = seq[j] => i = j
    PROVE  LET group == SubSeq(seq, 1, n)
           IN  /\ Members(group) \subseteq Members(seq)
               /\ IsFiniteSet(Members(group)) /\ Cardinality(Members(group)) = n
               /\ Members(SubSeq(seq, n + 1, Len(seq))) = Members(seq) \ Members(group)
<1> DEFINE group == SubSeq(seq, 1, n)
           rest == SubSeq(seq, n + 1, Len(seq))
           m == Len(seq)
<1>1. /\ m \in Nat /\ group \in Seq(S) /\ rest \in Seq(S)
      /\ Len(group) = n /\ Len(rest) = m - n
  BY LenProperties, Cut
<1>2. \A i \in 1 .. n : group[i] = seq[i]
  <2>1. \A i \in 1 .. n : seq[i] \in S
    BY <1>1, ElementOfSeq
  <2>2. \A i \in 1 .. n - 1 + 1 : group[i] = seq[1 + i - 1]
    BY <2>1, SubSeqProperties
  <2> HIDE DEF group
  <2> QED
    BY <2>2
<1>3. \A i \in 1 .. (m - n) : rest[i] = seq[n + i]
  <2>1. \A i \in n + 1 .. m : seq[i] \in S
    BY <1>1, ElementOfSeq
  <2>2. \A i \in 1 .. m - (n + 1) + 1 : rest[i] = seq[n + 1 + i - 1]
    BY <1>1, <2>1, SubSeqProperties
  <2>3. \A i \in 1 .. (m - n) : i \in 1 .. m - (n + 1) + 1 /\ n + 1 + i - 1 = n + i
    BY <1>1
  <2> HIDE DEF rest
  <2> QED
    BY <2>2, <2>3
<1>4. /\ \A x : x \in Members(seq) <=> \E i \in 1 .. m : seq[i] = x
      /\ \A x : x \in Members(group) <=> \E i \in 1 .. n : group[i] = x
      /\ \A x : x \in Members(rest) <=> \E i \in 1 .. (m - n) : rest[i] = x
  <2>1. seq \in Seq(S)
    OBVIOUS
  <2> HIDE DEF group, rest
  <2> QED
    BY <1>1, <2>1, MembersType
<1>5. Members(group) = {seq[i] : i \in 1 .. n}
  <2> HIDE DEF group
  <2> QED
    BY <1>2, <1>4
<1>6. n <= m /\ \A i, j \in 1 .. m : seq[i] = seq[j] => i = j
  OBVIOUS
<1> HIDE DEF group, rest, m
<1>7. Members(group) \subseteq Members(seq)
  <2>1. \A i \in 1 .. n : i \in 1 .. m
    BY <1>1, <1>6
  <2> QED
    BY <1>4, <1>5, <2>1
<1>8. Members(rest) = Members(seq) \ Members(group)
  <2>1. ASSUME NEW x \in Members(rest) PROVE x \in Members(seq) \ Members(group)
    <3>1. PICK i \in 1 .. (m - n) : rest[i] = x
      BY <1>4
    <3>2. n + i \in 1 .. m /\ seq[n + i] = x
      BY <1>1, <1>3, <3>1
    <3>3. ASSUME NEW k \in 1 .. n, seq[k] = x PROVE FALSE
      <4>1. k \in 1 .. m /\ k # n + i
        BY <1>1, <1>6, <3>1
      <4> QED
        BY <1>6, <3>2, <3>3, <4>1
    <3> QED
      BY <1>4, <1>5, <3>2, <3>3
  <2>2. ASSUME NEW x \in Members(seq) \ Members(group) PROVE x \in Members(rest)
    <3>1. PICK i \in 1 .. m : seq[i] = x
      BY <1>4
    <3>2. i \notin 1 .. n
      BY <1>5, <2>2, <3>1
    <3>3. i - n \in 1 .. (m - n) /\ n + (i - n) = i
      BY <1>1, <1>6, <3>1, <3>2
    <3>4. rest[i - n] = x
      BY <1>3, <3>1, <3>3
    <3> QED
      BY <1>4, <3>3, <3>4
  <2> QED
    BY <2>1, <2>2
<1>9. IsFiniteSet(Members(group)) /\ Cardinality(Members(group)) = n
  <2> DEFINE f == [i \in 1 .. n |-> seq[i]]
             M == Members(group)
  <2>1. f \in Bijection(1 .. n, M)
    <3>1. f \in [1 .. n -> M] /\ \A x \in M : \E i \in 1 .. n : f[i] = x
      BY <1>5
    <3>2. \A i \in 1 .. n : i \in 1 .. m
      BY <1>1, <1>6
    <3>3. \A i, j \in 1 .. n : f[i] = f[j] => i = j
      BY <1>6, <3>2
    <3> HIDE DEF f, M
    <3> QED
      BY <3>1, <3>3 DEF Bijection, Injection, Surjection, IsInjective
  <2>2. ExistsBijection(1 .. n, M)
    BY <2>1 DEF ExistsBijection
  <2>3. IsFiniteSet(1 .. n) /\ Cardinality(1 .. n) = n
    <3>1. 1 \in Int /\ n \in Int
      OBVIOUS
    <3>2. Cardinality(1 .. n) = IF 1 > n THEN 0 ELSE n - 1 + 1
      BY <3>1, FS_Interval
    <3> QED
      BY <3>1, <3>2, FS_Interval
  <2> HIDE DEF M
  <2>4. IsFiniteSet(M) /\ Cardinality(1 .. n) = Cardinality(M)
    BY <2>2, <2>3, FS_Bijection
  <2> QED
    BY <2>3, <2>4 DEF M
<1> QED
  BY <1>7, <1>8, <1>9 DEF group, rest, m

(* The cardinality of a pair.                                              *)
LEMMA TwoOfThem ==
    ASSUME NEW x, NEW y, x # y
    PROVE  Cardinality({x, y}) = 2
<1>1. IsFiniteSet({x}) /\ Cardinality({x}) = 1 /\ y \notin {x}
  BY FS_Singleton
<1>2. Cardinality({x} \cup {y}) = Cardinality({x}) + 1
  BY <1>1, FS_AddElement
<1>3. Cardinality({x} \cup {y}) = 2
  BY <1>1, <1>2
<1>4. {x, y} = {x} \cup {y}
  OBVIOUS
<1> QED
  BY <1>3, <1>4, Zenon

(* A sequence that has no proxy twice.                                     *)
LEMMA NoRepeats ==
    ASSUME NEW S, NEW seq \in Seq(S), \A p \in S : Occurrences(seq, p) <= 1
    PROVE  \A i, j \in 1 .. Len(seq) : seq[i] = seq[j] => i = j
<1> SUFFICES ASSUME NEW i \in 1 .. Len(seq), NEW j \in 1 .. Len(seq), seq[i] = seq[j], i # j
             PROVE  FALSE
  OBVIOUS
<1> DEFINE p == seq[i]
           P == {k \in DOMAIN seq : seq[k] = p}
<1>1. p \in S /\ DOMAIN seq = 1 .. Len(seq)
  BY ElementOfSeq, LenProperties
<1>2. IsFiniteSet(P) /\ Cardinality(P) = Occurrences(seq, p) /\ Cardinality(P) \in Nat
  BY PlacesFinite DEF Occurrences
<1>3. {i, j} \subseteq P
  BY <1>1
<1> HIDE DEF P
<1>4. Cardinality({i, j}) <= Cardinality(P)
  BY <1>2, <1>3, FS_Subset
<1>5. Cardinality({i, j}) = 2
  BY TwoOfThem
<1>6. Occurrences(seq, p) <= 1
  BY <1>1
<1> HIDE DEF p
<1>7. Cardinality(P) <= 1 /\ 2 <= Cardinality(P)
  BY <1>2, <1>4, <1>5, <1>6
<1> QED
  BY <1>2, <1>7

(* While the accounts are open no sequence has a proxy twice.              *)
LEMMA NothingTwice ==
    ASSUME TypeOK, OneOwner, Accounted
    PROVE  /\ \A i, j \in 1 .. Len(pool) : pool[i] = pool[j] => i = j
           /\ \A i, j \in 1 .. Len(httpClients) : httpClients[i] = httpClients[j] => i = j
<1>1. ASSUME NEW p \in Proxies
      PROVE  Occurrences(pool, p) <= 1 /\ Occurrences(httpClients, p) <= 1
  <2>1. Owners(p) = 1
    BY OneOwnerMeans
  <2>2. /\ Occurrences(pool, p) \in Nat /\ Occurrences(httpClients, p) \in Nat
        /\ InHands(p) \in Nat /\ OutThere(p) \in Nat
    BY OwnersTypes
  <2> QED
    BY <2>1, <2>2 DEF Owners
<1>2. pool \in Seq(Proxies) /\ httpClients \in Seq(Proxies)
  BY DEF TypeOK
<1> QED
  BY <1>1, <1>2, NoRepeats

(* One holder's group changes.                                             *)
LEMMA MembersChange ==
    ASSUME NEW S, NEW f \in [S -> Seq(Proxies)], NEW s \in S, NEW group \in Seq(Proxies)
    PROVE  [t \in S |-> Members([f EXCEPT ![s] = group][t])]
           = [[t \in S |-> Members(f[t])] EXCEPT ![s] = Members(group)]
OBVIOUS

(* Every step that moves proxies is a move of ProxyPool, and the others    *)
(* leave them where they are.                                              *)
LEMMA PoolMove ==
    ASSUME TypeOK, ChanInv, HoldInv, OneOwner, Accounted, Accounted', [Next]_vars
    PROVE  Pool!Move \/ UNCHANGED <<pool, httpClients, hand, removed, taken>>
<1> USE DEF channelVars, monitorVars, postVars, stopVars, otherVars
<1>a. /\ pool \in Seq(Proxies) /\ httpClients \in Seq(Proxies)
      /\ hand \in [Stays -> Seq(Proxies)] /\ removed \in [Stays -> Seq(Proxies)]
      /\ taken \in [Others -> Seq(Proxies)] /\ <<>> \in Seq(Proxies)
      /\ Extra \in Nat /\ PerCopy \in Nat
  BY EmptySeq, Sizes DEF TypeOK
<1>b. /\ Free = Members(pool) /\ Used = Members(httpClients)
      /\ \A s \in Stays : Carried[s] = Members(hand[s]) /\ Recovered[s] = Members(removed[s])
      /\ \A o \in Others : Away[o] = Members(taken[o])
  BY DEF Free, Used, Carried, Recovered, Away
<1>c. /\ UNCHANGED pool => UNCHANGED Free
      /\ UNCHANGED httpClients => UNCHANGED Used
      /\ UNCHANGED hand => UNCHANGED Carried
      /\ UNCHANGED removed => UNCHANGED Recovered
      /\ UNCHANGED taken => UNCHANGED Away
  BY DEF Free, Used, Carried, Recovered, Away
<1>d. ASSUME NEW s \in Stays, NEW group \in Seq(Proxies)
      PROVE  /\ hand' = [hand EXCEPT ![s] = group]
                => Carried' = [Carried EXCEPT ![s] = Members(group)]
             /\ removed' = [removed EXCEPT ![s] = group]
                => Recovered' = [Recovered EXCEPT ![s] = Members(group)]
  BY <1>a, MembersChange DEF Carried, Recovered
<1>e. ASSUME NEW o \in Others, NEW group \in Seq(Proxies), taken' = [taken EXCEPT ![o] = group]
      PROVE  Away' = [Away EXCEPT ![o] = Members(group)]
  BY <1>a, <1>e, MembersChange DEF Away
<1>f. /\ \A s \in Stays : hand[s] \in Seq(Proxies) /\ removed[s] \in Seq(Proxies)
      /\ \A o \in Others : taken[o] \in Seq(Proxies)
  BY <1>a
<1>g. ASSUME NEW n \in Nat, HasGroup(n)
      PROVE  /\ Members(NextGroup(n)) \subseteq Free /\ Members(NextGroup(n)) \in Groups(n)
             /\ Members(PoolAfter(n)) = Free \ Members(NextGroup(n))
             /\ NextGroup(n) \in Seq(Proxies)
  <2>1. n <= Len(pool)
    BY <1>a, <1>g, LenProperties DEF HasGroup
  <2>2. /\ Members(NextGroup(n)) \subseteq Free /\ Cardinality(Members(NextGroup(n))) = n
        /\ Members(PoolAfter(n)) = Free \ Members(NextGroup(n))
        /\ NextGroup(n) \in Seq(Proxies)
    BY <1>a, <1>b, <2>1, NothingTwice, MembersCut, Cut DEF NextGroup, PoolAfter
  <2> QED
    BY <2>2, MembersType DEF Groups
<1>1. CASE Poll \/ SelectDefault \/ ReceiveEnd \/ ReceiveReturn
  BY <1>1 DEF Poll, SelectDefault, ReceiveEnd, ReceiveReturn
<1>2. CASE ReceiveClients
  <2> DEFINE s == Head(clientsChan)
  <2>1. s \in Stays
    BY <1>2, ClientsServed DEF ReceiveClients
  <2>2. /\ httpClients' = httpClients \o hand[s] /\ hand' = [hand EXCEPT ![s] = <<>>]
        /\ UNCHANGED <<pool, removed, taken>>
    BY <1>2 DEF ReceiveClients
  <2> HIDE DEF s
  <2>3. Used' = Used \cup Carried[s]
    <3>1. Members(httpClients \o hand[s]) = Used \cup Members(hand[s])
      BY <1>a, <1>b, <1>f, <2>1, MembersConcat
    <3> QED
      BY <1>b, <2>1, <2>2, <3>1 DEF Free, Used
  <2>4. Carried' = [Carried EXCEPT ![s] = {}]
    BY <1>a, <1>d, <2>1, <2>2, MembersEmpty
  <2>5. Pool!Supply(s)
    BY <1>c, <2>2, <2>3, <2>4 DEF Pool!Supply
  <2> QED
    BY <2>1, <2>5 DEF Pool!Move
<1>3. ASSUME NEW s \in Stays,
             GetMonitor(s) \/ AddBot(s) \/ PostBotLaunch(s) \/ AddClients(s) \/ StopBot(s)
                \/ RemoveBot(s) \/ KeyInvalid(s) \/ RecoverClients(s)
      PROVE  UNCHANGED <<pool, httpClients, hand, removed, taken>>
  BY <1>3 DEF GetMonitor, AddBot, PostBotLaunch, AddClients, StopBot, RemoveBot, KeyInvalid,
     RecoverClients
<1>4. ASSUME NEW s \in Stays, TakeGroup(s), HasGroup(Extra)
      PROVE  Pool!Move
  <2> DEFINE group == NextGroup(Extra)
  <2>1. /\ hand' = [hand EXCEPT ![s] = group] /\ pool' = PoolAfter(Extra)
        /\ hand[s] = <<>> /\ UNCHANGED <<httpClients, removed, taken>>
    BY <1>4 DEF TakeGroup, HoldInv
  <2>2. /\ Members(group) \subseteq Free /\ Members(group) \in Groups(Extra)
        /\ Members(PoolAfter(Extra)) = Free \ Members(group) /\ group \in Seq(Proxies)
    BY <1>4, <1>a, <1>g
  <2> HIDE DEF group
  <2>3. Free' = Free \ Members(group)
    BY <2>1, <2>2 DEF Free, Used
  <2>4. Carried' = [Carried EXCEPT ![s] = Members(group)] /\ Carried[s] = {}
    BY <1>b, <1>d, <2>1, <2>2, MembersEmpty
  <2>5. \E g \in Groups(Extra) :
           /\ g \subseteq Free
           /\ Free' = Free \ g
           /\ Carried' = [Carried EXCEPT ![s] = g]
    BY <2>2, <2>3, <2>4
  <2>6. Pool!TakeForStart(s)
    BY <1>c, <2>1, <2>4, <2>5
    DEF Pool!TakeForStart
  <2> QED
    BY <2>6 DEF Pool!Move
<1>5. ASSUME NEW s \in Stays, EndMonitor(s) PROVE FALSE
  BY <1>5 DEF EndMonitor, Accounted
<1>6. ASSUME NEW s \in Stays, Receive(s) PROVE Pool!Move
  <2> DEFINE from == Head(clientsChan)
             group == SubSeq(httpClients, 1, Extra)
             rest == SubSeq(httpClients, Extra + 1, Len(httpClients))
  <2>1. (from = Loop => loop = "send") /\ (from # Loop => from \in Stays)
    BY <1>6, ClientsServed DEF Receive
  <2>2. /\ UNCHANGED <<pool, taken>> /\ removed[s] = <<>>
        /\ IF from = Loop
           THEN /\ removed' = [removed EXCEPT ![s] = group] /\ httpClients' = rest
                /\ UNCHANGED hand
           ELSE /\ removed' = [removed EXCEPT ![s] = hand[from]]
                /\ hand' = [hand EXCEPT ![from] = <<>>]
                /\ UNCHANGED httpClients
    BY <1>6 DEF Receive, HoldInv
  <2> HIDE DEF from
  <2>3. Recovered[s] = {}
    BY <1>b, <2>2, MembersEmpty
  <2>4. CASE from = Loop
    <3>1. Extra <= Len(httpClients) /\ Len(httpClients) \in Nat
      BY <1>a, <2>1, <2>4, LenProperties DEF HoldInv
    <3>2. /\ Members(group) \subseteq Used /\ Members(group) \in Groups(Extra)
          /\ Members(rest) = Used \ Members(group)
          /\ group \in Seq(Proxies)
      <4>1. /\ Members(group) \subseteq Used /\ Cardinality(Members(group)) = Extra
            /\ Members(rest) = Used \ Members(group)
            /\ group \in Seq(Proxies)
        BY <1>a, <1>b, <3>1, NothingTwice, MembersCut, Cut
      <4> QED
        BY <4>1, MembersType DEF Groups
    <3> HIDE DEF group, rest
    <3>3. Used' = Used \ Members(group)
      BY <2>2, <2>4, <3>2 DEF Free, Used
    <3>4. Recovered' = [Recovered EXCEPT ![s] = Members(group)]
      BY <1>d, <2>2, <2>4, <3>2
    <3>5. \E g \in Groups(Extra) :
             /\ g \subseteq Used
             /\ Used' = Used \ g
             /\ Recovered' = [Recovered EXCEPT ![s] = g]
      BY <3>2, <3>3, <3>4
    <3>6. Pool!Recover(s)
      BY <1>c, <2>2, <2>3, <2>4, <3>5
      DEF Pool!Recover
    <3> QED
      BY <3>6 DEF Pool!Move
  <2>5. CASE from # Loop
    <3>1. from \in Stays /\ hand[from] \in Seq(Proxies) /\ Carried[from] = Members(hand[from])
      BY <1>b, <1>f, <2>1, <2>5
    <3>2. Recovered' = [Recovered EXCEPT ![s] = Carried[from]]
      BY <1>d, <2>2, <2>5, <3>1
    <3>3. Carried' = [Carried EXCEPT ![from] = {}]
      BY <1>a, <1>d, <2>2, <2>5, <3>1, MembersEmpty
    <3>4. Pool!Intercept(from, s)
      BY <1>c, <2>2, <2>3, <2>5, <3>2, <3>3
      DEF Pool!Intercept
    <3> QED
      BY <3>1, <3>4 DEF Pool!Move
  <2> QED
    BY <2>4, <2>5
<1>7. ASSUME NEW s \in Stays, ReturnProxies(s) PROVE Pool!Move
  <2>1. /\ pool' = pool \o removed[s] /\ removed' = [removed EXCEPT ![s] = <<>>]
        /\ UNCHANGED <<httpClients, hand, taken>>
    BY <1>7 DEF ReturnProxies, ReturnGroup
  <2>2. Free' = Free \cup Recovered[s]
    <3>1. Members(pool \o removed[s]) = Free \cup Members(removed[s])
      BY <1>a, <1>b, <1>f, MembersConcat
    <3> QED
      BY <1>b, <2>1, <3>1 DEF Free, Used
  <2>3. Recovered' = [Recovered EXCEPT ![s] = {}]
    BY <1>a, <1>d, <2>1, MembersEmpty
  <2>4. Pool!GiveBack(s)
    BY <1>c, <2>1, <2>2, <2>3 DEF Pool!GiveBack
  <2> QED
    BY <2>4 DEF Pool!Move
<1>8. ASSUME NEW o \in Others, CheckProxies(o)
      PROVE  UNCHANGED <<pool, httpClients, hand, removed, taken>>
  BY <1>8 DEF CheckProxies
<1>9. ASSUME NEW o \in Others, AttachProxies(o), HasGroup(PerCopy)
      PROVE  Pool!Move
  <2> DEFINE group == NextGroup(PerCopy)
  <2>1. /\ taken' = [taken EXCEPT ![o] = group] /\ pool' = PoolAfter(PerCopy)
        /\ taken[o] = <<>> /\ UNCHANGED <<httpClients, hand, removed>>
    BY <1>9 DEF AttachProxies, HoldInv
  <2>2. /\ Members(group) \subseteq Free /\ Members(group) \in Groups(PerCopy)
        /\ Members(PoolAfter(PerCopy)) = Free \ Members(group)
        /\ group \in Seq(Proxies)
    BY <1>9, <1>a, <1>g
  <2> HIDE DEF group
  <2>3. Free' = Free \ Members(group)
    BY <2>1, <2>2 DEF Free, Used
  <2>4. Away' = [Away EXCEPT ![o] = Members(group)] /\ Away[o] = {}
    BY <1>b, <1>e, <2>1, <2>2, MembersEmpty
  <2>5. \E g \in Groups(PerCopy) :
           /\ g \subseteq Free
           /\ Free' = Free \ g
           /\ Away' = [Away EXCEPT ![o] = g]
    BY <2>2, <2>3, <2>4
  <2>6. Pool!TakeAway(o)
    BY <1>c, <2>1, <2>4, <2>5 DEF Pool!TakeAway
  <2> QED
    BY <2>6 DEF Pool!Move
<1>10. ASSUME NEW o \in Others, OtherReturns(o) PROVE Pool!Move
  <2>1. /\ pool' = pool \o taken[o] /\ taken' = [taken EXCEPT ![o] = <<>>]
        /\ UNCHANGED <<httpClients, hand, removed>>
    BY <1>10 DEF OtherReturns, ReturnGroup
  <2>2. Free' = Free \cup Away[o]
    <3>1. Members(pool \o taken[o]) = Free \cup Members(taken[o])
      BY <1>a, <1>b, <1>f, MembersConcat
    <3> QED
      BY <1>b, <2>1, <3>1 DEF Free, Used
  <2>3. Away' = [Away EXCEPT ![o] = {}]
    BY <1>a, <1>e, <2>1, MembersEmpty
  <2>4. Pool!BringBack(o)
    BY <1>c, <2>1, <2>2, <2>3 DEF Pool!BringBack
  <2> QED
    BY <2>4 DEF Pool!Move
<1>11. ASSUME NEW s \in Stays, TakeGroup(s), ~ HasGroup(Extra)
       PROVE  UNCHANGED <<pool, httpClients, hand, removed, taken>>
  BY <1>11 DEF TakeGroup
<1>12. ASSUME NEW o \in Others, AttachProxies(o), ~ HasGroup(PerCopy)
       PROVE  UNCHANGED <<pool, httpClients, hand, removed, taken>>
  BY <1>12 DEF AttachProxies
<1>13. CASE UNCHANGED vars
  BY <1>13 DEF vars
<1> QED
  BY <1>1, <1>2, <1>3, <1>4, <1>5, <1>6, <1>7, <1>8, <1>9, <1>10, <1>11, <1>12, <1>13
     DEF Next, LoopStep, PostStep, StopStep

(* At first the monitor's proxies are in use and the others in the pool.   *)
LEMMA PoolInit ==
    ASSUME Init
    PROVE  Pool!Init
<1> DEFINE n == Len(httpClients)
<1>1. /\ n \in Nat /\ n <= NumProxies /\ NumProxies \in Nat
      /\ httpClients \in Seq(Proxies) /\ pool \in Seq(Proxies) /\ Len(pool) = NumProxies - n
      /\ \A i \in 1 .. n : httpClients[i] = i
      /\ \A i \in 1 .. (NumProxies - n) : pool[i] = i + n
  <2>1. httpClients \in Seq(Proxies) /\ pool \in Seq(Proxies) /\ Len(pool) = NumProxies - n
    BY InitGroups
  <2>2. n \in Nat /\ NumProxies \in Nat /\ NumProxies - n \in Nat
    BY <2>1, LenProperties, Sizes
  <2>3. n <= NumProxies
    BY <2>2
  <2> QED
    BY <2>1, <2>2, <2>3, InitGroups
<1>2. /\ \A x : x \in Members(httpClients) <=> \E i \in 1 .. n : httpClients[i] = x
      /\ \A x : x \in Members(pool) <=> \E i \in 1 .. (NumProxies - n) : pool[i] = x
  BY <1>1, MembersType
<1> HIDE DEF n
<1>3. Members(httpClients) = 1 .. n
  <2>1. ASSUME NEW x \in Members(httpClients) PROVE x \in 1 .. n
    BY <1>1, <1>2
  <2>2. ASSUME NEW x \in 1 .. n PROVE x \in Members(httpClients)
    BY <1>1, <1>2
  <2> QED
    BY <2>1, <2>2
<1>4. Members(pool) = n + 1 .. NumProxies
  <2>1. \A i \in 1 .. (NumProxies - n) : i + n \in n + 1 .. NumProxies
    BY <1>1
  <2>2. \A i \in n + 1 .. NumProxies : i - n \in 1 .. (NumProxies - n) /\ (i - n) + n = i
    BY <1>1
  <2>3. ASSUME NEW x \in Members(pool) PROVE x \in n + 1 .. NumProxies
    BY <1>1, <1>2, <2>1
  <2>4. ASSUME NEW x \in n + 1 .. NumProxies PROVE x \in Members(pool)
    <3>1. x - n \in 1 .. (NumProxies - n) /\ pool[x - n] = x
      BY <1>1, <2>2
    <3> QED
      BY <1>2, <3>1
  <2> QED
    BY <2>3, <2>4
<1>5. Free \cup Used = Proxies /\ Free \cap Used = {}
  <2>1. \A i : i \in 1 .. NumProxies <=> i \in 1 .. n \/ i \in n + 1 .. NumProxies
    BY <1>1
  <2>2. \A i : ~ (i \in 1 .. n /\ i \in n + 1 .. NumProxies)
    BY <1>1
  <2> QED
    BY <1>3, <1>4, <2>1, <2>2 DEF Proxies, Free, Used
<1>6. /\ Carried = [s \in Stays |-> {}] /\ Recovered = [s \in Stays |-> {}]
      /\ Away = [o \in Others |-> {}]
  BY MembersEmpty DEF Init, Carried, Recovered, Away
<1>7. Accounted = TRUE
  BY DEF Init, Accounted
<1> QED
  BY <1>5, <1>6, <1>7 DEF Pool!Init

(* Every step implements a step of ProxyPool or a stutter.                 *)
LEMMA PoolNext ==
    ASSUME IInv, OneOwner, [Next]_vars
    PROVE  [Pool!Next]_(Pool!poolVars)
<1>1. TypeOK /\ ChanInv /\ HoldInv
  BY DEF IInv
<1>2. CASE Accounted /\ Accounted'
  <2>1. ASSUME UNCHANGED <<pool, httpClients, hand, removed, taken>>
        PROVE  UNCHANGED Pool!poolVars
    BY <1>2, <2>1 DEF Pool!poolVars, Accounted, Free, Used, Carried, Recovered, Away
  <2> QED
    BY <1>1, <1>2, <2>1, PoolMove DEF Pool!Next
<1>3. CASE ~ Accounted /\ ~ Accounted'
  BY <1>3 DEF Pool!Next
<1>4. CASE Accounted /\ ~ Accounted'
  <2>1. PICK s \in Stays : EndMonitor(s)
    BY <1>4 DEF Accounted, Next, LoopStep, Poll, ReceiveClients, ReceiveReturn, ReceiveEnd,
       SelectDefault, GetMonitor, AddBot, PostStep, PostBotLaunch, TakeGroup, AddClients,
       StopBot, KeyInvalid, StopStep, RemoveBot, RecoverClients, Receive, ReturnProxies,
       CheckProxies, AttachProxies, OtherReturns, vars, monitorVars
  <2>2. /\ removed' = [removed EXCEPT ![s] = monProxies]
        /\ UNCHANGED <<pool, httpClients, hand, taken>>
    BY <2>1 DEF EndMonitor, postVars, otherVars
  <2>3. monProxies \in Seq(Proxies) /\ removed \in [Stays -> Seq(Proxies)]
    BY <1>1 DEF TypeOK
  <2>4. Members(monProxies) \in SUBSET Proxies
    BY <2>3, MembersType
  <2>5. Recovered' = [Recovered EXCEPT ![s] = Members(monProxies)]
    BY <2>2, <2>3, MembersChange DEF Recovered
  <2>6. Pool!CloseAccounts(s)
    <3>1. \E g \in SUBSET Proxies : Recovered' = [Recovered EXCEPT ![s] = g]
      BY <2>4, <2>5
    <3>2. UNCHANGED <<Free, Used, Carried, Away>>
      BY <2>2 DEF Free, Used, Carried, Away
    <3> QED
      BY <1>4, <3>1, <3>2 DEF Pool!CloseAccounts
  <2> QED
    BY <2>6 DEF Pool!Next
<1> QED
  BY <1>2, <1>3, <1>4, StayClosed

(* monitor.go:226-264, 410-433, botStartup.go:348-392, 465-506 and         *)
(* classes/proxies.go together implement ProxyPool: the proxies of a       *)
(* monitor, however many, move in whole groups and only on its ways.       *)
THEOREM ProxiesImplementPool == Spec => PoolSpec
<1>1. Init => Pool!Init
  BY PoolInit
<1>2. IInv /\ OneOwner /\ [Next]_vars => [Pool!Next]_(Pool!poolVars)
  BY PoolNext
<1> QED
  BY <1>1, <1>2, Inductive, PTL DEF Spec, PoolSpec, Pool!Spec
=============================================================================
