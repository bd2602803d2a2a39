------------------------------ MODULE Payments ------------------------------
(***************************************************************************)
(* Payments for a plan (payments.go, handlersPayments.go): a user claims a *)
(* transaction, a goroutine waits until it is mined, verifies it and       *)
(* writes what was paid for to the database; users whose time is over are  *)
(* wiped, by a goroutine each that an hourly round starts. The claims live *)
(* in memory only (PaymentsHdlr), under one mutex.                         *)
(*                                                                         *)
(* A statement of SQL is one step, and takes a connection out of the pool  *)
(* for its duration, so it waits while none is free. Two functions hold    *)
(* one for longer: storeDataOnInitialPayment, while its inserts take       *)
(* another, and WipeUser, which never gives it back. Sums, prices and      *)
(* wallets decide between the outcomes of a step and are not modelled.     *)
(***************************************************************************)
EXTENDS Integers, FiniteSets

CONSTANTS
    Users, Txs,
    Reqs,           \* bound: the requests to onPaymentSent
    UserOf, TxOf,   \* who sends a request, and the transaction it names
    Renewals,       \* the requests that are to renew a plan
    Instances,      \* AllowedCTInstances of the plan
    MaxConns,       \* the size of the connection pool
    MaxMonths, MaxRounds, MaxRestarts,  \* bounds
    NoUser, NoReq

ASSUME RequestAssumption ==
    /\ UserOf \in [Reqs -> Users] /\ TxOf \in [Reqs -> Txs]
    /\ Renewals \subseteq Reqs
ASSUME NoneAssumption == NoUser \notin Users /\ NoReq \notin Reqs
ASSUME SizeAssumption ==
    /\ Instances \in Nat \ {0} /\ MaxConns \in Nat \ {0}
    /\ MaxMonths \in Nat /\ MaxRounds \in Nat /\ MaxRestarts \in Nat
    /\ IsFiniteSet(Reqs) /\ IsFiniteSet(Users)

VARIABLES
    mined,      \* the transactions that are mined
    now,        \* the present month
    claimer,    \* payments.Payments: the user of each entry, or NoUser
    result,     \* payments.Payments: IsSuccess and ErrStr of each entry
    mu,         \* the request that holds payments.Mu, or NoReq
    pc,         \* where each request is
    iter,       \* iter of storeDataOnInitialPayment
    renewalTS,  \* users: the month up to which each is paid, 0 for no row
    bots,       \* copytrading: the bot_ids of each user
    inUse,      \* connections that are out for longer than a statement
    round,      \* rounds of handleApproachingRenewalDates so far
    wipe,       \* the goroutine that wipes a user, of each round
    restarts,
    credited,   \* history: how often each transaction was written to users
    relisted,   \* history: users listed again while they were being wiped
    cut         \* history: users a restart left half stored or half wiped

entryVars == <<claimer, result>>
dbVars == <<renewalTS, bots>>
loopVars == <<round, wipe, relisted>>
worldVars == <<mined, now, restarts, cut>>
vars == <<mined, now, claimer, result, mu, pc, iter, renewalTS, bots, inUse,
          round, wipe, restarts, credited, relisted, cut>>

Rounds == 1 .. MaxRounds
Verifying == {"check", "verify", "verifyErr", "price", "plan"}
Storing == {"store", "add", "acquire", "writeBot"}
Active == {"ask", "record"} \cup Verifying \cup Storing
Ended == {"refused", "failed", "stored", "alerted", "killed"}

TypeOK ==
    /\ mined \subseteq Txs
    /\ now \in Nat /\ round \in Nat /\ restarts \in Nat
    /\ claimer \in [Txs -> Users \cup {NoUser}]
    /\ result \in [Txs -> {"pending", "success", "fail"}]
    /\ mu \in Reqs \cup {NoReq}
    /\ pc \in [Reqs -> {"idle"} \cup Active \cup Ended]
    /\ iter \in [Reqs -> 1 .. Instances]
    /\ renewalTS \in [Users -> Nat]
    /\ bots \in [Users -> SUBSET (1 .. Instances)]
    /\ inUse \in 0 .. MaxConns
    /\ wipe \in [Rounds \X Users -> {"none", "acquire", "bots", "users", "done"}]
    /\ credited \in [Txs -> Nat]
    /\ relisted \subseteq Users /\ cut \subseteq Users

(* Some users have a plan already, up to the end of this month.            *)
Init ==
    /\ mined = {}
    /\ now = 1 /\ round = 0 /\ restarts = 0
    /\ claimer = [t \in Txs |-> NoUser]
    /\ result = [t \in Txs |-> "pending"]
    /\ mu = NoReq
    /\ pc = [r \in Reqs |-> "idle"]
    /\ iter = [r \in Reqs |-> 1]
    /\ \E old \in SUBSET Users :
          /\ renewalTS = [u \in Users |-> IF u \in old THEN 2 ELSE 0]
          /\ bots = [u \in Users |-> IF u \in old THEN 1 .. Instances ELSE {}]
    /\ inUse = 0
    /\ wipe = [w \in Rounds \X Users |-> "none"]
    /\ credited = [t \in Txs |-> 0]
    /\ relisted = {} /\ cut = {}

Goto(r, label) == pc' = [pc EXCEPT ![r] = label]
HasConn == inUse < MaxConns
HasRow(u) == renewalTS[u] # 0
Over(u) == HasRow(u) /\ renewalTS[u] <= now

-----------------------------------------------------------------------------
(* The network. What is mined stays mined; a transaction that is unknown,  *)
(* or was dropped, is like one a node cannot be asked about.               *)
Mine ==
    /\ \E t \in Txs \ mined : mined' = mined \cup {t}
    /\ UNCHANGED <<now, restarts, cut, entryVars, mu, pc, iter, dbVars, inUse, loopVars, credited>>

HalfStored(u) == \E r \in Reqs : UserOf[r] = u /\ pc[r] \in {"acquire", "writeBot"}
HalfWiped(u) == \E k \in Rounds : wipe[<<k, u>>] = "users"

(* A month is over; storing a first payment does not take as long.         *)
Month ==
    /\ now < MaxMonths
    /\ ~ \E u \in Users : HalfStored(u)
    /\ now' = now + 1
    /\ UNCHANGED <<mined, restarts, cut, entryVars, mu, pc, iter, dbVars, inUse, loopVars, credited>>

-----------------------------------------------------------------------------
(* Mutant: an entry does not stop another claim.                           *)
TryClaim_Exists_Never(r) == FALSE

(* TryClaimTx, called by onPaymentSent. The mutex is held to the end.      *)
TryClaim_Exists(r) == claimer[TxOf[r]] # NoUser

TryClaim_Lock(r) ==
    /\ pc[r] = "idle" /\ mu = NoReq
    /\ IF TryClaim_Exists(r)
       THEN Goto(r, "refused") /\ UNCHANGED mu
       ELSE Goto(r, "ask") /\ mu' = r
    /\ UNCHANGED <<worldVars, entryVars, iter, dbVars, inUse, loopVars, credited>>

(* TransactionByHash, the last of up to three attempts: the network may    *)
(* fail.                                                                   *)
TryClaim_Ask(r) ==
    /\ pc[r] = "ask"
    /\ \/ TxOf[r] \notin mined /\ Goto(r, "record") /\ UNCHANGED mu
       \/ Goto(r, "refused") /\ mu' = NoReq
    /\ UNCHANGED <<worldVars, entryVars, iter, dbVars, inUse, loopVars, credited>>

(* Mutant: the entry is made by a function that takes the mutex itself.    *)
TryClaim_Record_LocksAgain(r) ==
    /\ pc[r] = "record" /\ mu = NoReq
    /\ claimer' = [claimer EXCEPT ![TxOf[r]] = UserOf[r]]
    /\ result' = [result EXCEPT ![TxOf[r]] = "pending"]
    /\ Goto(r, "check") /\ UNCHANGED mu
    /\ UNCHANGED <<worldVars, iter, dbVars, inUse, loopVars, credited>>

(* The entry is made; the goroutine that verifies the payment starts.      *)
TryClaim_Record(r) ==
    /\ pc[r] = "record"
    /\ claimer' = [claimer EXCEPT ![TxOf[r]] = UserOf[r]]
    /\ result' = [result EXCEPT ![TxOf[r]] = "pending"]
    /\ Goto(r, "check") /\ mu' = NoReq
    /\ UNCHANGED <<worldVars, iter, dbVars, inUse, loopVars, credited>>

-----------------------------------------------------------------------------
(* checkPaymentSuccess: a tick that finds the transaction mined, paid to   *)
(* our wallet or another one, or the timeout. A tick that finds it pending *)
(* or fails changes nothing.                                               *)
Check_Mined(r) ==
    /\ pc[r] = "check" /\ TxOf[r] \in mined
    /\ \E label \in {"verify", "verifyErr"} : Goto(r, label)
    /\ UNCHANGED <<worldVars, entryVars, mu, iter, dbVars, inUse, loopVars, credited>>

Check_Timeout(r) ==
    /\ pc[r] = "check"
    /\ Goto(r, "verifyErr")
    /\ UNCHANGED <<worldVars, entryVars, mu, iter, dbVars, inUse, loopVars, credited>>

(* Mutant: the unlock is not deferred, and an early return misses it.      *)
Verify_Fail_KeepsLock(r) ==
    /\ result' = [result EXCEPT ![TxOf[r]] = "fail"]
    /\ Goto(r, "failed") /\ UNCHANGED mu

(* VerifyPayment writes ErrStr and returns false.                          *)
Verify_Fail(r) ==
    /\ result' = [result EXCEPT ![TxOf[r]] = "fail"]
    /\ Goto(r, "failed") /\ mu' = NoReq

Verify_Lock(r) ==
    /\ mu = NoReq
    /\ \/ pc[r] = "verifyErr" /\ Verify_Fail(r)
       \/ pc[r] = "verify" /\ Goto(r, "price") /\ mu' = r /\ UNCHANGED result
    /\ UNCHANGED <<worldVars, claimer, iter, dbVars, inUse, loopVars, credited>>

(* getEthPrice, under the mutex.                                           *)
Verify_Price(r) ==
    /\ pc[r] = "price"
    /\ \/ Goto(r, "plan") /\ UNCHANGED <<result, mu>>
       \/ Verify_Fail(r)
    /\ UNCHANGED <<worldVars, claimer, iter, dbVars, inUse, loopVars, credited>>

(* ReadPlan, under the mutex, and the comparison of the sums.              *)
Verify_Plan(r) ==
    /\ pc[r] = "plan" /\ HasConn
    /\ \/ /\ result' = [result EXCEPT ![TxOf[r]] = "success"]
          /\ Goto(r, "store") /\ mu' = NoReq
       \/ Verify_Fail(r)
    /\ UNCHANGED <<worldVars, claimer, iter, dbVars, inUse, loopVars, credited>>

(* Mutant: the entry is removed whatever the answer.                       *)
CheckPaymentStatus_RemovesPending(u, t) ==
    /\ mu = NoReq
    /\ claimer[t] = u
    /\ claimer' = [claimer EXCEPT ![t] = NoUser]
    /\ result' = [result EXCEPT ![t] = "pending"]
    /\ UNCHANGED <<worldVars, mu, pc, iter, dbVars, inUse, loopVars, credited>>

(* onCheckPaymentStatus: an answer that is final is given once, to the     *)
(* user who claimed the transaction; every other answer changes nothing.   *)
CheckPaymentStatus(u, t) ==
    /\ mu = NoReq
    /\ claimer[t] = u /\ result[t] # "pending"
    /\ claimer' = [claimer EXCEPT ![t] = NoUser]
    /\ result' = [result EXCEPT ![t] = "pending"]
    /\ UNCHANGED <<worldVars, mu, pc, iter, dbVars, inUse, loopVars, credited>>

-----------------------------------------------------------------------------
(* A transaction is written to the users table.                            *)
Credit(r) == credited' = [credited EXCEPT ![TxOf[r]] = @ + 1]

(* Storing failed: the goroutine of onPaymentSent alerts the staff.        *)
SendStaffAlert(r) == Goto(r, "alerted") /\ UNCHANGED <<dbVars, credited>>

(* StoreDataOnRenewalPayment: is there a row?                              *)
Renew_Read(r) ==
    /\ pc[r] = "store" /\ r \in Renewals /\ HasConn
    /\ IF HasRow(UserOf[r])
       THEN Goto(r, "add") /\ UNCHANGED <<dbVars, credited>>
       ELSE SendStaffAlert(r)
    /\ UNCHANGED <<worldVars, entryVars, mu, iter, inUse, loopVars>>

(* Mutant: RowsAffected is not looked at.                                  *)
Renew_Add_AnyRows(r) ==
    /\ pc[r] = "add" /\ HasConn
    /\ Goto(r, "stored")
    /\ IF HasRow(UserOf[r])
       THEN renewalTS' = [renewalTS EXCEPT ![UserOf[r]] = @ + 1] /\ Credit(r) /\ UNCHANGED bots
       ELSE UNCHANGED <<dbVars, credited>>
    /\ UNCHANGED <<worldVars, entryVars, mu, iter, inUse, loopVars>>

(* AddToUserRenewalDate.                                                   *)
Renew_Add(r) ==
    /\ pc[r] = "add" /\ HasConn
    /\ IF HasRow(UserOf[r])
       THEN /\ renewalTS' = [renewalTS EXCEPT ![UserOf[r]] = @ + 1]
            /\ Credit(r) /\ Goto(r, "stored") /\ UNCHANGED bots
       ELSE SendStaffAlert(r)
    /\ UNCHANGED <<worldVars, entryVars, mu, iter, inUse, loopVars>>

(* storeDataOnInitialPayment: ReadPlan, and WriteRecordUsers, which fails  *)
(* if there is a row.                                                      *)
Initial_WriteUser(r) ==
    /\ pc[r] = "store" /\ r \notin Renewals /\ HasConn
    /\ IF HasRow(UserOf[r])
       THEN SendStaffAlert(r)
       ELSE /\ renewalTS' = [renewalTS EXCEPT ![UserOf[r]] = now + 1]
            /\ Credit(r) /\ Goto(r, "acquire") /\ UNCHANGED bots
    /\ UNCHANGED <<worldVars, entryVars, mu, iter, inUse, loopVars>>

Initial_Acquire(r) ==
    /\ pc[r] = "acquire" /\ HasConn
    /\ inUse' = inUse + 1
    /\ Goto(r, "writeBot")
    /\ UNCHANGED <<worldVars, entryVars, mu, iter, dbVars, loopVars, credited>>

(* The deferred conn.Release, and the end of iter's scope.                 *)
Release(r) == inUse' = inUse - 1 /\ iter' = [iter EXCEPT ![r] = 1]

(* WriteRecordCPYT, with another connection; it fails if the row exists.   *)
Initial_WriteBot(r) ==
    LET u == UserOf[r] IN
    /\ pc[r] = "writeBot" /\ HasConn
    /\ \/ iter[r] \in bots[u] /\ SendStaffAlert(r) /\ Release(r)
       \/ /\ iter[r] \notin bots[u]
          /\ bots' = [bots EXCEPT ![u] = @ \cup {iter[r]}]
          /\ IF iter[r] < Instances
             THEN iter' = [iter EXCEPT ![r] = @ + 1] /\ UNCHANGED <<inUse, pc>>
             ELSE Goto(r, "stored") /\ Release(r)
          /\ UNCHANGED <<renewalTS, credited>>
    /\ UNCHANGED <<worldVars, entryVars, mu, loopVars>>

-----------------------------------------------------------------------------
BeingWiped(u) == \E k \in Rounds : wipe[<<k, u>>] \in {"acquire", "bots", "users"}

(* A round of handleApproachingRenewalDates: getUsersForNotification lists *)
(* the users whose time is over, and each gets a goroutine. (The warnings  *)
(* before that are messages and left out.)                                 *)
Renewal_List ==
    /\ round < MaxRounds /\ HasConn
    /\ round' = round + 1
    /\ wipe' = [w \in Rounds \X Users |->
                  IF w[1] = round + 1 /\ Over(w[2]) THEN "acquire" ELSE wipe[w]]
    /\ relisted' = relisted \cup {u \in Users : Over(u) /\ BeingWiped(u)}
    /\ UNCHANGED <<worldVars, entryVars, mu, pc, iter, dbVars, inUse, credited>>

(* WipeUser, in a goroutine of round k; the connection stays out.          *)
Wipe_Acquire(k, u) ==
    /\ wipe[<<k, u>>] = "acquire" /\ HasConn
    /\ inUse' = inUse + 1
    /\ wipe' = [wipe EXCEPT ![<<k, u>>] = "bots"]
    /\ UNCHANGED <<worldVars, entryVars, mu, pc, iter, dbVars, round, relisted, credited>>

(* Mutant: wipeCpyt is false, as in the handler that changes a plan.       *)
Wipe_Bots_Kept(k, u) ==
    /\ wipe[<<k, u>>] = "bots"
    /\ wipe' = [wipe EXCEPT ![<<k, u>>] = "users"]
    /\ UNCHANGED <<worldVars, entryVars, mu, pc, iter, dbVars, inUse, round, relisted, credited>>

Wipe_Bots(k, u) ==
    /\ wipe[<<k, u>>] = "bots"
    /\ bots' = [bots EXCEPT ![u] = {}]
    /\ wipe' = [wipe EXCEPT ![<<k, u>>] = "users"]
    /\ UNCHANGED <<worldVars, entryVars, mu, pc, iter, renewalTS, inUse, round, relisted, credited>>

Wipe_Users(k, u) ==
    /\ wipe[<<k, u>>] = "users"
    /\ renewalTS' = [renewalTS EXCEPT ![u] = 0]
    /\ wipe' = [wipe EXCEPT ![<<k, u>>] = "done"]
    /\ UNCHANGED <<worldVars, entryVars, mu, pc, iter, bots, inUse, round, relisted, credited>>

(* The program stops and starts: what is in memory is gone.                *)
Restart ==
    /\ restarts < MaxRestarts
    /\ restarts' = restarts + 1
    /\ claimer' = [t \in Txs |-> NoUser]
    /\ result' = [t \in Txs |-> "pending"]
    /\ mu' = NoReq
    /\ pc' = [r \in Reqs |-> IF pc[r] \in Active THEN "killed" ELSE pc[r]]
    /\ iter' = [r \in Reqs |-> 1]
    /\ inUse' = 0
    /\ wipe' = [w \in Rounds \X Users |-> "none"]
    /\ cut' = cut \cup {u \in Users : HalfStored(u) \/ HalfWiped(u)}
    /\ UNCHANGED <<mined, now, dbVars, round, relisted, credited>>

-----------------------------------------------------------------------------
Claim(r) == TryClaim_Lock(r) \/ TryClaim_Ask(r) \/ TryClaim_Record(r)
Verify(r) ==
    \/ Check_Mined(r) \/ Check_Timeout(r)
    \/ Verify_Lock(r) \/ Verify_Price(r) \/ Verify_Plan(r)
Store(r) ==
    \/ Renew_Read(r) \/ Renew_Add(r)
    \/ Initial_WriteUser(r) \/ Initial_Acquire(r) \/ Initial_WriteBot(r)
WipeUser(k, u) == Wipe_Acquire(k, u) \/ Wipe_Bots(k, u) \/ Wipe_Users(k, u)

Next ==
    \/ Mine \/ Month \/ Renewal_List \/ Restart
    \/ \E r \in Reqs : Claim(r) \/ Verify(r) \/ Store(r)
    \/ \E u \in Users, t \in Txs : CheckPaymentStatus(u, t)
    \/ \E u \in Users, k \in Rounds : WipeUser(k, u)

Spec == Init /\ [][Next]_vars

-----------------------------------------------------------------------------
(* A transaction is written to the users table at most once, whoever       *)
(* claims it, how often it is claimed again after a timeout or a restart,  *)
(* and although its entry is deleted when its status has been told.        *)
OneGrant == \A t \in Txs : credited[t] <= 1

(* While a payment is verified its entry stays in the handler, undecided   *)
(* and in the name of its user, and nobody else verifies the transaction.  *)
ClaimIsKept ==
    \A r \in Reqs : pc[r] \in Verifying =>
        /\ claimer[TxOf[r]] = UserOf[r] /\ result[TxOf[r]] = "pending"
        /\ \A s \in Reqs : TxOf[s] = TxOf[r] /\ pc[s] \in Verifying => s = r

(* What a user can be told is a success has been written to the users      *)
(* table, is about to be, or the staff has been alerted.                   *)
SuccessIsBacked ==
    \A t \in Txs : result[t] = "success" =>
        \/ credited[t] = 1
        \/ \E r \in Reqs : TxOf[r] = t /\ pc[r] \in {"store", "add", "alerted"}

(* Outside of storing and wiping, a user has all bots of the plan or no    *)
(* rows at all: first payments, renewals and wipes may come together in    *)
(* any way. Left out are users a restart caught in the middle, and those   *)
(* an hourly round listed again before the last one was done with them,    *)
(* for then the second wipe meets what was paid for after the first.       *)
RowsAgree ==
    \A u \in Users \ (relisted \cup cut) :
        ~HalfStored(u) /\ ~HalfWiped(u) =>
            bots[u] = IF HasRow(u) THEN 1 .. Instances ELSE {}

(* The connections that functions hold for longer than a statement leave   *)
(* none: those of wipes, which keep theirs, and of first payments.         *)
Holders == {r \in Reqs : pc[r] = "writeBot"}
Keepers == {w \in Rounds \X Users : wipe[w] \in {"bots", "users", "done"}}
Exhausted == Cardinality(Holders) + Cardinality(Keepers) >= MaxConns

(* A payment that waits for nothing but the network, or for the mutex or a *)
(* connection when there is one.                                           *)
GoesOn(r) ==
    \/ pc[r] \in {"ask", "record", "check", "price"}
    \/ pc[r] \in {"verify", "verifyErr"} /\ mu = NoReq
    \/ pc[r] \in {"plan"} \cup Storing /\ HasConn

(* Everyone waiting on everyone: as long as a payment is under way, some   *)
(* payment can go on, whoever has the mutex and the connections, unless    *)
(* the pool is empty for good because of first payments that wait for each *)
(* other's connection or of former wipes.                                  *)
SomeoneGoesOn ==
    (\E r \in Reqs : pc[r] \in Active) /\ ~Exhausted => \E r \in Reqs : GoesOn(r)

(* A payment that can go on has a step to take, whatever the others have   *)
(* done to the mutex, the rows and the connections meanwhile. (Every step  *)
(* takes it nearer to its end, so with SomeoneGoesOn all of them end.)     *)
GoingOnIsPossible ==
    \A r \in Reqs : GoesOn(r) => ENABLED (Claim(r) \/ Verify(r) \/ Store(r))
=============================================================================
