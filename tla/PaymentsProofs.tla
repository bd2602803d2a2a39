--------------------------- MODULE PaymentsProofs ---------------------------
(* Proofs about Payments, for any set of users and transactions, and any   *)
(* number of requests, rounds and restarts.                                *)
EXTENDS Payments, FiniteSetTheorems, TLAPS

(* The mutex is held by the request in the middle of a claim or of the     *)
(* verdict on its payment.                                                 *)
MuInv == \A r \in Reqs : pc[r] \in {"ask", "record", "price", "plan"} <=> mu = r

(* A request that asks the network has found no entry, and one that        *)
(* verifies has its own, undecided.                                        *)
EntryInv ==
    \A r \in Reqs :
        /\ pc[r] \in {"ask", "record"} => claimer[TxOf[r]] = NoUser
        /\ pc[r] \in Verifying =>
              claimer[TxOf[r]] = UserOf[r] /\ result[TxOf[r]] = "pending"

(* A request that may yet write its transaction to the users table.        *)
Live == {"record"} \cup Verifying \cup {"store", "add"}

(* Of one transaction there is one such request, and none once it has been *)
(* written; what is verified or written is mined, so nobody records a      *)
(* claim to it again.                                                      *)
GrantInv ==
    /\ \A r, s \in Reqs : TxOf[s] = TxOf[r] /\ pc[r] \in Live /\ pc[s] \in Live => s = r
    /\ \A r \in Reqs : pc[r] \in {"verify", "price", "plan", "store", "add"} => TxOf[r] \in mined
    /\ \A t \in Txs : credited[t] # 0 =>
          /\ credited[t] = 1 /\ t \in mined
          /\ \A r \in Reqs : TxOf[r] = t => pc[r] \notin Live

(* The mutex passes from claim to claim and verdict to verdict.            *)
LEMMA MuStep == TypeOK /\ MuInv /\ [Next]_vars => MuInv'
<1> SUFFICES ASSUME TypeOK, MuInv, [Next]_vars PROVE MuInv'
  OBVIOUS
<1> USE RequestAssumption, NoneAssumption DEF TypeOK, MuInv, entryVars, dbVars,
    loopVars, worldVars, Active, Verifying, Storing, Ended
<1>1. ASSUME Mine PROVE MuInv'
  BY <1>1 DEF Mine
<1>2. ASSUME Month PROVE MuInv'
  BY <1>2 DEF Month
<1>3. ASSUME Renewal_List PROVE MuInv'
  BY <1>3 DEF Renewal_List
<1>4. ASSUME Restart PROVE MuInv'
  BY <1>4 DEF Restart
<1>5. ASSUME NEW r \in Reqs, TryClaim_Lock(r) PROVE MuInv'
  BY <1>5 DEF TryClaim_Lock, TryClaim_Exists, Goto
<1>6. ASSUME NEW r \in Reqs, TryClaim_Ask(r) PROVE MuInv'
  BY <1>6 DEF TryClaim_Ask, Goto
<1>7. ASSUME NEW r \in Reqs, TryClaim_Record(r) PROVE MuInv'
  BY <1>7 DEF TryClaim_Record, Goto
<1>8. ASSUME NEW r \in Reqs, Check_Mined(r) PROVE MuInv'
  BY <1>8 DEF Check_Mined, Goto
<1>9. ASSUME NEW r \in Reqs, Check_Timeout(r) PROVE MuInv'
  BY <1>9 DEF Check_Timeout, Goto
<1>10. ASSUME NEW r \in Reqs, Verify_Lock(r) PROVE MuInv'
  BY <1>10 DEF Verify_Lock, Goto, Verify_Fail
<1>11. ASSUME NEW r \in Reqs, Verify_Price(r) PROVE MuInv'
  BY <1>11 DEF Verify_Price, Goto, Verify_Fail
<1>12. ASSUME NEW r \in Reqs, Verify_Plan(r) PROVE MuInv'
  BY <1>12 DEF Verify_Plan, Goto, Verify_Fail
<1>13. ASSUME NEW r \in Reqs, Renew_Read(r) PROVE MuInv'
  BY <1>13 DEF Renew_Read, Goto, SendStaffAlert
<1>14. ASSUME NEW r \in Reqs, Renew_Add(r) PROVE MuInv'
  BY <1>14 DEF Renew_Add, Goto, Credit, SendStaffAlert
<1>15. ASSUME NEW r \in Reqs, Initial_WriteUser(r) PROVE MuInv'
  BY <1>15 DEF Initial_WriteUser, Goto, Credit, SendStaffAlert
<1>16. ASSUME NEW r \in Reqs, Initial_Acquire(r) PROVE MuInv'
  BY <1>16 DEF Initial_Acquire, Goto
<1>17. ASSUME NEW r \in Reqs, Initial_WriteBot(r) PROVE MuInv'
  BY <1>17 DEF Initial_WriteBot, Goto, Release, SendStaffAlert
<1>18. ASSUME NEW u \in Users, NEW t \in Txs, CheckPaymentStatus(u, t) PROVE MuInv'
  BY <1>18 DEF CheckPaymentStatus
<1>19. ASSUME NEW u \in Users, NEW k \in Rounds, Wipe_Acquire(k, u) PROVE MuInv'
  BY <1>19 DEF Wipe_Acquire
<1>20. ASSUME NEW u \in Users, NEW k \in Rounds, Wipe_Bots(k, u) PROVE MuInv'
  BY <1>20 DEF Wipe_Bots
<1>21. ASSUME NEW u \in Users, NEW k \in Rounds, Wipe_Users(k, u) PROVE MuInv'
  BY <1>21 DEF Wipe_Users
<1>22. CASE UNCHANGED vars
  BY <1>22 DEF vars
<1> QED
  BY <1>1, <1>2, <1>3, <1>4, <1>5, <1>6, <1>7, <1>8, <1>9, <1>10, <1>11, <1>12,
      <1>13, <1>14, <1>15, <1>16, <1>17, <1>18, <1>19, <1>20, <1>21,
      <1>22 DEF Next, Claim, Verify, Store, WipeUser

(* No step touches the entry another request relies on.                    *)
LEMMA EntryStep == TypeOK /\ MuInv /\ GrantInv /\ EntryInv /\ [Next]_vars => EntryInv'
<1> SUFFICES ASSUME TypeOK, MuInv, GrantInv, EntryInv, [Next]_vars PROVE EntryInv'
  OBVIOUS
<1> USE RequestAssumption, NoneAssumption DEF TypeOK, MuInv, GrantInv,
    EntryInv, entryVars, dbVars, loopVars, worldVars, Active, Verifying,
    Storing, Ended, Live
<1>1. ASSUME Mine PROVE EntryInv'
  BY <1>1 DEF Mine
<1>2. ASSUME Month PROVE EntryInv'
  BY <1>2 DEF Month
<1>3. ASSUME Renewal_List PROVE EntryInv'
  BY <1>3 DEF Renewal_List
<1>4. ASSUME Restart PROVE EntryInv'
  BY <1>4 DEF Restart
<1>5. ASSUME NEW r \in Reqs, TryClaim_Lock(r) PROVE EntryInv'
  BY <1>5 DEF TryClaim_Lock, TryClaim_Exists, Goto
<1>6. ASSUME NEW r \in Reqs, TryClaim_Ask(r) PROVE EntryInv'
  BY <1>6 DEF TryClaim_Ask, Goto
<1>7. ASSUME NEW r \in Reqs, TryClaim_Record(r) PROVE EntryInv'
  BY <1>7 DEF TryClaim_Record, Goto
<1>8. ASSUME NEW r \in Reqs, Check_Mined(r) PROVE EntryInv'
  BY <1>8 DEF Check_Mined, Goto
<1>9. ASSUME NEW r \in Reqs, Check_Timeout(r) PROVE EntryInv'
  BY <1>9 DEF Check_Timeout, Goto
<1>10. ASSUME NEW r \in Reqs, Verify_Lock(r) PROVE EntryInv'
  BY <1>10 DEF Verify_Lock, Goto, Verify_Fail
<1>11. ASSUME NEW r \in Reqs, Verify_Price(r) PROVE EntryInv'
  BY <1>11 DEF Verify_Price, Goto, Verify_Fail
<1>12. ASSUME NEW r \in Reqs, Verify_Plan(r) PROVE EntryInv'
  BY <1>12 DEF Verify_Plan, Goto, Verify_Fail
<1>13. ASSUME NEW r \in Reqs, Renew_Read(r) PROVE EntryInv'
  BY <1>13 DEF Renew_Read, Goto, SendStaffAlert
<1>14. ASSUME NEW r \in Reqs, Renew_Add(r) PROVE EntryInv'
  BY <1>14 DEF Renew_Add, Goto, Credit, SendStaffAlert
<1>15. ASSUME NEW r \in Reqs, Initial_WriteUser(r) PROVE EntryInv'
  BY <1>15 DEF Initial_WriteUser, Goto, Credit, SendStaffAlert
<1>16. ASSUME NEW r \in Reqs, Initial_Acquire(r) PROVE EntryInv'
  BY <1>16 DEF Initial_Acquire, Goto
<1>17. ASSUME NEW r \in Reqs, Initial_WriteBot(r) PROVE EntryInv'
  BY <1>17 DEF Initial_WriteBot, Goto, Release, SendStaffAlert
<1>18. ASSUME NEW u \in Users, NEW t \in Txs, CheckPaymentStatus(u, t) PROVE EntryInv'
  BY <1>18 DEF CheckPaymentStatus
<1>19. ASSUME NEW u \in Users, NEW k \in Rounds, Wipe_Acquire(k, u) PROVE EntryInv'
  BY <1>19 DEF Wipe_Acquire
<1>20. ASSUME NEW u \in Users, NEW k \in Rounds, Wipe_Bots(k, u) PROVE EntryInv'
  BY <1>20 DEF Wipe_Bots
<1>21. ASSUME NEW u \in Users, NEW k \in Rounds, Wipe_Users(k, u) PROVE EntryInv'
  BY <1>21 DEF Wipe_Users
<1>22. CASE UNCHANGED vars
  BY <1>22 DEF vars
<1> QED
  BY <1>1, <1>2, <1>3, <1>4, <1>5, <1>6, <1>7, <1>8, <1>9, <1>10, <1>11, <1>12,
      <1>13, <1>14, <1>15, <1>16, <1>17, <1>18, <1>19, <1>20, <1>21,
      <1>22 DEF Next, Claim, Verify, Store, WipeUser

(* Nobody else comes to life on a transaction that is taken or written.    *)
LEMMA GrantStep == TypeOK /\ MuInv /\ EntryInv /\ GrantInv /\ [Next]_vars => GrantInv'
<1> SUFFICES ASSUME TypeOK, MuInv, EntryInv, GrantInv, [Next]_vars PROVE GrantInv'
  OBVIOUS
<1> USE RequestAssumption, NoneAssumption DEF TypeOK, MuInv, EntryInv,
    GrantInv, entryVars, dbVars, loopVars, worldVars, Active, Verifying,
    Storing, Ended, Live
<1>1. ASSUME Mine PROVE GrantInv'
  BY <1>1 DEF Mine
<1>2. ASSUME Month PROVE GrantInv'
  BY <1>2 DEF Month
<1>3. ASSUME Renewal_List PROVE GrantInv'
  BY <1>3 DEF Renewal_List
<1>4. ASSUME Restart PROVE GrantInv'
  BY <1>4 DEF Restart
<1>5. ASSUME NEW r \in Reqs, TryClaim_Lock(r) PROVE GrantInv'
  BY <1>5 DEF TryClaim_Lock, TryClaim_Exists, Goto
<1>6. ASSUME NEW r \in Reqs, TryClaim_Ask(r) PROVE GrantInv'
  BY <1>6 DEF TryClaim_Ask, Goto
<1>7. ASSUME NEW r \in Reqs, TryClaim_Record(r) PROVE GrantInv'
  BY <1>7 DEF TryClaim_Record, Goto
<1>8. ASSUME NEW r \in Reqs, Check_Mined(r) PROVE GrantInv'
  BY <1>8 DEF Check_Mined, Goto
<1>9. ASSUME NEW r \in Reqs, Check_Timeout(r) PROVE GrantInv'
  BY <1>9 DEF Check_Timeout, Goto
<1>10. ASSUME NEW r \in Reqs, Verify_Lock(r) PROVE GrantInv'
  BY <1>10 DEF Verify_Lock, Goto, Verify_Fail
<1>11. ASSUME NEW r \in Reqs, Verify_Price(r) PROVE GrantInv'
  BY <1>11 DEF Verify_Price, Goto, Verify_Fail
<1>12. ASSUME NEW r \in Reqs, Verify_Plan(r) PROVE GrantInv'
  BY <1>12 DEF Verify_Plan, Goto, Verify_Fail
<1>13. ASSUME NEW r \in Reqs, Renew_Read(r) PROVE GrantInv'
  <2>1. /\ UNCHANGED <<mined, credited>>
        /\ pc[r] = "store"
        /\ \E label \in {"add", "alerted"} : pc' = [pc EXCEPT ![r] = label]
    BY <1>13 DEF Renew_Read, SendStaffAlert, Goto
  <2> QED
    BY <2>1
<1>14. ASSUME NEW r \in Reqs, Renew_Add(r) PROVE GrantInv'
  BY <1>14 DEF Renew_Add, Goto, Credit, SendStaffAlert
<1>15. ASSUME NEW r \in Reqs, Initial_WriteUser(r) PROVE GrantInv'
  BY <1>15 DEF Initial_WriteUser, Goto, Credit, SendStaffAlert
<1>16. ASSUME NEW r \in Reqs, Initial_Acquire(r) PROVE GrantInv'
  BY <1>16 DEF Initial_Acquire, Goto
<1>17. ASSUME NEW r \in Reqs, Initial_WriteBot(r) PROVE GrantInv'
  BY <1>17 DEF Initial_WriteBot, Goto, Release, SendStaffAlert
<1>18. ASSUME NEW u \in Users, NEW t \in Txs, CheckPaymentStatus(u, t) PROVE GrantInv'
  BY <1>18 DEF CheckPaymentStatus
<1>19. ASSUME NEW u \in Users, NEW k \in Rounds, Wipe_Acquire(k, u) PROVE GrantInv'
  BY <1>19 DEF Wipe_Acquire
<1>20. ASSUME NEW u \in Users, NEW k \in Rounds, Wipe_Bots(k, u) PROVE GrantInv'
  BY <1>20 DEF Wipe_Bots
<1>21. ASSUME NEW u \in Users, NEW k \in Rounds, Wipe_Users(k, u) PROVE GrantInv'
  BY <1>21 DEF Wipe_Users
<1>22. CASE UNCHANGED vars
  BY <1>22 DEF vars
<1> QED
  BY <1>1, <1>2, <1>3, <1>4, <1>5, <1>6, <1>7, <1>8, <1>9, <1>10, <1>11, <1>12,
      <1>13, <1>14, <1>15, <1>16, <1>17, <1>18, <1>19, <1>20, <1>21,
      <1>22 DEF Next, Claim, Verify, Store, WipeUser

(* A success is backed from the verdict on.                                *)
LEMMA SuccessStep == TypeOK /\ MuInv /\ EntryInv /\ GrantInv /\ SuccessIsBacked /\ [Next]_vars => SuccessIsBacked'
<1> SUFFICES ASSUME TypeOK, MuInv, EntryInv, GrantInv, SuccessIsBacked, [Next]_vars PROVE SuccessIsBacked'
  OBVIOUS
<1> USE RequestAssumption, NoneAssumption DEF TypeOK, MuInv, EntryInv,
    GrantInv, SuccessIsBacked, entryVars, dbVars, loopVars, worldVars, Active,
    Verifying, Storing, Ended, Live
<1>1. ASSUME Mine PROVE SuccessIsBacked'
  BY <1>1 DEF Mine
<1>2. ASSUME Month PROVE SuccessIsBacked'
  BY <1>2 DEF Month
<1>3. ASSUME Renewal_List PROVE SuccessIsBacked'
  BY <1>3 DEF Renewal_List
<1>4. ASSUME Restart PROVE SuccessIsBacked'
  BY <1>4 DEF Restart
<1>5. ASSUME NEW r \in Reqs, TryClaim_Lock(r) PROVE SuccessIsBacked'
  BY <1>5 DEF TryClaim_Lock, TryClaim_Exists, Goto
<1>6. ASSUME NEW r \in Reqs, TryClaim_Ask(r) PROVE SuccessIsBacked'
  BY <1>6 DEF TryClaim_Ask, Goto
<1>7. ASSUME NEW r \in Reqs, TryClaim_Record(r) PROVE SuccessIsBacked'
  BY <1>7 DEF TryClaim_Record, Goto
<1>8. ASSUME NEW r \in Reqs, Check_Mined(r) PROVE SuccessIsBacked'
  BY <1>8 DEF Check_Mined, Goto
<1>9. ASSUME NEW r \in Reqs, Check_Timeout(r) PROVE SuccessIsBacked'
  BY <1>9 DEF Check_Timeout, Goto
<1>10. ASSUME NEW r \in Reqs, Verify_Lock(r) PROVE SuccessIsBacked'
  <2>1. \A t \in Txs : result'[t] = "success" => result[t] = "success"
    BY <1>10 DEF Verify_Lock, Verify_Fail
  <2>2. /\ credited' = credited /\ pc[r] \notin {"store", "add", "alerted"}
        /\ \A q \in Reqs \ {r} : pc'[q] = pc[q]
    BY <1>10 DEF Verify_Lock, Verify_Fail, Goto
  <2>3. ASSUME NEW t \in Txs, result'[t] = "success"
        PROVE  credited'[t] = 1 \/ \E q \in Reqs : TxOf[q] = t /\ pc'[q] \in {"store", "add", "alerted"}
    <3>1. credited[t] = 1 \/ \E q \in Reqs : TxOf[q] = t /\ pc[q] \in {"store", "add", "alerted"}
      BY <2>1, <2>3
    <3> QED
      BY <2>2, <3>1
  <2> QED
    BY <2>3
<1>11. ASSUME NEW r \in Reqs, Verify_Price(r) PROVE SuccessIsBacked'
  BY <1>11 DEF Verify_Price, Goto, Verify_Fail
<1>12. ASSUME NEW r \in Reqs, Verify_Plan(r) PROVE SuccessIsBacked'
  BY <1>12 DEF Verify_Plan, Goto, Verify_Fail
<1>13. ASSUME NEW r \in Reqs, Renew_Read(r) PROVE SuccessIsBacked'
  BY <1>13 DEF Renew_Read, Goto, SendStaffAlert
<1>14. ASSUME NEW r \in Reqs, Renew_Add(r) PROVE SuccessIsBacked'
  BY <1>14 DEF Renew_Add, Goto, Credit, SendStaffAlert
<1>15. ASSUME NEW r \in Reqs, Initial_WriteUser(r) PROVE SuccessIsBacked'
  BY <1>15 DEF Initial_WriteUser, Goto, Credit, SendStaffAlert
<1>16. ASSUME NEW r \in Reqs, Initial_Acquire(r) PROVE SuccessIsBacked'
  BY <1>16 DEF Initial_Acquire, Goto
<1>17. ASSUME NEW r \in Reqs, Initial_WriteBot(r) PROVE SuccessIsBacked'
  BY <1>17 DEF Initial_WriteBot, Goto, Release, SendStaffAlert
<1>18. ASSUME NEW u \in Users, NEW t \in Txs, CheckPaymentStatus(u, t) PROVE SuccessIsBacked'
  BY <1>18 DEF CheckPaymentStatus
<1>19. ASSUME NEW u \in Users, NEW k \in Rounds, Wipe_Acquire(k, u) PROVE SuccessIsBacked'
  BY <1>19 DEF Wipe_Acquire
<1>20. ASSUME NEW u \in Users, NEW k \in Rounds, Wipe_Bots(k, u) PROVE SuccessIsBacked'
  BY <1>20 DEF Wipe_Bots
<1>21. ASSUME NEW u \in Users, NEW k \in Rounds, Wipe_Users(k, u) PROVE SuccessIsBacked'
  BY <1>21 DEF Wipe_Users
<1>22. CASE UNCHANGED vars
  BY <1>22 DEF vars
<1> QED
  BY <1>1, <1>2, <1>3, <1>4, <1>5, <1>6, <1>7, <1>8, <1>9, <1>10, <1>11, <1>12,
      <1>13, <1>14, <1>15, <1>16, <1>17, <1>18, <1>19, <1>20, <1>21,
      <1>22 DEF Next, Claim, Verify, Store, WipeUser

(* The rows of a user: at most one goroutine wipes the user, who has a row  *)
(* and no first payment under way; a first payment is the only one, its    *)
(* month has not come, and it has written the bots before iter.            *)
Wiping(k, u) == wipe[<<k, u>>] \in {"acquire", "bots", "users"}
HalfPaid(r, u) == UserOf[r] = u /\ pc[r] \in {"acquire", "writeBot"}

RowsOf(u) ==
    /\ \A k, l \in Rounds : Wiping(k, u) /\ Wiping(l, u) => k = l
    /\ \A k \in Rounds : Wiping(k, u) => renewalTS[u] # 0
    /\ \A k \in Rounds, r \in Reqs : Wiping(k, u) => ~HalfPaid(r, u)
    /\ \A k \in Rounds : wipe[<<k, u>>] = "users" => bots[u] = {}
    /\ \A r, s \in Reqs : HalfPaid(r, u) /\ HalfPaid(s, u) => r = s
    /\ \A r \in Reqs : HalfPaid(r, u) =>
          renewalTS[u] > now /\ bots[u] = 1 .. (iter[r] - 1)
    /\ \/ \E r \in Reqs : HalfPaid(r, u)
       \/ \E k \in Rounds : wipe[<<k, u>>] = "users"
       \/ renewalTS[u] # 0 /\ bots[u] = 1 .. Instances
       \/ renewalTS[u] = 0 /\ bots[u] = {}

RowInv == \A u \in Users : u \notin relisted /\ u \notin cut => RowsOf(u)

IterInv == \A r \in Reqs : pc[r] # "writeBot" => iter[r] = 1

(* A round that has not come has no goroutines.                            *)
RoundInv == \A k \in Rounds, u \in Users : k > round => wipe[<<k, u>>] = "none"

(* A connection is out of the pool for a first payment or because of a     *)
(* wipe.                                                                   *)
ConnInv == inUse = Cardinality(Holders) + Cardinality(Keepers)

IInv ==
    /\ TypeOK /\ RoundInv /\ ConnInv
    /\ MuInv /\ EntryInv /\ GrantInv /\ SuccessIsBacked
    /\ IterInv /\ RowInv

(* The specification starts in the inductive invariant.                    *)
LEMMA InitIInv == Init => IInv
<1> SUFFICES ASSUME Init PROVE IInv
  OBVIOUS
<1> USE RequestAssumption, NoneAssumption, SizeAssumption DEF Init
<1>1. TypeOK
  BY DEF TypeOK, Active, Verifying, Storing, Ended, Rounds
<1>2. RoundInv
  BY DEF RoundInv
<1>3. Holders = {} /\ Keepers = {}
  BY DEF Holders, Keepers
<1>4. ConnInv
  BY <1>3, FS_EmptySet DEF ConnInv
<1>5. MuInv /\ EntryInv /\ GrantInv /\ SuccessIsBacked
  BY DEF MuInv, EntryInv, GrantInv, SuccessIsBacked, Live, Verifying
<1>6. IterInv /\ RowInv
  BY DEF IterInv, RowInv, RowsOf, Wiping, HalfPaid
<1> QED
  BY <1>1, <1>2, <1>4, <1>5, <1>6 DEF IInv

(* The holders of connections are counted by natural numbers.              *)
LEMMA HoldersFinite ==
  ASSUME TypeOK
  PROVE  /\ IsFiniteSet(Holders) /\ IsFiniteSet(Keepers)
         /\ Cardinality(Holders) \in Nat /\ Cardinality(Keepers) \in Nat
<1>1. IsFiniteSet(Holders)
  BY SizeAssumption, FS_Subset DEF Holders
<1>2. IsFiniteSet(1 .. MaxRounds)
  BY SizeAssumption, FS_Interval
<1>3. IsFiniteSet(Rounds \X Users)
  BY <1>2, SizeAssumption, FS_Product DEF Rounds
<1>4. IsFiniteSet(Keepers)
  BY <1>3, FS_Subset DEF Keepers
<1> QED
  BY <1>1, <1>4, FS_CardinalityType

(* While a first payment holds a connection, one is in use.                *)
LEMMA HolderUses ==
  ASSUME TypeOK, ConnInv, NEW r \in Reqs, pc[r] = "writeBot"
  PROVE  inUse > 0
<1>1. r \in Holders
  BY DEF Holders
<1>2. Cardinality(Holders) # 0
  BY <1>1, HoldersFinite, FS_EmptySet
<1> QED
  BY <1>2, HoldersFinite DEF ConnInv

(* Nothing happens to the connections where holders and keepers stay.      *)
LEMMA SameConns ==
  ASSUME ConnInv, inUse' = inUse, Holders' = Holders, Keepers' = Keepers
  PROVE  ConnInv'
  BY DEF ConnInv

(* Goroutines start in the round they are named after.                     *)
LEMMA RoundStep == TypeOK /\ RoundInv /\ [Next]_vars => RoundInv'
<1> SUFFICES ASSUME TypeOK, RoundInv, [Next]_vars PROVE RoundInv'
  OBVIOUS
<1> USE RequestAssumption, SizeAssumption DEF TypeOK, RoundInv, Rounds,
    entryVars, dbVars, loopVars, worldVars
<1>1. ASSUME Mine PROVE RoundInv'
  BY <1>1 DEF Mine
<1>2. ASSUME Month PROVE RoundInv'
  BY <1>2 DEF Month
<1>3. ASSUME Renewal_List PROVE RoundInv'
  BY <1>3 DEF Renewal_List
<1>4. ASSUME Restart PROVE RoundInv'
  BY <1>4 DEF Restart
<1>5. ASSUME NEW r \in Reqs, TryClaim_Lock(r) PROVE RoundInv'
  BY <1>5 DEF TryClaim_Lock, TryClaim_Exists, Goto
<1>6. ASSUME NEW r \in Reqs, TryClaim_Ask(r) PROVE RoundInv'
  BY <1>6 DEF TryClaim_Ask, Goto
<1>7. ASSUME NEW r \in Reqs, TryClaim_Record(r) PROVE RoundInv'
  BY <1>7 DEF TryClaim_Record, Goto
<1>8. ASSUME NEW r \in Reqs, Check_Mined(r) PROVE RoundInv'
  BY <1>8 DEF Check_Mined, Goto
<1>9. ASSUME NEW r \in Reqs, Check_Timeout(r) PROVE RoundInv'
  BY <1>9 DEF Check_Timeout, Goto
<1>10. ASSUME NEW r \in Reqs, Verify_Lock(r) PROVE RoundInv'
  BY <1>10 DEF Verify_Lock, Goto, Verify_Fail
<1>11. ASSUME NEW r \in Reqs, Verify_Price(r) PROVE RoundInv'
  BY <1>11 DEF Verify_Price, Goto, Verify_Fail
<1>12. ASSUME NEW r \in Reqs, Verify_Plan(r) PROVE RoundInv'
  BY <1>12 DEF Verify_Plan, Goto, Verify_Fail
<1>13. ASSUME NEW r \in Reqs, Renew_Read(r) PROVE RoundInv'
  BY <1>13 DEF Renew_Read, Goto, SendStaffAlert
<1>14. ASSUME NEW r \in Reqs, Renew_Add(r) PROVE RoundInv'
  BY <1>14 DEF Renew_Add, Goto, Credit, SendStaffAlert
<1>15. ASSUME NEW r \in Reqs, Initial_WriteUser(r) PROVE RoundInv'
  BY <1>15 DEF Initial_WriteUser, Goto, Credit, SendStaffAlert
<1>16. ASSUME NEW r \in Reqs, Initial_Acquire(r) PROVE RoundInv'
  BY <1>16 DEF Initial_Acquire, Goto
<1>17. ASSUME NEW r \in Reqs, Initial_WriteBot(r) PROVE RoundInv'
  BY <1>17 DEF Initial_WriteBot, Goto, Release, SendStaffAlert
<1>18. ASSUME NEW u \in Users, NEW t \in Txs, CheckPaymentStatus(u, t) PROVE RoundInv'
  BY <1>18 DEF CheckPaymentStatus
<1>19. ASSUME NEW u \in Users, NEW k \in Rounds, Wipe_Acquire(k, u) PROVE RoundInv'
  BY <1>19 DEF Wipe_Acquire
<1>20. ASSUME NEW u \in Users, NEW k \in Rounds, Wipe_Bots(k, u) PROVE RoundInv'
  BY <1>20 DEF Wipe_Bots
<1>21. ASSUME NEW u \in Users, NEW k \in Rounds, Wipe_Users(k, u) PROVE RoundInv'
  BY <1>21 DEF Wipe_Users
<1>22. CASE UNCHANGED vars
  BY <1>22 DEF vars
<1> QED
  BY <1>1, <1>2, <1>3, <1>4, <1>5, <1>6, <1>7, <1>8, <1>9, <1>10, <1>11, <1>12,
      <1>13, <1>14, <1>15, <1>16, <1>17, <1>18, <1>19, <1>20, <1>21,
      <1>22 DEF Next, Claim, Verify, Store, WipeUser

(* Every connection that is out is counted.                                *)
LEMMA ConnStep == TypeOK /\ RoundInv /\ ConnInv /\ [Next]_vars => ConnInv'
<1> SUFFICES ASSUME TypeOK, RoundInv, ConnInv, [Next]_vars PROVE ConnInv'
  OBVIOUS
<1> USE RequestAssumption, SizeAssumption DEF TypeOK, entryVars, dbVars,
    loopVars, worldVars
<1>1. ASSUME Mine PROVE ConnInv'
  <2>1. Holders' = Holders /\ Keepers' = Keepers /\ inUse' = inUse
    BY <1>1 DEF Mine, Holders, Keepers
  <2> QED
    BY <2>1, SameConns
<1>2. ASSUME Month PROVE ConnInv'
  <2>1. Holders' = Holders /\ Keepers' = Keepers /\ inUse' = inUse
    BY <1>2 DEF Month, Holders, Keepers
  <2> QED
    BY <2>1, SameConns
<1>3. ASSUME Renewal_List PROVE ConnInv'
  <2>1. Holders' = Holders /\ Keepers' = Keepers /\ inUse' = inUse
    <3>1. inUse' = inUse /\ pc' = pc
      BY <1>3 DEF Renewal_List
    <3>2. ASSUME NEW k \in Rounds, NEW u \in Users
          PROVE  wipe'[<<k, u>>] \in {"bots", "users", "done"} <=> wipe[<<k, u>>] \in {"bots", "users", "done"}
      <4>1. CASE k = round + 1
        <5>1. wipe[<<k, u>>] = "none"
          BY <4>1 DEF RoundInv, Rounds
        <5>2. wipe'[<<k, u>>] \in {"acquire", "none"}
          BY <1>3, <4>1, <5>1 DEF Renewal_List
        <5> QED
          BY <5>1, <5>2
      <4>2. CASE k # round + 1
        BY <1>3, <4>2 DEF Renewal_List
      <4> QED
        BY <4>1, <4>2
    <3> QED
      BY <3>1, <3>2 DEF Holders, Keepers
  <2> QED
    BY <2>1, SameConns
<1>4. ASSUME Restart PROVE ConnInv'
  <2>1. Holders' = {} /\ Keepers' = {} /\ inUse' = 0
    BY <1>4 DEF Restart, Holders, Keepers, Active, Storing
  <2> QED
    BY <2>1, FS_EmptySet DEF ConnInv
<1>5. ASSUME NEW r \in Reqs, TryClaim_Lock(r) PROVE ConnInv'
  <2>1. Holders' = Holders /\ Keepers' = Keepers /\ inUse' = inUse
    BY <1>5 DEF TryClaim_Lock, TryClaim_Exists, Goto, Holders, Keepers
  <2> QED
    BY <2>1, SameConns
<1>6. ASSUME NEW r \in Reqs, TryClaim_Ask(r) PROVE ConnInv'
  <2>1. Holders' = Holders /\ Keepers' = Keepers /\ inUse' = inUse
    BY <1>6 DEF TryClaim_Ask, Goto, Holders, Keepers
  <2> QED
    BY <2>1, SameConns
<1>7. ASSUME NEW r \in Reqs, TryClaim_Record(r) PROVE ConnInv'
  <2>1. Holders' = Holders /\ Keepers' = Keepers /\ inUse' = inUse
    BY <1>7 DEF TryClaim_Record, Goto, Holders, Keepers
  <2> QED
    BY <2>1, SameConns
<1>8. ASSUME NEW r \in Reqs, Check_Mined(r) PROVE ConnInv'
  <2>1. Holders' = Holders /\ Keepers' = Keepers /\ inUse' = inUse
    BY <1>8 DEF Check_Mined, Goto, Holders, Keepers
  <2> QED
    BY <2>1, SameConns
<1>9. ASSUME NEW r \in Reqs, Check_Timeout(r) PROVE ConnInv'
  <2>1. Holders' = Holders /\ Keepers' = Keepers /\ inUse' = inUse
    BY <1>9 DEF Check_Timeout, Goto, Holders, Keepers
  <2> QED
    BY <2>1, SameConns
<1>10. ASSUME NEW r \in Reqs, Verify_Lock(r) PROVE ConnInv'
  <2>1. Holders' = Holders /\ Keepers' = Keepers /\ inUse' = inUse
    BY <1>10 DEF Verify_Lock, Goto, Verify_Fail, Holders, Keepers
  <2> QED
    BY <2>1, SameConns
<1>11. ASSUME NEW r \in Reqs, Verify_Price(r) PROVE ConnInv'
  <2>1. Holders' = Holders /\ Keepers' = Keepers /\ inUse' = inUse
    BY <1>11 DEF Verify_Price, Goto, Verify_Fail, Holders, Keepers
  <2> QED
    BY <2>1, SameConns
<1>12. ASSUME NEW r \in Reqs, Verify_Plan(r) PROVE ConnInv'
  <2>1. Holders' = Holders /\ Keepers' = Keepers /\ inUse' = inUse
    BY <1>12 DEF Verify_Plan, Goto, Verify_Fail, Holders, Keepers
  <2> QED
    BY <2>1, SameConns
<1>13. ASSUME NEW r \in Reqs, Renew_Read(r) PROVE ConnInv'
  <2>1. Holders' = Holders /\ Keepers' = Keepers /\ inUse' = inUse
    BY <1>13 DEF Renew_Read, Goto, SendStaffAlert, Holders, Keepers
  <2> QED
    BY <2>1, SameConns
<1>14. ASSUME NEW r \in Reqs, Renew_Add(r) PROVE ConnInv'
  <2>1. Holders' = Holders /\ Keepers' = Keepers /\ inUse' = inUse
    BY <1>14 DEF Renew_Add, Goto, Credit, SendStaffAlert, Holders, Keepers
  <2> QED
    BY <2>1, SameConns
<1>15. ASSUME NEW r \in Reqs, Initial_WriteUser(r) PROVE ConnInv'
  <2>1. Holders' = Holders /\ Keepers' = Keepers /\ inUse' = inUse
    BY <1>15 DEF Initial_WriteUser, Goto, Credit, SendStaffAlert, Holders,
        Keepers
  <2> QED
    BY <2>1, SameConns
<1>16. ASSUME NEW r \in Reqs, Initial_Acquire(r) PROVE ConnInv'
  <2>1. /\ Holders' = Holders \cup {r} /\ r \notin Holders
        /\ Keepers' = Keepers /\ inUse' = inUse + 1
    BY <1>16 DEF Initial_Acquire, Goto, Holders, Keepers
  <2>2. IsFiniteSet(Holders) /\ Cardinality(Holders) \in Nat /\ Cardinality(Keepers) \in Nat
    BY HoldersFinite
  <2>3. Cardinality(Holders \cup {r}) = Cardinality(Holders) + 1
    BY <2>1, <2>2, FS_AddElement
  <2> QED
    BY <2>1, <2>2, <2>3 DEF ConnInv
<1>17. ASSUME NEW r \in Reqs, Initial_WriteBot(r) PROVE ConnInv'
  <2>1. CASE Holders' = Holders /\ Keepers' = Keepers /\ inUse' = inUse
    BY <2>1, SameConns
  <2>2. CASE /\ Holders' = Holders \ {r} /\ r \in Holders
             /\ Keepers' = Keepers /\ inUse' = inUse - 1
    <3>1. IsFiniteSet(Holders) /\ Cardinality(Holders) \in Nat /\ Cardinality(Keepers) \in Nat
      BY HoldersFinite
    <3>2. Cardinality(Holders \ {r}) = Cardinality(Holders) - 1
      BY <2>2, <3>1, FS_RemoveElement
    <3> QED
      BY <2>2, <3>1, <3>2 DEF ConnInv
  <2>3. Keepers' = Keepers /\ r \in Holders
    BY <1>17 DEF Initial_WriteBot, Keepers, Holders
  <2>4. \/ pc' = pc /\ inUse' = inUse
        \/ pc'[r] \in {"stored", "alerted"} /\ pc' = [pc EXCEPT ![r] = pc'[r]] /\ inUse' = inUse - 1
    BY <1>17 DEF Initial_WriteBot, Goto, Release, SendStaffAlert
  <2> QED
    BY <2>1, <2>2, <2>3, <2>4 DEF Holders
<1>18. ASSUME NEW u \in Users, NEW t \in Txs, CheckPaymentStatus(u, t) PROVE ConnInv'
  <2>1. Holders' = Holders /\ Keepers' = Keepers /\ inUse' = inUse
    BY <1>18 DEF CheckPaymentStatus, Holders, Keepers
  <2> QED
    BY <2>1, SameConns
<1>19. ASSUME NEW u \in Users, NEW k \in Rounds, Wipe_Acquire(k, u) PROVE ConnInv'
  <2>1. /\ Keepers' = Keepers \cup {<<k, u>>} /\ <<k, u>> \notin Keepers
        /\ Holders' = Holders /\ inUse' = inUse + 1
    BY <1>19 DEF Wipe_Acquire, Holders, Keepers
  <2>2. IsFiniteSet(Keepers) /\ Cardinality(Holders) \in Nat /\ Cardinality(Keepers) \in Nat
    BY HoldersFinite
  <2>3. Cardinality(Keepers \cup {<<k, u>>}) = Cardinality(Keepers) + 1
    BY <2>1, <2>2, FS_AddElement
  <2> QED
    BY <2>1, <2>2, <2>3 DEF ConnInv
<1>20. ASSUME NEW u \in Users, NEW k \in Rounds, Wipe_Bots(k, u) PROVE ConnInv'
  <2>1. Holders' = Holders /\ Keepers' = Keepers /\ inUse' = inUse
    BY <1>20 DEF Wipe_Bots, Holders, Keepers
  <2> QED
    BY <2>1, SameConns
<1>21. ASSUME NEW u \in Users, NEW k \in Rounds, Wipe_Users(k, u) PROVE ConnInv'
  <2>1. Holders' = Holders /\ Keepers' = Keepers /\ inUse' = inUse
    BY <1>21 DEF Wipe_Users, Holders, Keepers
  <2> QED
    BY <2>1, SameConns
<1>22. CASE UNCHANGED vars
  <2>1. Holders' = Holders /\ Keepers' = Keepers /\ inUse' = inUse
    BY <1>22 DEF vars, Holders, Keepers
  <2> QED
    BY <2>1, SameConns
<1> QED
  BY <1>1, <1>2, <1>3, <1>4, <1>5, <1>6, <1>7, <1>8, <1>9, <1>10, <1>11, <1>12,
      <1>13, <1>14, <1>15, <1>16, <1>17, <1>18, <1>19, <1>20, <1>21,
      <1>22 DEF Next, Claim, Verify, Store, WipeUser

(* Every step keeps the types.                                             *)
LEMMA TypeStep == TypeOK /\ ConnInv /\ [Next]_vars => TypeOK'
<1> SUFFICES ASSUME TypeOK, ConnInv, [Next]_vars PROVE TypeOK'
  OBVIOUS
<1> USE RequestAssumption, NoneAssumption, SizeAssumption DEF TypeOK,
    entryVars, dbVars, loopVars, worldVars, Active, Verifying, Storing, Ended,
    HasConn, Rounds
<1>1. ASSUME Mine PROVE TypeOK'
  BY <1>1 DEF Mine
<1>2. ASSUME Month PROVE TypeOK'
  BY <1>2 DEF Month
<1>3. ASSUME Renewal_List PROVE TypeOK'
  BY <1>3 DEF Renewal_List
<1>4. ASSUME Restart PROVE TypeOK'
  BY <1>4 DEF Restart
<1>5. ASSUME NEW r \in Reqs, TryClaim_Lock(r) PROVE TypeOK'
  BY <1>5 DEF TryClaim_Lock, TryClaim_Exists, Goto
<1>6. ASSUME NEW r \in Reqs, TryClaim_Ask(r) PROVE TypeOK'
  BY <1>6 DEF TryClaim_Ask, Goto
<1>7. ASSUME NEW r \in Reqs, TryClaim_Record(r) PROVE TypeOK'
  BY <1>7 DEF TryClaim_Record, Goto
<1>8. ASSUME NEW r \in Reqs, Check_Mined(r) PROVE TypeOK'
  BY <1>8 DEF Check_Mined, Goto
<1>9. ASSUME NEW r \in Reqs, Check_Timeout(r) PROVE TypeOK'
  BY <1>9 DEF Check_Timeout, Goto
<1>10. ASSUME NEW r \in Reqs, Verify_Lock(r) PROVE TypeOK'
  BY <1>10 DEF Verify_Lock, Goto, Verify_Fail
<1>11. ASSUME NEW r \in Reqs, Verify_Price(r) PROVE TypeOK'
  BY <1>11 DEF Verify_Price, Goto, Verify_Fail
<1>12. ASSUME NEW r \in Reqs, Verify_Plan(r) PROVE TypeOK'
  BY <1>12 DEF Verify_Plan, Goto, Verify_Fail
<1>13. ASSUME NEW r \in Reqs, Renew_Read(r) PROVE TypeOK'
  BY <1>13 DEF Renew_Read, Goto, SendStaffAlert
<1>14. ASSUME NEW r \in Reqs, Renew_Add(r) PROVE TypeOK'
  BY SMTT(30), <1>14 DEF Renew_Add, Goto, Credit, SendStaffAlert
<1>15. ASSUME NEW r \in Reqs, Initial_WriteUser(r) PROVE TypeOK'
  <2>1. pc' \in [Reqs -> {"idle"} \cup Active \cup Ended]
    BY <1>15 DEF Initial_WriteUser, Goto, SendStaffAlert
  <2>2. renewalTS' \in [Users -> Nat] /\ credited' \in [Txs -> Nat]
    BY <1>15 DEF Initial_WriteUser, Credit, SendStaffAlert
  <2> QED
    BY <1>15, <2>1, <2>2 DEF Initial_WriteUser, SendStaffAlert
<1>16. ASSUME NEW r \in Reqs, Initial_Acquire(r) PROVE TypeOK'
  BY <1>16 DEF Initial_Acquire, Goto
<1>17. ASSUME NEW r \in Reqs, Initial_WriteBot(r) PROVE TypeOK'
  <2>1. inUse - 1 \in 0 .. MaxConns
    BY <1>17, HolderUses, SizeAssumption DEF Initial_WriteBot
  <2>2. inUse' \in 0 .. MaxConns
    BY <1>17, <2>1 DEF Initial_WriteBot, Release
  <2>3. iter' \in [Reqs -> 1 .. Instances]
    <3>1. iter[r] \in 1 .. Instances /\ (iter[r] < Instances => iter[r] + 1 \in 1 .. Instances)
      OBVIOUS
    <3> QED
      BY <1>17, <3>1 DEF Initial_WriteBot, Release
  <2>4. bots' \in [Users -> SUBSET (1 .. Instances)] /\ renewalTS' = renewalTS /\ credited' = credited
    <3>1. UserOf[r] \in Users /\ iter[r] \in 1 .. Instances
      OBVIOUS
    <3> QED
      BY <1>17, <3>1 DEF Initial_WriteBot, SendStaffAlert
  <2>5. pc' \in [Reqs -> {"idle"} \cup Active \cup Ended]
    BY <1>17 DEF Initial_WriteBot, Goto, SendStaffAlert
  <2> QED
    BY <1>17, <2>2, <2>3, <2>4, <2>5 DEF Initial_WriteBot
<1>18. ASSUME NEW u \in Users, NEW t \in Txs, CheckPaymentStatus(u, t) PROVE TypeOK'
  BY <1>18 DEF CheckPaymentStatus
<1>19. ASSUME NEW u \in Users, NEW k \in Rounds, Wipe_Acquire(k, u) PROVE TypeOK'
  BY <1>19 DEF Wipe_Acquire
<1>20. ASSUME NEW u \in Users, NEW k \in Rounds, Wipe_Bots(k, u) PROVE TypeOK'
  BY <1>20 DEF Wipe_Bots
<1>21. ASSUME NEW u \in Users, NEW k \in Rounds, Wipe_Users(k, u) PROVE TypeOK'
  BY <1>21 DEF Wipe_Users
<1>22. CASE UNCHANGED vars
  BY <1>22 DEF vars
<1> QED
  BY <1>1, <1>2, <1>3, <1>4, <1>5, <1>6, <1>7, <1>8, <1>9, <1>10, <1>11, <1>12,
      <1>13, <1>14, <1>15, <1>16, <1>17, <1>18, <1>19, <1>20, <1>21,
      <1>22 DEF Next, Claim, Verify, Store, WipeUser

(* iter is 1 wherever it is not in use.                                    *)
LEMMA IterStep == TypeOK /\ IterInv /\ [Next]_vars => IterInv'
<1> SUFFICES ASSUME TypeOK, IterInv, [Next]_vars PROVE IterInv'
  OBVIOUS
<1> USE RequestAssumption, SizeAssumption DEF TypeOK, IterInv, entryVars,
    dbVars, loopVars, worldVars
<1>1. ASSUME Mine PROVE IterInv'
  BY <1>1 DEF Mine
<1>2. ASSUME Month PROVE IterInv'
  BY <1>2 DEF Month
<1>3. ASSUME Renewal_List PROVE IterInv'
  BY <1>3 DEF Renewal_List
<1>4. ASSUME Restart PROVE IterInv'
  BY <1>4 DEF Restart
<1>5. ASSUME NEW r \in Reqs, TryClaim_Lock(r) PROVE IterInv'
  BY <1>5 DEF TryClaim_Lock, TryClaim_Exists, Goto
<1>6. ASSUME NEW r \in Reqs, TryClaim_Ask(r) PROVE IterInv'
  BY <1>6 DEF TryClaim_Ask, Goto
<1>7. ASSUME NEW r \in Reqs, TryClaim_Record(r) PROVE IterInv'
  BY <1>7 DEF TryClaim_Record, Goto
<1>8. ASSUME NEW r \in Reqs, Check_Mined(r) PROVE IterInv'
  BY <1>8 DEF Check_Mined, Goto
<1>9. ASSUME NEW r \in Reqs, Check_Timeout(r) PROVE IterInv'
  BY <1>9 DEF Check_Timeout, Goto
<1>10. ASSUME NEW r \in Reqs, Verify_Lock(r) PROVE IterInv'
  BY <1>10 DEF Verify_Lock, Goto, Verify_Fail
<1>11. ASSUME NEW r \in Reqs, Verify_Price(r) PROVE IterInv'
  BY <1>11 DEF Verify_Price, Goto, Verify_Fail
<1>12. ASSUME NEW r \in Reqs, Verify_Plan(r) PROVE IterInv'
  BY <1>12 DEF Verify_Plan, Goto, Verify_Fail
<1>13. ASSUME NEW r \in Reqs, Renew_Read(r) PROVE IterInv'
  BY <1>13 DEF Renew_Read, Goto, SendStaffAlert
<1>14. ASSUME NEW r \in Reqs, Renew_Add(r) PROVE IterInv'
  BY <1>14 DEF Renew_Add, Goto, Credit, SendStaffAlert
<1>15. ASSUME NEW r \in Reqs, Initial_WriteUser(r) PROVE IterInv'
  BY <1>15 DEF Initial_WriteUser, Goto, Credit, SendStaffAlert
<1>16. ASSUME NEW r \in Reqs, Initial_Acquire(r) PROVE IterInv'
  BY <1>16 DEF Initial_Acquire, Goto
<1>17. ASSUME NEW r \in Reqs, Initial_WriteBot(r) PROVE IterInv'
  BY <1>17 DEF Initial_WriteBot, Goto, Release, SendStaffAlert
<1>18. ASSUME NEW u \in Users, NEW t \in Txs, CheckPaymentStatus(u, t) PROVE IterInv'
  BY <1>18 DEF CheckPaymentStatus
<1>19. ASSUME NEW u \in Users, NEW k \in Rounds, Wipe_Acquire(k, u) PROVE IterInv'
  BY <1>19 DEF Wipe_Acquire
<1>20. ASSUME NEW u \in Users, NEW k \in Rounds, Wipe_Bots(k, u) PROVE IterInv'
  BY <1>20 DEF Wipe_Bots
<1>21. ASSUME NEW u \in Users, NEW k \in Rounds, Wipe_Users(k, u) PROVE IterInv'
  BY <1>21 DEF Wipe_Users
<1>22. CASE UNCHANGED vars
  BY <1>22 DEF vars
<1> QED
  BY <1>1, <1>2, <1>3, <1>4, <1>5, <1>6, <1>7, <1>8, <1>9, <1>10, <1>11, <1>12,
      <1>13, <1>14, <1>15, <1>16, <1>17, <1>18, <1>19, <1>20, <1>21,
      <1>22 DEF Next, Claim, Verify, Store, WipeUser

(* A request that is not storing a first payment, and does not begin to,   *)
(* leaves the rows alone.                                                  *)
LEMMA RowsAlone ==
  ASSUME NEW v \in Users, RowsOf(v), NEW r \in Reqs,
         pc[r] \notin {"acquire", "writeBot"}, pc'[r] \notin {"acquire", "writeBot"},
         \A q \in Reqs \ {r} : pc'[q] = pc[q],
         UNCHANGED <<now, iter, renewalTS, bots, wipe>>
  PROVE  RowsOf(v)'
<1>1. \A q \in Reqs : HalfPaid(q, v)' <=> HalfPaid(q, v)
  BY DEF HalfPaid
<1>2. \A k \in Rounds : Wiping(k, v)' <=> Wiping(k, v)
  BY DEF Wiping
<1> QED
  BY <1>1, <1>2 DEF RowsOf

(* First payments, renewals and wipes leave the rows complete: a wipe is   *)
(* not started while a first payment is stored, whose month has not come,  *)
(* and a first payment is not stored while a row is there to be wiped.     *)
LEMMA RowStep == TypeOK /\ IterInv /\ RowInv /\ [Next]_vars => RowInv'
<1> SUFFICES ASSUME TypeOK, IterInv, RowInv, [Next]_vars,
                    NEW v \in Users, v \notin relisted', v \notin cut'
             PROVE  RowsOf(v)'
  BY DEF RowInv
<1>0. RowsOf(v)
  <2>1. v \notin relisted /\ v \notin cut
    BY DEF Next, Claim, Verify, Store, WipeUser, vars, loopVars, worldVars,
           Mine, Month, Renewal_List, Restart, CheckPaymentStatus,
           TryClaim_Lock, TryClaim_Ask, TryClaim_Record, Check_Mined, Check_Timeout,
           Verify_Lock, Verify_Price, Verify_Plan, Renew_Read, Renew_Add,
           Initial_WriteUser, Initial_Acquire, Initial_WriteBot,
           Wipe_Acquire, Wipe_Bots, Wipe_Users
  <2> QED
    BY <2>1 DEF RowInv
<1> USE RequestAssumption, SizeAssumption DEF TypeOK, entryVars, dbVars,
    loopVars, worldVars, RowsOf, Wiping, HalfPaid
<1>1. ASSUME Mine PROVE RowsOf(v)'
  BY <1>0, <1>1 DEF Mine
<1>2. ASSUME Month PROVE RowsOf(v)'
  <2>1. \A r \in Reqs : ~HalfPaid(r, v)
    BY <1>2 DEF Month, HalfStored
  <2> QED
    BY <1>0, <1>2, <2>1 DEF Month
<1>3. ASSUME Renewal_List PROVE RowsOf(v)'
  <2> DEFINE starts(k) == k = round + 1 /\ renewalTS[v] # 0 /\ renewalTS[v] <= now
  <2>1. \A k \in Rounds : wipe'[<<k, v>>] = IF starts(k) THEN "acquire" ELSE wipe[<<k, v>>]
    BY <1>3 DEF Renewal_List, Over, HasRow
  <2>2. (\E k \in Rounds : starts(k)) => \A k \in Rounds : ~Wiping(k, v)
    BY <1>3 DEF Renewal_List, Over, HasRow, BeingWiped
  <2>3. UNCHANGED <<pc, iter, now, renewalTS, bots>>
    BY <1>3 DEF Renewal_List
  <2>4. (\E k \in Rounds : starts(k)) => \A r \in Reqs : ~HalfPaid(r, v)
    BY <1>0
  <2>5. \A k \in Rounds : wipe'[<<k, v>>] = "users" <=> wipe[<<k, v>>] = "users"
    BY <2>1, <2>2
  <2>6. \A k \in Rounds : Wiping(k, v)' <=> starts(k) \/ Wiping(k, v)
    BY <2>1
  <2>7. \A k, l \in Rounds : starts(k) /\ starts(l) => k = l
    OBVIOUS
  <2>8. \A k \in Rounds : starts(k) => renewalTS[v] # 0
    OBVIOUS
  <2>9. \A r \in Reqs : HalfPaid(r, v)' <=> HalfPaid(r, v)
    BY <2>3
  <2> HIDE DEF starts, Wiping, HalfPaid
  <2> QED
    BY <1>0, <2>2, <2>3, <2>4, <2>5, <2>6, <2>7, <2>8, <2>9
<1>4. ASSUME Restart PROVE RowsOf(v)'
  <2>1. /\ \A r \in Reqs : ~HalfPaid(r, v)
        /\ \A k \in Rounds : wipe[<<k, v>>] # "users"
    BY <1>4 DEF Restart, HalfStored, HalfWiped
  <2>2. /\ UNCHANGED <<renewalTS, bots>>
        /\ \A k \in Rounds : wipe'[<<k, v>>] = "none"
        /\ \A r \in Reqs : pc'[r] \notin {"acquire", "writeBot"}
    BY <1>4 DEF Restart, Active, Storing
  <2> QED
    BY <1>0, <2>1, <2>2
<1>5. ASSUME NEW r \in Reqs, TryClaim_Lock(r) PROVE RowsOf(v)'
  <2>1. /\ UNCHANGED <<now, iter, renewalTS, bots, wipe>>
        /\ {pc[r], pc'[r]} \cap {"acquire", "writeBot"} = {}
        /\ \A q \in Reqs \ {r} : pc'[q] = pc[q]
    BY <1>5 DEF TryClaim_Lock, Goto
  <2> HIDE DEF TypeOK, RowsOf
  <2> QED
    BY <1>0, <2>1, RowsAlone
<1>6. ASSUME NEW r \in Reqs, TryClaim_Ask(r) PROVE RowsOf(v)'
  <2>1. /\ UNCHANGED <<now, iter, renewalTS, bots, wipe>>
        /\ {pc[r], pc'[r]} \cap {"acquire", "writeBot"} = {}
        /\ \A q \in Reqs \ {r} : pc'[q] = pc[q]
    BY <1>6 DEF TryClaim_Ask, Goto
  <2> HIDE DEF TypeOK, RowsOf
  <2> QED
    BY <1>0, <2>1, RowsAlone
<1>7. ASSUME NEW r \in Reqs, TryClaim_Record(r) PROVE RowsOf(v)'
  <2>1. /\ UNCHANGED <<now, iter, renewalTS, bots, wipe>>
        /\ {pc[r], pc'[r]} \cap {"acquire", "writeBot"} = {}
        /\ \A q \in Reqs \ {r} : pc'[q] = pc[q]
    BY <1>7 DEF TryClaim_Record, Goto
  <2> HIDE DEF TypeOK, RowsOf
  <2> QED
    BY <1>0, <2>1, RowsAlone
<1>8. ASSUME NEW r \in Reqs, Check_Mined(r) PROVE RowsOf(v)'
  <2>1. /\ UNCHANGED <<now, iter, renewalTS, bots, wipe>>
        /\ {pc[r], pc'[r]} \cap {"acquire", "writeBot"} = {}
        /\ \A q \in Reqs \ {r} : pc'[q] = pc[q]
    BY <1>8 DEF Check_Mined, Goto
  <2> HIDE DEF TypeOK, RowsOf
  <2> QED
    BY <1>0, <2>1, RowsAlone
<1>9. ASSUME NEW r \in Reqs, Check_Timeout(r) PROVE RowsOf(v)'
  <2>1. /\ UNCHANGED <<now, iter, renewalTS, bots, wipe>>
        /\ {pc[r], pc'[r]} \cap {"acquire", "writeBot"} = {}
        /\ \A q \in Reqs \ {r} : pc'[q] = pc[q]
    BY <1>9 DEF Check_Timeout, Goto
  <2> HIDE DEF TypeOK, RowsOf
  <2> QED
    BY <1>0, <2>1, RowsAlone
<1>10. ASSUME NEW r \in Reqs, Verify_Lock(r) PROVE RowsOf(v)'
  <2>1. /\ UNCHANGED <<now, iter, renewalTS, bots, wipe>>
        /\ {pc[r], pc'[r]} \cap {"acquire", "writeBot"} = {}
        /\ \A q \in Reqs \ {r} : pc'[q] = pc[q]
    BY <1>10 DEF Verify_Lock, Verify_Fail, Goto
  <2> HIDE DEF TypeOK, RowsOf
  <2> QED
    BY <1>0, <2>1, RowsAlone
<1>11. ASSUME NEW r \in Reqs, Verify_Price(r) PROVE RowsOf(v)'
  <2>1. /\ UNCHANGED <<now, iter, renewalTS, bots, wipe>>
        /\ {pc[r], pc'[r]} \cap {"acquire", "writeBot"} = {}
        /\ \A q \in Reqs \ {r} : pc'[q] = pc[q]
    BY <1>11 DEF Verify_Price, Verify_Fail, Goto
  <2> HIDE DEF TypeOK, RowsOf
  <2> QED
    BY <1>0, <2>1, RowsAlone
<1>12. ASSUME NEW r \in Reqs, Verify_Plan(r) PROVE RowsOf(v)'
  <2>1. /\ UNCHANGED <<now, iter, renewalTS, bots, wipe>>
        /\ {pc[r], pc'[r]} \cap {"acquire", "writeBot"} = {}
        /\ \A q \in Reqs \ {r} : pc'[q] = pc[q]
    BY <1>12 DEF Verify_Plan, Verify_Fail, Goto
  <2> HIDE DEF TypeOK, RowsOf
  <2> QED
    BY <1>0, <2>1, RowsAlone
<1>13. ASSUME NEW r \in Reqs, Renew_Read(r) PROVE RowsOf(v)'
  <2>1. /\ UNCHANGED <<now, iter, renewalTS, bots, wipe>>
        /\ {pc[r], pc'[r]} \cap {"acquire", "writeBot"} = {}
        /\ \A q \in Reqs \ {r} : pc'[q] = pc[q]
    BY <1>13 DEF Renew_Read, SendStaffAlert, Goto
  <2> HIDE DEF TypeOK, RowsOf
  <2> QED
    BY <1>0, <2>1, RowsAlone
<1>14. ASSUME NEW r \in Reqs, Renew_Add(r) PROVE RowsOf(v)'
  <2>1. /\ UNCHANGED <<now, iter, bots, wipe>> /\ pc[r] = "add"
        /\ \E label \in {"stored", "alerted"} : pc' = [pc EXCEPT ![r] = label]
    BY <1>14 DEF Renew_Add, SendStaffAlert, Goto
  <2>2. \/ renewalTS'[v] = renewalTS[v]
        \/ renewalTS[v] # 0 /\ renewalTS'[v] = renewalTS[v] + 1
    BY <1>14 DEF Renew_Add, SendStaffAlert, HasRow
  <2>3. \A q \in Reqs : HalfPaid(q, v)' <=> HalfPaid(q, v)
    BY <2>1
  <2>4. /\ renewalTS'[v] # 0 <=> renewalTS[v] # 0
        /\ renewalTS[v] > now => renewalTS'[v] > now
    <3>1. renewalTS[v] \in Nat /\ now \in Nat
      OBVIOUS
    <3> QED
      BY <2>2, <3>1
  <2> HIDE DEF HalfPaid
  <2> QED
    BY <1>0, <2>1, <2>3, <2>4
<1>15. ASSUME NEW r \in Reqs, Initial_WriteUser(r) PROVE RowsOf(v)'
  <2>1. CASE HasRow(UserOf[r]) \/ UserOf[r] # v
    <3>1. /\ UNCHANGED <<now, iter, bots, wipe>> /\ renewalTS'[v] = renewalTS[v]
          /\ pc[r] = "store"
          /\ \E label \in {"acquire", "alerted"} :
                pc' = [pc EXCEPT ![r] = label] /\ (label = "acquire" => UserOf[r] # v)
      BY <1>15, <2>1 DEF Initial_WriteUser, SendStaffAlert, Goto, HasRow
    <3>2. \A q \in Reqs : HalfPaid(q, v)' <=> HalfPaid(q, v)
      BY <3>1
    <3> QED
      BY <1>0, <3>1, <3>2
  <2>2. CASE renewalTS[v] = 0 /\ UserOf[r] = v
    <3>1. /\ UNCHANGED <<now, iter, bots, wipe>> /\ renewalTS'[v] = now + 1
          /\ pc' = [pc EXCEPT ![r] = "acquire"] /\ iter[r] = 1
      BY <1>15, <2>2 DEF Initial_WriteUser, Goto, HasRow, IterInv
    <3>2. /\ \A q \in Reqs : ~HalfPaid(q, v) /\ (HalfPaid(q, v)' => q = r)
          /\ \A k \in Rounds : ~Wiping(k, v) /\ ~Wiping(k, v)'
          /\ bots[v] = {}
      <4>1. wipe' = wipe /\ \A k \in Rounds : ~Wiping(k, v)
        BY <1>0, <2>2, <3>1
      <4>2. \A q \in Reqs : ~HalfPaid(q, v)
        <5>1. ASSUME NEW q \in Reqs, HalfPaid(q, v) PROVE FALSE
          <6>1. renewalTS[v] > now
            BY <1>0, <5>1
          <6> QED
            BY <6>1, <2>2
        <5> QED
          BY <5>1
      <4>3. \A q \in Reqs : HalfPaid(q, v)' => q = r
        BY <4>2, <3>1
      <4>4. bots[v] = {}
        BY <1>0, <2>2, <4>1, <4>2
      <4> QED
        BY <4>1, <4>2, <4>3, <4>4
    <3>3. 1 .. (iter[r] - 1) = {}
      BY <3>1
    <3>4. HalfPaid(r, v)' /\ now + 1 > now /\ now + 1 # 0
      BY <2>2, <3>1
    <3>5. UNCHANGED <<bots, iter, now>>
      BY <3>1
    <3>6. \A k \in Rounds : wipe'[<<k, v>>] # "users"
      BY <3>2
    <3> QED
      BY <3>1, <3>2, <3>3, <3>4, <3>5, <3>6
  <2> QED
    BY <2>1, <2>2 DEF HasRow
<1>16. ASSUME NEW r \in Reqs, Initial_Acquire(r) PROVE RowsOf(v)'
  <2>1. /\ UNCHANGED <<now, iter, renewalTS, bots, wipe>> /\ pc[r] = "acquire"
        /\ pc' = [pc EXCEPT ![r] = "writeBot"]
    BY <1>16 DEF Initial_Acquire, Goto
  <2>2. \A q \in Reqs : HalfPaid(q, v)' <=> HalfPaid(q, v)
    BY <2>1
  <2> HIDE DEF HalfPaid
  <2> QED
    BY <1>0, <2>1, <2>2
<1>17. ASSUME NEW r \in Reqs, Initial_WriteBot(r) PROVE RowsOf(v)'
  <2>1. /\ pc[r] = "writeBot" /\ UNCHANGED <<now, renewalTS, wipe>>
        /\ \A q \in Reqs \ {r} : pc'[q] = pc[q] /\ iter'[q] = iter[q]
    BY <1>17 DEF Initial_WriteBot, Goto, Release, SendStaffAlert
  <2>2. CASE UserOf[r] # v
    <3>1. bots'[v] = bots[v]
      BY <1>17, <2>2 DEF Initial_WriteBot, SendStaffAlert
    <3>2. \A q \in Reqs : HalfPaid(q, v) => q # r
      BY <2>2
    <3>3. \A q \in Reqs : HalfPaid(q, v)' <=> HalfPaid(q, v)
      BY <2>1, <2>2
    <3> QED
      BY <1>0, <2>1, <3>1, <3>2, <3>3
  <2>3. CASE UserOf[r] = v
    <3>1. HalfPaid(r, v)
      BY <2>1, <2>3
    <3>2. /\ \A q \in Reqs : HalfPaid(q, v) => q = r
          /\ \A k \in Rounds : ~Wiping(k, v) /\ ~Wiping(k, v)'
          /\ renewalTS[v] > now /\ renewalTS[v] # 0 /\ bots[v] = 1 .. (iter[r] - 1)
      BY <1>0, <2>1, <3>1
    <3>3. iter[r] \in 1 .. Instances /\ iter[r] \notin bots[v]
      BY <3>2
    <3>4. 1 .. (iter[r] - 1) \cup {iter[r]} = 1 .. iter[r]
      BY <3>3
    <3>5. bots'[v] = 1 .. iter[r]
      BY <1>17, <2>3, <3>2, <3>3, <3>4 DEF Initial_WriteBot
    <3>6. CASE iter[r] < Instances
      <4>1. pc' = pc /\ iter'[r] = iter[r] + 1
        BY <1>17, <2>3, <3>3, <3>6 DEF Initial_WriteBot
      <4>2. iter'[r] - 1 = iter[r]
        BY <4>1, <3>3
      <4>3. \A q \in Reqs : HalfPaid(q, v)' <=> q = r
        BY <4>1, <3>1, <3>2
      <4> QED
        BY <2>1, <3>2, <3>5, <4>2, <4>3
    <3>7. CASE iter[r] = Instances
      <4>1. pc'[r] = "stored"
        BY <1>17, <2>3, <3>3, <3>7 DEF Initial_WriteBot, Goto
      <4>2. \A q \in Reqs : ~HalfPaid(q, v)'
        BY <4>1, <2>1, <3>2
      <4> QED
        BY <2>1, <3>2, <3>5, <3>7, <4>2
    <3>8. iter[r] < Instances \/ iter[r] = Instances
      <4>1. \A i \in 1 .. Instances : i < Instances \/ i = Instances
        BY SizeAssumption
      <4> QED
        BY <3>3, <4>1
    <3> QED
      BY <3>6, <3>7, <3>8
  <2> QED
    BY <2>2, <2>3
<1>18. ASSUME NEW u \in Users, NEW t \in Txs, CheckPaymentStatus(u, t) PROVE RowsOf(v)'
  BY <1>0, <1>18 DEF CheckPaymentStatus
<1>19. ASSUME NEW u \in Users, NEW k \in Rounds, Wipe_Acquire(k, u) PROVE RowsOf(v)'
  BY <1>0, <1>19 DEF Wipe_Acquire
<1>20. ASSUME NEW u \in Users, NEW k \in Rounds, Wipe_Bots(k, u) PROVE RowsOf(v)'
  BY <1>0, <1>20 DEF Wipe_Bots
<1>21. ASSUME NEW u \in Users, NEW k \in Rounds, Wipe_Users(k, u) PROVE RowsOf(v)'
  BY <1>0, <1>21 DEF Wipe_Users
<1>22. CASE UNCHANGED vars
  BY <1>0, <1>22 DEF vars
<1> QED
  BY <1>1, <1>2, <1>3, <1>4, <1>5, <1>6, <1>7, <1>8, <1>9, <1>10, <1>11, <1>12,
      <1>13, <1>14, <1>15, <1>16, <1>17, <1>18, <1>19, <1>20, <1>21,
      <1>22 DEF Next, Claim, Verify, Store, WipeUser

(* The inductive invariant, one lemma for each of its parts.               *)
LEMMA StepIInv == IInv /\ [Next]_vars => IInv'
  BY TypeStep, RoundStep, ConnStep, MuStep, EntryStep, GrantStep, SuccessStep,
     IterStep, RowStep DEF IInv

LEMMA SpecIInv == Spec => []IInv
  BY InitIInv, StepIInv, PTL DEF Spec

(* Every reachable state has the declared types; in particular, no more    *)
(* connections are out than there are.                                     *)
THEOREM TypeCorrect == Spec => []TypeOK
<1>1. IInv => TypeOK
  BY DEF IInv
<1> QED
  BY <1>1, SpecIInv, PTL

(* A transaction is written to the users table at most once: whoever claims *)
(* it, after timeouts, told statuses and restarts.                         *)
THEOREM GrantedOnce == Spec => []OneGrant
<1>1. IInv => OneGrant
  BY DEF IInv, TypeOK, GrantInv, OneGrant
<1> QED
  BY <1>1, SpecIInv, PTL

(* The entry of a payment that is being verified stays, and its            *)
(* transaction is verified for nobody else.                                *)
THEOREM ClaimKept == Spec => []ClaimIsKept
<1>1. IInv => ClaimIsKept
  BY DEF IInv, EntryInv, GrantInv, ClaimIsKept, Live
<1> QED
  BY <1>1, SpecIInv, PTL

(* Whatever a user may be told is a success has been written, is about to  *)
(* be written, or has been reported to the staff.                          *)
THEOREM SuccessBacked == Spec => []SuccessIsBacked
<1>1. IInv => SuccessIsBacked
  BY DEF IInv
<1> QED
  BY <1>1, SpecIInv, PTL

(* However first payments, renewals and wipes come together, a user who is  *)
(* not in the middle of one has all bots of the plan or nothing, but for   *)
(* those a restart cut off or two rounds listed at once.                   *)
THEOREM RowsComplete == Spec => []RowsAgree
<1>1. IInv => RowsAgree
  BY DEF IInv, RowInv, RowsOf, RowsAgree, HalfStored, HalfWiped, HalfPaid,
      HasRow
<1> QED
  BY <1>1, SpecIInv, PTL


(* Payments do not wait on each other in a circle (payments.go:58, 206, 271,*)
(* db/access.go:76): who has the mutex waits for a connection at most, and *)
(* connections are out only for first payments and former wipes.           *)
THEOREM NobodyWaitsInCircles == Spec => []SomeoneGoesOn
<1>1. IInv => SomeoneGoesOn
  <2> SUFFICES ASSUME IInv, NEW r \in Reqs, pc[r] \in Active, ~Exhausted
               PROVE  \E s \in Reqs : GoesOn(s)
    BY DEF SomeoneGoesOn
  <2>1. HasConn
    BY HoldersFinite, SizeAssumption DEF IInv, ConnInv, Exhausted, HasConn
  <2>2. CASE pc[r] \notin {"verify", "verifyErr"}
    BY <2>1, <2>2 DEF GoesOn, Active, Verifying, Storing
  <2>3. CASE pc[r] \in {"verify", "verifyErr"} /\ mu = NoReq
    BY <2>3 DEF GoesOn
  <2>4. CASE mu # NoReq
    <3>1. mu \in Reqs /\ pc[mu] \in {"ask", "record", "price", "plan"}
      BY <2>4 DEF IInv, TypeOK, MuInv
    <3>2. GoesOn(mu)
      BY <2>1, <3>1 DEF GoesOn
    <3> QED
      BY <3>1, <3>2
  <2> QED
    BY <2>2, <2>3, <2>4
<1> QED
  BY <1>1, SpecIInv, PTL

=============================================================================
