--------------------------- MODULE UserPlanProofs ---------------------------
(***************************************************************************)
(* Proofs about UserPlan, for any number of requests, plans and instances: *)
(* the numbers of the instances have no gap, whatever statement fails and  *)
(* however requests interleave, unless two of them set instances at once.  *)
(* A request that sets instances works at the end of the numbers (RowsInv),*)
(* which another one may not move.                                         *)
(*   Then, that the balance is carried from plan to plan and no bot is     *)
(* without a user: by what a change of plan remembers of the user it wipes *)
(* (WipedInv, ChangeInv), which stays right, or errs to one side, while    *)
(* bots start and stop (BalanceInv).                                       *)
(***************************************************************************)
EXTENDS UserPlan, TotalsTheorems

TypeInv ==
    /\ plans \in [Plans -> PlanRows \cup {NoRow}]
    /\ pc \in [Reqs -> {"idle", "readUser", "count", "findPlan", "dropOld",
                        "insertPlan", "dropPlan", "done", "failed"}
                       \cup Changing \cup Sizing]
    /\ name \in [Reqs -> Plans \cup {NoRow}]
    /\ new \in [Reqs -> PlanRows \cup {NoRow}]
    /\ num \in [Reqs -> 0 .. MaxId]
    /\ next \in [Reqs -> Int]
    /\ IsFiniteSet(rows)
    /\ overlap \in BOOLEAN

(* The plan that is written to the user was there when it was read.        *)
PlanInv ==
    \A r \in Reqs :
        /\ pc[r] \in {"readUser", "readNew"} \cup Changing => name[r] \in Plans
        /\ pc[r] = "writeUser" => new[r] \in PlanRows

(* A request at work on the instances is alone, and at their end.          *)
AtEnd(r, n) ==
    /\ pc[r] = "insert" => next[r] = n + 1 /\ next[r] <= num[r]
    /\ pc[r] = "delete" => next[r] = n /\ next[r] > num[r]

RowsInv ==
    overlap \/ /\ \A r, s \in Reqs : pc[r] \in Sizing /\ pc[s] \in Sizing => r = s
               /\ \E n \in 0 .. MaxId : rows = 1 .. n /\ \A r \in Reqs : AtEnd(r, n)

IInv == TypeInv /\ PlanInv /\ RowsInv

-----------------------------------------------------------------------------
LEMMA IntervalSize ==
    ASSUME NEW n \in Nat
    PROVE  Cardinality(1 .. n) = n
<1>1. 1 \in Int /\ n \in Int
  OBVIOUS
<1>2. Cardinality(1 .. n) = IF 1 > n THEN 0 ELSE n - 1 + 1
  BY <1>1, FS_Interval
<1> QED
  BY <1>2

LEMMA InitIInv == Init => IInv
<1> SUFFICES ASSUME Init PROVE IInv
  OBVIOUS
<1> USE SizeAssumption, PlanAssumption DEF Init
<1>1. TypeInv
  <2>1. IsFiniteSet(rows)
    <3>1. \A n \in Nat : IsFiniteSet(1 .. n)
      BY FS_Interval
    <3>2. \A p \in Plans : plans[p].ct \in Nat
      OBVIOUS
    <3> QED
      BY <3>1, <3>2, FS_EmptySet
  <2>2. 0 \in 0 .. MaxId
    OBVIOUS
  <2>3. plans \in [Plans -> PlanRows \cup {NoRow}]
    BY Zenon
  <2>4. /\ num \in [Reqs -> 0 .. MaxId] /\ next \in [Reqs -> Int]
        /\ name \in [Reqs -> Plans \cup {NoRow}] /\ new \in [Reqs -> PlanRows \cup {NoRow}]
    BY <2>2
  <2> QED
    BY <2>1, <2>3, <2>4 DEF TypeInv
<1>2. PlanInv
  BY DEF PlanInv, Changing
<1>3. RowsInv
  <2>1. \E n \in 0 .. MaxId : rows = 1 .. n
    <3>1. CASE rows = {}
      <4>1. 0 \in 0 .. MaxId /\ rows = 1 .. 0
        BY <3>1
      <4> QED
        BY <4>1
    <3>2. ASSUME NEW p \in Plans, rows = 1 .. plans[p].ct
          PROVE  \E n \in 0 .. MaxId : rows = 1 .. n
      <4>1. plans[p].ct \in 0 .. MaxId
        OBVIOUS
      <4> QED
        BY <3>2, <4>1
    <3> QED
      BY <3>1, <3>2
  <2> QED
    BY <2>1 DEF RowsInv, AtEnd, Sizing
<1> QED
  BY <1>1, <1>2, <1>3 DEF IInv

(* A step that sends no request to work on the instances keeps RowsInv.    *)
LEMMA RowsKept ==
    ASSUME RowsInv, UNCHANGED <<rows, overlap, next>>,
           \A s \in Reqs : pc'[s] \in Sizing => pc'[s] = pc[s] /\ num'[s] = num[s]
    PROVE  RowsInv'
<1> SUFFICES ASSUME ~overlap PROVE RowsInv'
  BY DEF RowsInv
<1>1. \A s, q \in Reqs : pc'[s] \in Sizing /\ pc'[q] \in Sizing => s = q
  BY DEF RowsInv
<1>2. PICK n \in 0 .. MaxId : rows = 1 .. n /\ \A s \in Reqs : AtEnd(s, n)
  BY DEF RowsInv
<1>3. \A s \in Reqs : AtEnd(s, n)'
  BY <1>2 DEF AtEnd, Sizing
<1> QED
  BY <1>1, <1>2, <1>3 DEF RowsInv

LEMMA ReceiveStep ==
    ASSUME IInv, NEW r \in Reqs, Receive(r)
    PROVE  IInv'
<1> USE SizeAssumption, PlanAssumption DEF IInv, Receive,
        Goto, planVars, countVars, botVars, Changing, Sizing
<1>1. TypeInv'
  BY DEF TypeInv, PlanInv
<1>2. PlanInv'
  BY RowAssumption DEF TypeInv, PlanInv
<1>3. RowsInv'
  <2>1. \A s \in Reqs : pc'[s] \in Sizing => pc'[s] = pc[s] /\ num'[s] = num[s]
    BY DEF TypeInv
  <2>2. UNCHANGED <<rows, overlap, next>>
    OBVIOUS
  <2> QED
    BY <2>1, <2>2, RowsKept
<1> QED
  BY <1>1, <1>2, <1>3

LEMMA ReadUserStep ==
    ASSUME IInv, NEW r \in Reqs, ReadUser(r)
    PROVE  IInv'
<1> USE SizeAssumption, PlanAssumption DEF IInv, ReadUser,
        Goto, planVars, countVars, botVars, Changing, Sizing
<1>1. TypeInv'
  BY DEF TypeInv, PlanInv
<1>2. PlanInv'
  BY RowAssumption DEF TypeInv, PlanInv
<1>3. RowsInv'
  <2>1. \A s \in Reqs : pc'[s] \in Sizing => pc'[s] = pc[s] /\ num'[s] = num[s]
    BY DEF TypeInv
  <2>2. UNCHANGED <<rows, overlap, next>>
    OBVIOUS
  <2> QED
    BY <2>1, <2>2, RowsKept
<1> QED
  BY <1>1, <1>2, <1>3

LEMMA ReadOldStep ==
    ASSUME IInv, NEW r \in Reqs, ReadOld(r)
    PROVE  IInv'
<1> USE SizeAssumption, PlanAssumption DEF IInv, ReadOld,
        Goto, planVars, countVars, botVars, Changing, Sizing
<1>1. TypeInv'
  BY DEF TypeInv, PlanInv
<1>2. PlanInv'
  BY RowAssumption DEF TypeInv, PlanInv
<1>3. RowsInv'
  <2>1. \A s \in Reqs : pc'[s] \in Sizing => pc'[s] = pc[s] /\ num'[s] = num[s]
    BY DEF TypeInv
  <2>2. UNCHANGED <<rows, overlap, next>>
    OBVIOUS
  <2> QED
    BY <2>1, <2>2, RowsKept
<1> QED
  BY <1>1, <1>2, <1>3

LEMMA WipeUserStep ==
    ASSUME IInv, NEW r \in Reqs, WipeUser(r)
    PROVE  IInv'
<1> USE SizeAssumption, PlanAssumption DEF IInv, WipeUser,
        Goto, planVars, countVars, botVars, Changing, Sizing
<1>1. TypeInv'
  BY DEF TypeInv, PlanInv
<1>2. PlanInv'
  BY RowAssumption DEF TypeInv, PlanInv
<1>3. RowsInv'
  <2>1. \A s \in Reqs : pc'[s] \in Sizing => pc'[s] = pc[s] /\ num'[s] = num[s]
    BY DEF TypeInv
  <2>2. UNCHANGED <<rows, overlap, next>>
    OBVIOUS
  <2> QED
    BY <2>1, <2>2, RowsKept
<1> QED
  BY <1>1, <1>2, <1>3

LEMMA ReadNewStep ==
    ASSUME IInv, NEW r \in Reqs, ReadNew(r)
    PROVE  IInv'
<1> USE SizeAssumption, PlanAssumption DEF IInv, ReadNew,
        Goto, planVars, countVars, botVars, Changing, Sizing
<1>1. TypeInv'
  BY DEF TypeInv, PlanInv
<1>2. PlanInv'
  BY RowAssumption DEF TypeInv, PlanInv
<1>3. RowsInv'
  <2>1. \A s \in Reqs : pc'[s] \in Sizing => pc'[s] = pc[s] /\ num'[s] = num[s]
    BY DEF TypeInv
  <2>2. UNCHANGED <<rows, overlap, next>>
    OBVIOUS
  <2> QED
    BY <2>1, <2>2, RowsKept
<1> QED
  BY <1>1, <1>2, <1>3

LEMMA WriteUserStep ==
    ASSUME IInv, NEW r \in Reqs, WriteUser(r)
    PROVE  IInv'
<1> USE SizeAssumption, PlanAssumption DEF IInv, WriteUser,
        Goto, planVars, countVars, botVars, Changing, Sizing
<1>1. TypeInv'
  BY DEF TypeInv, PlanInv
<1>2. PlanInv'
  BY RowAssumption DEF TypeInv, PlanInv
<1>3. RowsInv'
  <2>1. \A s \in Reqs : pc'[s] \in Sizing => pc'[s] = pc[s] /\ num'[s] = num[s]
    BY DEF TypeInv
  <2>2. UNCHANGED <<rows, overlap, next>>
    OBVIOUS
  <2> QED
    BY <2>1, <2>2, RowsKept
<1> QED
  BY <1>1, <1>2, <1>3

LEMMA CountStep ==
    ASSUME IInv, NEW r \in Reqs, Count(r)
    PROVE  IInv'
<1> USE SizeAssumption, PlanAssumption DEF IInv, Count,
        Goto, planVars, countVars, botVars, Changing, Sizing
<1>1. TypeInv'
  <2>1. Cardinality(rows) \in Nat
    BY FS_CardinalityType DEF TypeInv
  <2> QED
    BY <2>1 DEF TypeInv
<1>2. PlanInv'
  BY RowAssumption DEF TypeInv, PlanInv
<1>3. RowsInv'
  <2> SUFFICES ASSUME ~overlap'
               PROVE  RowsInv'
    BY DEF RowsInv, TypeInv
  <2>1. ~overlap
    BY DEF TypeInv
  <2>2. PICK n \in 0 .. MaxId : rows = 1 .. n /\ \A s \in Reqs : AtEnd(s, n)
    BY <2>1 DEF RowsInv
  <2>3. Cardinality(rows) = n
    BY <2>2, IntervalSize
  <2>4. \A s \in Reqs \ {r} : pc[s] \notin Sizing
    BY DEF Others
  <2>5. \A s, q \in Reqs : pc'[s] \in Sizing /\ pc'[q] \in Sizing => s = q
    BY <2>4 DEF TypeInv
  <2>6. \A s \in Reqs : AtEnd(s, n)'
    BY <2>2, <2>3, <2>4 DEF TypeInv, AtEnd
  <2> QED
    BY <2>2, <2>5, <2>6 DEF RowsInv
<1> QED
  BY <1>1, <1>2, <1>3

LEMMA InsertInstanceStep ==
    ASSUME IInv, NEW r \in Reqs, InsertInstance(r)
    PROVE  IInv'
<1> USE SizeAssumption, PlanAssumption DEF IInv, InsertInstance,
        Goto, planVars, countVars, botVars, Changing, Sizing
<1>1. TypeInv'
  <2>1. IsFiniteSet(rows')
    BY FS_AddElement DEF TypeInv
  <2> QED
    BY <2>1 DEF TypeInv
<1>2. PlanInv'
  BY RowAssumption DEF TypeInv, PlanInv
<1>3. RowsInv'
  <2> SUFFICES ASSUME ~overlap'
               PROVE  RowsInv'
    BY DEF RowsInv, TypeInv
  <2>1. ~overlap
    BY DEF TypeInv
  <2>2. PICK n \in 0 .. MaxId : rows = 1 .. n /\ \A s \in Reqs : AtEnd(s, n)
    BY <2>1 DEF RowsInv
  <2>3. \A s \in Reqs \ {r} : pc[s] \notin Sizing
    BY <2>1 DEF RowsInv
  <2>4. \A s, q \in Reqs : pc'[s] \in Sizing /\ pc'[q] \in Sizing => s = q
    BY <2>3 DEF TypeInv
  <2>5. n \in Nat /\ num[r] \in 0 .. MaxId /\ AtEnd(r, n)
    BY <2>2 DEF TypeInv
  <2>6. /\ next[r] = n + 1 /\ next[r] <= num[r] /\ next[r] \notin rows
        /\ rows' = rows \cup {n + 1} /\ next' = [next EXCEPT ![r] = n + 2]
        /\ pc' = IF n + 1 = num[r] THEN [pc EXCEPT ![r] = "done"] ELSE pc
    BY <2>2, <2>5 DEF TypeInv, AtEnd
  <2>7. n + 1 \in 0 .. MaxId /\ rows' = 1 .. n + 1
    BY <2>2, <2>5, <2>6 DEF AtEnd
  <2>8. \A s \in Reqs : AtEnd(s, n + 1)'
    BY <2>3, <2>5, <2>2, <2>6 DEF TypeInv, AtEnd
  <2> QED
    BY <2>4, <2>7, <2>8 DEF RowsInv
<1> QED
  BY <1>1, <1>2, <1>3

LEMMA DeleteInstanceStep ==
    ASSUME IInv, NEW r \in Reqs, DeleteInstance(r)
    PROVE  IInv'
<1> USE SizeAssumption, PlanAssumption DEF IInv, DeleteInstance,
        Goto, planVars, countVars, botVars, Changing, Sizing
<1>1. TypeInv'
  <2>1. IsFiniteSet(rows')
    BY FS_RemoveElement DEF TypeInv
  <2> QED
    BY <2>1 DEF TypeInv
<1>2. PlanInv'
  BY RowAssumption DEF TypeInv, PlanInv
<1>3. RowsInv'
  <2> SUFFICES ASSUME ~overlap'
               PROVE  RowsInv'
    BY DEF RowsInv, TypeInv
  <2>1. ~overlap
    BY DEF TypeInv
  <2>2. PICK n \in 0 .. MaxId : rows = 1 .. n /\ \A s \in Reqs : AtEnd(s, n)
    BY <2>1 DEF RowsInv
  <2>3. \A s \in Reqs \ {r} : pc[s] \notin Sizing
    BY <2>1 DEF RowsInv
  <2>4. \A s, q \in Reqs : pc'[s] \in Sizing /\ pc'[q] \in Sizing => s = q
    BY <2>3 DEF TypeInv
  <2>5. n \in Nat /\ num[r] \in 0 .. MaxId /\ AtEnd(r, n)
    BY <2>2 DEF TypeInv
  <2>6. n - 1 \in 0 .. MaxId /\ rows' = 1 .. n - 1
    BY <2>2, <2>5 DEF AtEnd
  <2>7. \A s \in Reqs : AtEnd(s, n - 1)'
    BY <2>3, <2>5, <2>2 DEF TypeInv, AtEnd
  <2> QED
    BY <2>4, <2>6, <2>7 DEF RowsInv
<1> QED
  BY <1>1, <1>2, <1>3

LEMMA FindPlanStep ==
    ASSUME IInv, NEW r \in Reqs, FindPlan(r)
    PROVE  IInv'
<1> USE SizeAssumption, PlanAssumption DEF IInv, FindPlan,
        Goto, planVars, countVars, botVars, Changing, Sizing
<1>1. TypeInv'
  BY DEF TypeInv, PlanInv
<1>2. PlanInv'
  BY RowAssumption DEF TypeInv, PlanInv
<1>3. RowsInv'
  <2>1. \A s \in Reqs : pc'[s] \in Sizing => pc'[s] = pc[s] /\ num'[s] = num[s]
    BY DEF TypeInv
  <2>2. UNCHANGED <<rows, overlap, next>>
    OBVIOUS
  <2> QED
    BY <2>1, <2>2, RowsKept
<1> QED
  BY <1>1, <1>2, <1>3

LEMMA InsertPlanStep ==
    ASSUME IInv, NEW r \in Reqs, InsertPlan(r)
    PROVE  IInv'
<1> USE SizeAssumption, PlanAssumption DEF IInv, InsertPlan,
        Goto, planVars, countVars, botVars, Changing, Sizing
<1>1. TypeInv'
  BY DEF TypeInv, PlanInv
<1>2. PlanInv'
  BY RowAssumption DEF TypeInv, PlanInv
<1>3. RowsInv'
  <2>1. \A s \in Reqs : pc'[s] \in Sizing => pc'[s] = pc[s] /\ num'[s] = num[s]
    BY DEF TypeInv
  <2>2. UNCHANGED <<rows, overlap, next>>
    OBVIOUS
  <2> QED
    BY <2>1, <2>2, RowsKept
<1> QED
  BY <1>1, <1>2, <1>3

LEMMA DropPlanStep ==
    ASSUME IInv, NEW r \in Reqs, DropPlan(r)
    PROVE  IInv'
<1> USE SizeAssumption, PlanAssumption DEF IInv, DropPlan,
        Goto, planVars, countVars, botVars, Changing, Sizing
<1>1. TypeInv'
  BY DEF TypeInv, PlanInv
<1>2. PlanInv'
  BY RowAssumption DEF TypeInv, PlanInv
<1>3. RowsInv'
  <2>1. \A s \in Reqs : pc'[s] \in Sizing => pc'[s] = pc[s] /\ num'[s] = num[s]
    BY DEF TypeInv
  <2>2. UNCHANGED <<rows, overlap, next>>
    OBVIOUS
  <2> QED
    BY <2>1, <2>2, RowsKept
<1> QED
  BY <1>1, <1>2, <1>3

LEMMA StatementFailsStep ==
    ASSUME IInv, NEW r \in Reqs, StatementFails(r)
    PROVE  IInv'
<1> USE SizeAssumption, PlanAssumption DEF IInv, StatementFails,
        Goto, planVars, countVars, botVars, Changing, Sizing
<1>1. TypeInv'
  BY DEF TypeInv, PlanInv
<1>2. PlanInv'
  BY RowAssumption DEF TypeInv, PlanInv
<1>3. RowsInv'
  <2>1. \A s \in Reqs : pc'[s] \in Sizing => pc'[s] = pc[s] /\ num'[s] = num[s]
    BY DEF TypeInv
  <2>2. UNCHANGED <<rows, overlap, next>>
    OBVIOUS
  <2> QED
    BY <2>1, <2>2, RowsKept
<1> QED
  BY <1>1, <1>2, <1>3

(* What bots and corrections do to the balance touches none of this.       *)
LEMMA BalanceStep ==
    ASSUME IInv, UNCHANGED <<plans, rows, pc, planVars, countVars, overlap>>
    PROVE  IInv'
  BY DEF IInv, planVars, countVars, TypeInv, PlanInv, RowsInv, AtEnd

LEMMA StepIInv == IInv /\ [Next]_vars => IInv'
<1> SUFFICES ASSUME IInv, [Next]_vars PROVE IInv'
  OBVIOUS
<1>1. ASSUME NEW r \in Reqs,
             \/ Receive(r) \/ ReadUser(r) \/ ReadOld(r) \/ WipeUser(r) \/ ReadNew(r)
             \/ WriteUser(r) \/ Count(r) \/ InsertInstance(r) \/ DeleteInstance(r)
             \/ FindPlan(r) \/ InsertPlan(r) \/ DropPlan(r) \/ StatementFails(r)
      PROVE  IInv'
  BY <1>1, ReceiveStep, ReadUserStep, ReadOldStep, WipeUserStep, ReadNewStep,
     WriteUserStep, CountStep, InsertInstanceStep, DeleteInstanceStep, FindPlanStep,
     InsertPlanStep, DropPlanStep, StatementFailsStep
<1>2. ASSUME NEW b \in Ids, StopBot(b) \/ \E n \in Amounts : StartBot(b, n)
      PROVE  IInv'
  BY <1>2, BalanceStep DEF StopBot, StartBot
<1>3. CASE FixCopyTradingBalance
  BY <1>3, BalanceStep DEF FixCopyTradingBalance
<1>4. CASE UNCHANGED vars
  BY <1>4, BalanceStep DEF vars
<1> QED
  BY <1>1, <1>2, <1>3, <1>4 DEF Next

LEMMA Inductive == Spec => []IInv
  BY InitIInv, StepIInv, PTL DEF Spec

-----------------------------------------------------------------------------
(* The bot_ids are 1 to their number (handlersAdmin.go:196-264), whatever  *)
(* fails, unless two requests set them at once.                            *)
THEOREM NoGaps == Spec => []Contiguous
<1>1. IInv => Contiguous
  BY SizeAssumption, IntervalSize DEF IInv, RowsInv, Contiguous
<1> QED
  BY <1>1, Inductive, PTL

-----------------------------------------------------------------------------
Held == InUse + orphans

(* What the invariant above leaves out of TypeOK; what has no row holds no *)
(* balance, and a request that sets instances stays within their number.   *)
RestInv ==
    /\ user \in UserRows \cup {NoRow}
    /\ rows \subseteq Ids
    /\ running \in [Ids -> Nat] /\ orphans \in Nat
    /\ \A b \in Ids \ rows : running[b] = 0
    /\ seen \in [Reqs -> UserRows \cup {NoRow}]
    /\ oldMax \in [Reqs -> Nat]
    /\ \A r \in Reqs :
          /\ next[r] \in 0 .. MaxId + 1
          /\ pc[r] = "insert" => 0 < next[r] /\ next[r] <= num[r]
          /\ pc[r] = "delete" => num[r] < next[r] /\ next[r] <= MaxId
    /\ wiped \subseteq Reqs
    /\ drift \subseteq Causes

(* Who has wiped the user is about to write it again, or has failed.       *)
WipedInv ==
    /\ \A r \in wiped : pc[r] \in {"readNew", "writeUser", "failed"} /\ seen[r] # NoRow
    /\ user = NoRow /\ Held > 0 => wiped # {}

(* What a change of plan knows, and that it is alone.                      *)
ChangeInv ==
    /\ \A r \in Reqs :
          /\ pc[r] \in {"idle", "readUser"} => oldMax[r] = 0
          /\ pc[r] \in {"readOld", "wipe"} => seen[r] # NoRow
          /\ pc[r] \in {"readNew", "writeUser"} => IF seen[r] = NoRow THEN oldMax[r] = 0
                                                                     ELSE r \in wiped
    /\ "twice" \notin drift =>
          \A r \in Reqs :
             /\ pc[r] \in Changing => \A s \in Reqs : pc[s] \in Changing => r = s
             /\ pc[r] \in {"readNew", "writeUser"} => user = NoRow

(* A sum that is to be m: at most m unless a start, at least m unless a    *)
(* stop came between.                                                      *)
Within(x, m) ==
    /\ drift \subseteq {"stop"} => x <= m
    /\ drift \subseteq {"start"} => x >= m

BalanceInv ==
    ~UserLost =>
        /\ user # NoRow /\ plans[user.plan] # NoRow
           => Within(user.bal + Held, plans[user.plan].max)
        /\ \A r \in Reqs :
              /\ pc[r] = "readOld" /\ plans[seen[r].plan] # NoRow
                 => Within(seen[r].bal + Held, plans[seen[r].plan].max)
              /\ pc[r] \in {"wipe", "readNew", "writeUser"} /\ seen[r] # NoRow
                 => Within(seen[r].bal + Held, oldMax[r])

(* The plan that is written is the one that was read.                      *)
NewInv ==
    \A r \in Reqs :
        pc[r] = "writeUser" /\ plans[name[r]] # NoRow /\ "edit" \notin drift
        => plans[name[r]].max = new[r].max

BInv == IInv /\ RestInv /\ WipedInv /\ ChangeInv /\ BalanceInv /\ NewInv

-----------------------------------------------------------------------------
LEMMA HeldType ==
    ASSUME RestInv
    PROVE  /\ InUse \in Nat /\ Held \in Nat
           /\ \A b \in rows : b \in Ids /\ running[b] \in Nat
           /\ IsFiniteSet(rows)
<1>1. IsFiniteSet(Ids)
  BY SizeAssumption, UpTo DEF Ids
<1>2. IsFiniteSet(rows)
  BY <1>1, FS_Subset DEF RestInv
<1>3. \A b \in rows : b \in Ids /\ running[b] \in Nat
  BY DEF RestInv
<1>4. Total(running, rows) \in Nat
  BY <1>2, <1>3, TotalType
<1> QED
  BY <1>2, <1>3, <1>4 DEF RestInv, Held, InUse

(* One bot takes or gives back balance.                                    *)
LEMMA HeldChange ==
    ASSUME RestInv, NEW b \in rows, NEW n \in Nat,
           running' = [running EXCEPT ![b] = n], UNCHANGED <<rows, orphans>>
    PROVE  /\ Held' \in Nat
           /\ Held' = Held - running[b] + n
<1>1. /\ \A c \in rows : c \in Ids /\ running[c] \in Nat
      /\ IsFiniteSet(rows) /\ InUse \in Nat
  BY HeldType
<1>2. /\ running'[b] = n
      /\ \A c \in rows : running'[c] \in Nat
      /\ \A c \in rows \ {b} : running'[c] = running[c]
  BY <1>1 DEF RestInv
<1> DEFINE g == running'
<1>3. /\ Total(g, rows) = Total(running, rows) - running[b] + g[b]
      /\ Total(g, rows) \in Nat
  <2>1. g[b] = n /\ (\A c \in rows : g[c] \in Nat) /\ \A c \in rows \ {b} : g[c] = running[c]
    BY <1>2
  <2> HIDE DEF g
  <2>2. Total(g, rows) \in Nat
    BY <1>1, <2>1, TotalType
  <2> QED
    BY <1>1, <2>1, <2>2, TotalChange
<1>4. InUse' = InUse - running[b] + n /\ InUse' \in Nat
  <2>1. InUse' = Total(g, rows) /\ g[b] = n /\ InUse = Total(running, rows)
    BY <1>2 DEF InUse
  <2> HIDE DEF g
  <2> QED
    BY <1>3, <2>1
<1> QED
  BY <1>1, <1>4 DEF RestInv, Held

(* A new instance holds nothing; what a deleted one held is with no row.   *)
LEMMA HeldInsert ==
    ASSUME RestInv, NEW b \in Ids, b \notin rows, rows' = rows \cup {b},
           UNCHANGED <<running, orphans>>
    PROVE  Held' = Held
<1>1. /\ \A c \in rows : running[c] \in Nat
      /\ IsFiniteSet(rows) /\ InUse \in Nat
  BY HeldType
<1>2. running[b] = 0
  BY DEF RestInv
<1>3. Total(running, rows \cup {b}) = Total(running, rows) + running[b]
  BY <1>1, <1>2, TotalAdd
<1> QED
  BY <1>1, <1>2, <1>3 DEF Held, InUse

LEMMA HeldDelete ==
    ASSUME RestInv, NEW b \in Ids, rows' = rows \ {b},
           orphans' = orphans + running[b], running' = [running EXCEPT ![b] = 0]
    PROVE  Held' = Held
<1>1. /\ \A c \in rows : c \in Ids /\ running[c] \in Nat
      /\ IsFiniteSet(rows) /\ InUse \in Nat
  BY HeldType
<1>2. \A c \in rows \ {b} : running'[c] = running[c]
  BY <1>1 DEF RestInv
<1>3. Total(running', rows \ {b}) = Total(running, rows \ {b})
  BY <1>2, TotalSame
<1>4. CASE b \in rows
  <2>1. /\ Total(running, rows) = Total(running, rows \ {b}) + running[b]
        /\ Total(running, rows \ {b}) \in Nat
    BY <1>1, <1>4, TotalRemove
  <2> QED
    BY <1>1, <1>3, <1>4, <2>1 DEF Held, InUse, RestInv
<1>5. CASE b \notin rows
  <2>1. rows \ {b} = rows /\ running[b] = 0
    BY <1>5 DEF RestInv
  <2>2. InUse' = InUse
    BY <1>3, <2>1 DEF InUse
  <2>3. orphans' = orphans
    BY <2>1 DEF RestInv
  <2> QED
    BY <2>2, <2>3 DEF Held
<1> QED
  BY <1>4, <1>5

LEMMA HeldSame ==
    ASSUME UNCHANGED <<rows, running, orphans>>
    PROVE  Held' = Held
BY DEF Held, InUse

-----------------------------------------------------------------------------
LEMMA InitBInv == Init => BInv
<1> SUFFICES ASSUME Init PROVE BInv
  OBVIOUS
<1>1. IInv
  BY InitIInv
<1>2. RestInv
  <2>1. user \in UserRows \cup {NoRow}
    BY PlanAssumption DEF Init, UserRows
  <2>2. rows \subseteq Ids
    BY SizeAssumption, PlanAssumption DEF Init, Ids
  <2>3. running \in [Ids -> Nat] /\ orphans \in Nat /\ \A b \in Ids \ rows : running[b] = 0
    BY DEF Init
  <2> QED
    BY SizeAssumption, <2>1, <2>2, <2>3 DEF Init, RestInv
<1>3. Held = 0
  <2>1. IsFiniteSet(rows) /\ \A b \in rows : b \in Ids /\ running[b] \in Nat
    BY <1>2, HeldType
  <2>2. \A b \in rows : running[b] = 0
    BY <2>1 DEF Init
  <2>3. Total(running, rows) = 0
    BY <2>1, <2>2, TotalZero
  <2> QED
    BY <2>3 DEF Held, InUse, Init
<1>4. WipedInv
  BY <1>3 DEF Init, WipedInv
<1>5. ChangeInv
  BY DEF Init, ChangeInv, Changing
<1>6. BalanceInv
  <2>1. ASSUME NEW p \in Plans, user = [plan |-> p, bal |-> plans[p].max]
        PROVE  Within(user.bal + Held, plans[user.plan].max)
    BY <1>3, <2>1, PlanAssumption DEF Init, Within
  <2> QED
    BY <2>1 DEF Init, BalanceInv
<1>7. NewInv
  BY DEF Init, NewInv
<1> QED
  BY <1>1, <1>2, <1>4, <1>5, <1>6, <1>7 DEF BInv

(* Bounds and types: the requests' steps, then the bots'.                  *)
LEMMA RestStep ==
    ASSUME IInv, RestInv, ChangeInv, [Next]_vars
    PROVE  RestInv'
<1> USE SizeAssumption DEF vars, botVars, planVars, countVars, Goto
<1>1. ASSUME NEW r \in Reqs, Receive(r) \/ ReadNew(r) \/ FindPlan(r) \/ DropPlan(r)
                             \/ StatementFails(r)
      PROVE  RestInv'
  <2>1. /\ pc \in [Reqs -> {"idle", "readUser", "count", "findPlan", "dropOld",
                            "insertPlan", "dropPlan", "done", "failed"}
                           \cup Changing \cup Sizing]
        /\ num \in [Reqs -> 0 .. MaxId]
    BY DEF IInv, TypeInv
  <2>2. /\ UNCHANGED <<user, rows, running, orphans, seen, oldMax, next, wiped, drift>>
        /\ \A s \in Reqs : pc'[s] \in Sizing => pc'[s] = pc[s] /\ num'[s] = num[s]
    BY <1>1, <2>1 DEF Receive, ReadNew, FindPlan, DropPlan, StatementFails, Sizing
  <2> QED
    BY <2>2 DEF RestInv, Sizing
<1>2. ASSUME NEW r \in Reqs, ReadUser(r)
      PROVE  RestInv'
  BY <1>2 DEF ReadUser, RestInv, IInv, TypeInv, Causes
<1>3. ASSUME NEW r \in Reqs, ReadOld(r)
      PROVE  RestInv'
  <2>1. CASE plans[seen[r].plan] = NoRow
    BY <1>3, <2>1 DEF ReadOld, RestInv, IInv, TypeInv
  <2>2. CASE plans[seen[r].plan] # NoRow
    <3>1. plans[seen[r].plan].max \in Nat
      <4>1. seen[r] \in UserRows
        BY <1>3 DEF ReadOld, RestInv, ChangeInv
      <4>2. plans[seen[r].plan] \in PlanRows
        BY <2>2, <4>1 DEF UserRows, IInv, TypeInv
      <4> QED
        BY <4>2, PlanAssumption
    <3> QED
      BY <1>3, <2>2, <3>1 DEF ReadOld, RestInv, IInv, TypeInv
  <2> QED
    BY <2>1, <2>2
<1>4. ASSUME NEW r \in Reqs, WipeUser(r)
      PROVE  RestInv'
  BY <1>4 DEF WipeUser, RestInv, IInv, TypeInv
<1>5. ASSUME NEW r \in Reqs, WriteUser(r)
      PROVE  RestInv'
  <2>1. CASE user = NoRow
    <3>1. user' \in UserRows
      BY <1>5, <2>1, PlanAssumption
         DEF WriteUser, NewRemaining, RestInv, UserRows, IInv, PlanInv, Changing
    <3>2. num[r] \in 0 .. MaxId
      BY DEF IInv, TypeInv
    <3> QED
      BY <1>5, <2>1, <3>1 DEF WriteUser, RestInv, IInv, TypeInv
  <2>2. CASE user # NoRow
    BY <1>5, <2>2 DEF WriteUser, RestInv, IInv, TypeInv
  <2> QED
    BY <2>1, <2>2
<1>6. ASSUME NEW r \in Reqs, Count(r)
      PROVE  RestInv'
  <2>1. Cardinality(rows) \in 0 .. MaxId
    <3>1. IsFiniteSet(Ids) /\ Cardinality(Ids) = MaxId
      BY UpTo DEF Ids
    <3>2. IsFiniteSet(rows) /\ Cardinality(rows) <= Cardinality(Ids)
      BY <3>1, FS_Subset DEF RestInv
    <3>3. Cardinality(rows) \in Nat
      BY <3>2, FS_CardinalityType
    <3> QED
      BY <3>1, <3>2, <3>3
  <2> QED
    BY <1>6, <2>1 DEF Count, RestInv, IInv, TypeInv
<1>7. ASSUME NEW r \in Reqs, InsertInstance(r)
      PROVE  RestInv'
  <2>1. CASE next[r] \in rows
    BY <1>7, <2>1 DEF InsertInstance, RestInv, IInv, TypeInv
  <2>2. CASE next[r] \notin rows
    <3>1. 0 < next[r] /\ next[r] <= num[r] /\ num[r] \in 0 .. MaxId /\ next[r] \in Int
      BY <1>7 DEF InsertInstance, RestInv, IInv, TypeInv
    <3>2. /\ rows' = rows \cup {next[r]} /\ next' = [next EXCEPT ![r] = next[r] + 1]
          /\ pc' = IF next[r] = num[r] THEN [pc EXCEPT ![r] = "done"] ELSE pc
          /\ UNCHANGED <<user, running, orphans, seen, oldMax, num, wiped, drift>>
      BY <1>7, <2>2 DEF InsertInstance
    <3>3. rows' \subseteq Ids /\ \A b \in Ids \ rows' : running'[b] = 0
      <4>1. next[r] \in Ids
        BY <3>1 DEF Ids
      <4> QED
        BY <3>2, <4>1 DEF RestInv
    <3>4. \A s \in Reqs :
             /\ next'[s] \in 0 .. MaxId + 1
             /\ pc'[s] = "insert" => 0 < next'[s] /\ next'[s] <= num'[s]
             /\ pc'[s] = "delete" => num'[s] < next'[s] /\ next'[s] <= MaxId
      BY <1>7, <3>1, <3>2 DEF InsertInstance, RestInv, IInv, TypeInv
    <3> QED
      BY <3>2, <3>3, <3>4 DEF RestInv
  <2> QED
    BY <2>1, <2>2
<1>8. ASSUME NEW r \in Reqs, DeleteInstance(r)
      PROVE  RestInv'
  <2>1. /\ num[r] < next[r] /\ next[r] <= MaxId /\ num[r] \in 0 .. MaxId /\ next[r] \in Int
    BY <1>8 DEF DeleteInstance, RestInv, IInv, TypeInv
  <2>2. next[r] \in Ids
    BY <2>1 DEF Ids
  <2>3. /\ rows' \subseteq Ids /\ running' \in [Ids -> Nat] /\ orphans' \in Nat
        /\ \A b \in Ids \ rows' : running'[b] = 0
    BY <1>8, <2>2 DEF DeleteInstance, RestInv
  <2>4. \A s \in Reqs :
           /\ next'[s] \in 0 .. MaxId + 1
           /\ pc'[s] = "insert" => 0 < next'[s] /\ next'[s] <= num'[s]
           /\ pc'[s] = "delete" => num'[s] < next'[s] /\ next'[s] <= MaxId
    BY <1>8, <2>1 DEF DeleteInstance, RestInv, IInv, TypeInv
  <2> QED
    BY <1>8, <2>3, <2>4 DEF DeleteInstance, RestInv
<1>9. ASSUME NEW r \in Reqs, InsertPlan(r)
      PROVE  RestInv'
  BY <1>9 DEF InsertPlan, RestInv, IInv, TypeInv, Causes
<1>10. ASSUME NEW b \in Ids, NEW n \in Amounts, StartBot(b, n)
       PROVE  RestInv'
  BY <1>10 DEF StartBot, RestInv, UserRows, Causes
<1>11. ASSUME NEW b \in Ids, StopBot(b)
       PROVE  RestInv'
  BY <1>11, RowAssumption DEF StopBot, RestInv, UserRows, Causes
<1>12. CASE FixCopyTradingBalance
  <2>1. InUse \in Nat
    BY HeldType
  <2>2. plans[user.plan].max \in Nat
    BY <1>12, PlanAssumption DEF FixCopyTradingBalance, RestInv, UserRows, IInv, TypeInv
  <2> QED
    BY <1>12, <2>1, <2>2 DEF FixCopyTradingBalance, RestInv, UserRows, Causes
<1>13. CASE UNCHANGED vars
  BY <1>13 DEF RestInv
<1> QED
  BY <1>1, <1>2, <1>3, <1>4, <1>5, <1>6, <1>7, <1>8, <1>9, <1>10, <1>11, <1>12, <1>13 DEF Next

-----------------------------------------------------------------------------
(* A step that sends no request to work on the user, and changes neither   *)
(* the user nor what a request knows. A plan may go.                       *)
LEMMA QuietStep ==
    ASSUME BInv, Held' = Held, UNCHANGED <<user, seen, oldMax, wiped, drift>>,
           \A p \in Plans : plans'[p] \in {plans[p], NoRow},
           \A s \in Reqs :
              /\ pc[s] = "failed" => pc'[s] = "failed"
              /\ pc[s] \in {"readNew", "writeUser"} => pc'[s] \in {pc[s], "failed"}
              /\ pc'[s] \in Changing => pc'[s] = pc[s] /\ name'[s] = name[s] /\ new'[s] = new[s]
              /\ pc'[s] \in {"idle", "readUser"} => pc[s] \in {"idle", "readUser"}
    PROVE  WipedInv' /\ ChangeInv' /\ BalanceInv' /\ NewInv'
<1> USE DEF BInv, Changing
<1>1. WipedInv'
  BY DEF WipedInv, RestInv
<1>2. ChangeInv'
  BY DEF ChangeInv, RestInv
<1>3. BalanceInv'
  <2> SUFFICES ASSUME ~UserLost' PROVE BalanceInv'
    BY DEF BalanceInv
  <2>1. ~UserLost
    BY DEF UserLost, RestInv
  <2>2. user # NoRow /\ plans'[user.plan] # NoRow => plans'[user.plan] = plans[user.plan]
    BY DEF RestInv, UserRows
  <2>3. \A s \in Reqs : pc'[s] = "readOld" /\ plans'[seen[s].plan] # NoRow
                         => plans'[seen[s].plan] = plans[seen[s].plan]
    BY DEF RestInv, UserRows, ChangeInv
  <2> QED
    BY <2>1, <2>2, <2>3 DEF BalanceInv, Within
<1>4. NewInv'
  BY DEF NewInv, IInv, PlanInv
<1> QED
  BY <1>1, <1>2, <1>3, <1>4

LEMMA QuietSteps ==
    ASSUME BInv, NEW r \in Reqs,
           \/ Receive(r) \/ Count(r) \/ InsertInstance(r) \/ DeleteInstance(r)
           \/ FindPlan(r) \/ DropPlan(r) \/ StatementFails(r)
           \/ WriteUser(r) /\ user # NoRow
    PROVE  WipedInv' /\ ChangeInv' /\ BalanceInv' /\ NewInv'
<1> USE DEF BInv, planVars, countVars, botVars
<1>1. Held' = Held
  <2>1. CASE InsertInstance(r)
    <3>1. CASE next[r] \in rows
      BY <2>1, <3>1, HeldSame DEF InsertInstance
    <3>2. CASE next[r] \notin rows
      <4>1. next[r] \in Ids
        BY <2>1, SizeAssumption DEF InsertInstance, RestInv, IInv, TypeInv, Ids
      <4> QED
        BY <2>1, <3>2, <4>1, HeldInsert DEF InsertInstance
    <3> QED
      BY <3>1, <3>2
  <2>2. CASE DeleteInstance(r)
    <3>1. next[r] \in Ids
      BY <2>2, SizeAssumption DEF DeleteInstance, RestInv, IInv, TypeInv, Ids
    <3> QED
      BY <2>2, <3>1, HeldDelete DEF DeleteInstance
  <2>3. CASE ~InsertInstance(r) /\ ~DeleteInstance(r)
    BY <2>3, HeldSame DEF Receive, Count, FindPlan, DropPlan, StatementFails, WriteUser
  <2> QED
    BY <2>1, <2>2, <2>3
<1>2. UNCHANGED <<user, seen, oldMax, wiped, drift>>
  BY DEF Receive, Count, InsertInstance, DeleteInstance, FindPlan, DropPlan, StatementFails,
         WriteUser
<1>3. \A p \in Plans : plans'[p] \in {plans[p], NoRow}
  BY DEF Receive, Count, InsertInstance, DeleteInstance, FindPlan, DropPlan, StatementFails,
         WriteUser, IInv, TypeInv
<1>4. /\ pc[r] \notin {"failed"}
      /\ pc[r] \in {"readNew", "writeUser"} => pc'[r] \in {pc[r], "failed"}
      /\ pc'[r] \notin Changing
      /\ pc'[r] \in {"idle", "readUser"} => pc[r] \in {"idle", "readUser"}
      /\ \A s \in Reqs \ {r} : pc'[s] = pc[s] /\ name'[s] = name[s] /\ new'[s] = new[s]
  BY DEF Receive, Count, InsertInstance, DeleteInstance, FindPlan, DropPlan, StatementFails,
         WriteUser, IInv, TypeInv, Goto, Changing
<1>5. \A s \in Reqs :
         /\ pc[s] = "failed" => pc'[s] = "failed"
         /\ pc[s] \in {"readNew", "writeUser"} => pc'[s] \in {pc[s], "failed"}
         /\ pc'[s] \in Changing => pc'[s] = pc[s] /\ name'[s] = name[s] /\ new'[s] = new[s]
         /\ pc'[s] \in {"idle", "readUser"} => pc[s] \in {"idle", "readUser"}
  BY <1>4
<1> QED
  BY <1>1, <1>2, <1>3, <1>5, QuietStep

(* It may be the second change of plan at once: then nothing is promised.  *)
LEMMA ReadUserBalance ==
    ASSUME BInv, NEW r \in Reqs, ReadUser(r)
    PROVE  WipedInv' /\ ChangeInv' /\ BalanceInv' /\ NewInv'
<1> USE DEF BInv
<1>1. /\ pc[r] = "readUser" /\ seen'[r] = user
      /\ pc'[r] \in {"failed", IF user = NoRow THEN "readNew" ELSE "readOld"}
      /\ \A s \in Reqs \ {r} : pc'[s] = pc[s] /\ seen'[s] = seen[s]
      /\ UNCHANGED <<plans, user, rows, running, orphans, name, oldMax, new, wiped>>
      /\ drift \subseteq drift'
      /\ "twice" \notin drift' => \A s \in Reqs \ {r} : pc[s] \notin Changing
  BY DEF ReadUser, Goto, Others, planVars, countVars, botVars, RestInv, IInv, TypeInv
<1>2. Held' = Held
  BY <1>1, HeldSame
<1>3. r \notin wiped
  BY <1>1 DEF WipedInv
<1>4. WipedInv'
  BY <1>1, <1>2, <1>3 DEF WipedInv, RestInv
<1>5. ChangeInv'
  BY <1>1 DEF ChangeInv, Changing
<1>6. BalanceInv'
  <2> SUFFICES ASSUME ~UserLost' PROVE BalanceInv'
    BY DEF BalanceInv
  <2>1. ~UserLost
    BY <1>1, <1>3 DEF UserLost, RestInv
  <2>2. \A x, m : Within(x, m) => (drift' \subseteq {"stop"} => x <= m)
    BY <1>1 DEF Within
  <2>3. \A x, m : Within(x, m) => (drift' \subseteq {"start"} => x >= m)
    BY <1>1 DEF Within
  <2> QED
    BY <1>1, <1>2, <2>1, <2>2, <2>3 DEF BalanceInv, Within
<1>7. NewInv'
  BY <1>1 DEF NewInv
<1> QED
  BY <1>4, <1>5, <1>6, <1>7

LEMMA ReadOldBalance ==
    ASSUME BInv, NEW r \in Reqs, ReadOld(r)
    PROVE  WipedInv' /\ ChangeInv' /\ BalanceInv' /\ NewInv'
<1> USE DEF BInv
<1>1. /\ pc[r] = "readOld"
      /\ \/ pc'[r] = "failed" /\ oldMax' = oldMax
         \/ /\ plans[seen[r].plan] # NoRow /\ oldMax'[r] = plans[seen[r].plan].max
            /\ pc'[r] = "wipe"
      /\ \A s \in Reqs \ {r} : pc'[s] = pc[s] /\ oldMax'[s] = oldMax[s]
      /\ UNCHANGED <<plans, user, rows, running, orphans, name, seen, new, wiped, drift>>
  BY DEF ReadOld, Goto, planVars, countVars, botVars, RestInv, IInv, TypeInv
<1>2. Held' = Held
  BY <1>1, HeldSame
<1>3. r \notin wiped
  BY <1>1 DEF WipedInv
<1>4. WipedInv'
  BY <1>1, <1>2, <1>3 DEF WipedInv, RestInv
<1>5. ChangeInv'
  BY <1>1 DEF ChangeInv, Changing
<1>6. BalanceInv'
  <2>1. UserLost' <=> UserLost
    BY <1>1, <1>3 DEF UserLost, RestInv
  <2> QED
    BY <1>1, <1>2, <2>1 DEF BalanceInv, Within
<1>7. NewInv'
  BY <1>1 DEF NewInv
<1> QED
  BY <1>4, <1>5, <1>6, <1>7

LEMMA WipeUserBalance ==
    ASSUME BInv, NEW r \in Reqs, WipeUser(r)
    PROVE  WipedInv' /\ ChangeInv' /\ BalanceInv' /\ NewInv'
<1> USE DEF BInv
<1>1. /\ pc[r] = "wipe" /\ pc'[r] = "readNew" /\ user' = NoRow /\ wiped' = wiped \cup {r}
      /\ \A s \in Reqs \ {r} : pc'[s] = pc[s]
      /\ UNCHANGED <<plans, rows, running, orphans, name, seen, oldMax, new, drift>>
  BY DEF WipeUser, Goto, planVars, countVars, botVars, RestInv, IInv, TypeInv
<1>2. Held' = Held
  BY <1>1, HeldSame
<1>3. WipedInv'
  BY <1>1, <1>2 DEF WipedInv, RestInv, ChangeInv
<1>4. ChangeInv'
  BY <1>1 DEF ChangeInv, Changing
<1>5. BalanceInv'
  <2>1. UserLost' <=> UserLost
    BY <1>1 DEF UserLost, RestInv
  <2> QED
    BY <1>1, <1>2, <2>1 DEF BalanceInv, Within
<1>6. NewInv'
  BY <1>1 DEF NewInv
<1> QED
  BY <1>3, <1>4, <1>5, <1>6

LEMMA ReadNewBalance ==
    ASSUME BInv, NEW r \in Reqs, ReadNew(r)
    PROVE  WipedInv' /\ ChangeInv' /\ BalanceInv' /\ NewInv'
<1> USE DEF BInv
<1>1. /\ pc[r] = "readNew" /\ new'[r] = plans[name[r]]
      /\ pc'[r] \in {"failed", "writeUser"}
      /\ \A s \in Reqs \ {r} : pc'[s] = pc[s] /\ new'[s] = new[s]
      /\ UNCHANGED <<plans, user, rows, running, orphans, name, seen, oldMax, wiped, drift>>
  BY DEF ReadNew, Goto, planVars, countVars, botVars, RestInv, IInv, TypeInv
<1>2. Held' = Held
  BY <1>1, HeldSame
<1>3. WipedInv'
  BY <1>1, <1>2 DEF WipedInv, RestInv
<1>4. ChangeInv'
  BY <1>1 DEF ChangeInv, Changing
<1>5. BalanceInv'
  <2>1. UserLost => UserLost'
    BY <1>1 DEF UserLost, RestInv
  <2> QED
    BY <1>1, <1>2, <2>1 DEF BalanceInv, Within
<1>6. NewInv'
  BY <1>1 DEF NewInv
<1> QED
  BY <1>3, <1>4, <1>5, <1>6

(* The new balance: what the plan allows less what the bots hold. A user   *)
(* who had no row has no bots that hold any, or the request is not alone.  *)
LEMMA WriteUserSum ==
    ASSUME BInv, NEW r \in Reqs, WriteUser(r), user = NoRow, ~UserLost,
           plans[name[r]] # NoRow
    PROVE  Within(NewRemaining(r) + Held, plans[name[r]].max)
<1> USE DEF BInv
<1> SUFFICES ASSUME drift \subseteq {"stop"} \/ drift \subseteq {"start"}
             PROVE  Within(NewRemaining(r) + Held, plans[name[r]].max)
  BY DEF Within
<1>1. /\ new[r].max \in Nat /\ oldMax[r] \in Nat /\ Held \in Nat
      /\ plans[name[r]].max = new[r].max
  BY PlanAssumption, HeldType DEF WriteUser, NewInv, RestInv, IInv, PlanInv
<1>2. CASE seen[r] # NoRow
  <2>1. seen[r].bal \in Int /\ Within(seen[r].bal + Held, oldMax[r])
    BY <1>2 DEF WriteUser, BalanceInv, RestInv, UserRows
  <2> QED
    BY <1>1, <1>2, <2>1 DEF NewRemaining, Within
<1>3. CASE seen[r] = NoRow
  <2>1. oldMax[r] = 0 /\ r \notin wiped
    BY <1>3 DEF WriteUser, ChangeInv, WipedInv
  <2>2. wiped = {}
    <3>1. ASSUME NEW s \in wiped
          PROVE  FALSE
      <4>1. s \in Reqs /\ pc[s] \in {"readNew", "writeUser"}
        BY <3>1 DEF RestInv, WipedInv, UserLost
      <4>2. s = r
        BY <4>1 DEF WriteUser, ChangeInv, Changing
      <4> QED
        BY <2>1, <3>1, <4>2
    <3> QED
      BY <3>1
  <2>3. Held = 0
    BY <1>1, <2>2 DEF WipedInv
  <2> QED
    BY <1>1, <1>3, <2>1, <2>3 DEF NewRemaining, Within
<1> QED
  BY <1>2, <1>3

LEMMA WriteUserBalance ==
    ASSUME BInv, NEW r \in Reqs, WriteUser(r), user = NoRow
    PROVE  WipedInv' /\ ChangeInv' /\ BalanceInv' /\ NewInv'
<1> USE DEF BInv
<1>1. /\ pc[r] = "writeUser" /\ pc'[r] = "count" /\ wiped' = wiped \ {r}
      /\ user' = [plan |-> name[r], bal |-> NewRemaining(r)]
      /\ \A s \in Reqs \ {r} : pc'[s] = pc[s]
      /\ UNCHANGED <<plans, rows, running, orphans, name, seen, oldMax, new, drift>>
  BY DEF WriteUser, Goto, planVars, countVars, botVars, RestInv, IInv, TypeInv
<1>2. Held' = Held
  BY <1>1, HeldSame
<1>3. user' # NoRow
  BY <1>1, RowAssumption, PlanAssumption
     DEF WriteUser, NewRemaining, RestInv, UserRows, IInv, PlanInv, Changing
<1>4. WipedInv'
  BY <1>1, <1>3 DEF WipedInv, RestInv
<1>5. ChangeInv'
  <2>1. \A s \in Reqs : pc'[s] \in Changing => s # r /\ pc[s] \in Changing
    BY <1>1 DEF Changing
  <2> QED
    BY <1>1, <2>1 DEF ChangeInv, Changing, WipedInv
<1>6. BalanceInv'
  <2> SUFFICES ASSUME ~UserLost' PROVE BalanceInv'
    BY DEF BalanceInv
  <2>1. ~UserLost
    BY <1>1 DEF UserLost, RestInv
  <2>2. plans[name[r]] # NoRow => Within(NewRemaining(r) + Held, plans[name[r]].max)
    BY <2>1, WriteUserSum
  <2> QED
    BY <1>1, <1>2, <2>1, <2>2 DEF BalanceInv, Within
<1>7. NewInv'
  BY <1>1 DEF NewInv
<1> QED
  BY <1>4, <1>5, <1>6, <1>7

(* A plan that no user has and no change has read is rewritten unnoticed.  *)
LEMMA InsertPlanBalance ==
    ASSUME BInv, NEW r \in Reqs, InsertPlan(r)
    PROVE  WipedInv' /\ ChangeInv' /\ BalanceInv' /\ NewInv'
<1> USE DEF BInv
<1>1. /\ pc[r] = "insertPlan" /\ pc'[r] \in {"done", "failed"}
      /\ \A s \in Reqs \ {r} : pc'[s] = pc[s]
      /\ UNCHANGED <<user, rows, running, orphans, name, seen, oldMax, new, wiped>>
      /\ drift \subseteq drift' /\ drift' \subseteq drift \cup {"edit"}
      /\ \/ "edit" \in drift'
         \/ \A p \in Plans : Relied(p) => plans'[p] = plans[p]
  BY DEF InsertPlan, Goto, planVars, countVars, botVars, RestInv, IInv, TypeInv
<1>2. Held' = Held
  BY <1>1, HeldSame
<1>3. r \notin wiped
  BY <1>1 DEF WipedInv
<1>4. WipedInv'
  BY <1>1, <1>2, <1>3 DEF WipedInv, RestInv
<1>5. ChangeInv'
  BY <1>1 DEF ChangeInv, Changing
<1>6. CASE "edit" \in drift'
  <2>1. BalanceInv'
    BY <1>6 DEF BalanceInv, Within
  <2> QED
    BY <1>4, <1>5, <1>6, <2>1 DEF NewInv
<1>7. CASE \A p \in Plans : Relied(p) => plans'[p] = plans[p]
  <2>1. /\ user # NoRow => plans'[user.plan] = plans[user.plan]
        /\ \A s \in Reqs : pc'[s] = "readOld" => plans'[seen[s].plan] = plans[seen[s].plan]
    BY <1>1, <1>7 DEF Relied, Changing, RestInv, UserRows, ChangeInv
  <2>2. \A s \in Reqs : pc'[s] = "writeUser" => plans'[name[s]] = plans[name[s]]
    BY <1>1, <1>7 DEF Relied, Changing, IInv, PlanInv
  <2>3. UserLost' <=> UserLost
    BY <1>1, <1>3 DEF UserLost, RestInv
  <2>4. BalanceInv'
    BY <1>1, <1>2, <2>1, <2>3 DEF BalanceInv, Within
  <2>5. NewInv'
    BY <1>1, <2>2 DEF NewInv
  <2> QED
    BY <1>4, <1>5, <2>4, <2>5
<1> QED
  BY <1>1, <1>6, <1>7

(* A start takes from the row, not from what a change has read before.     *)
LEMMA StartBotBalance ==
    ASSUME BInv, NEW b \in Ids, NEW n \in Amounts, StartBot(b, n)
    PROVE  WipedInv' /\ ChangeInv' /\ BalanceInv' /\ NewInv'
<1> USE DEF BInv
<1>1. /\ b \in rows /\ running[b] = 0 /\ user # NoRow /\ user \in UserRows
      /\ user' = [user EXCEPT !.bal = @ - n] /\ n \in Nat
      /\ UNCHANGED <<plans, rows, orphans, pc, name, seen, oldMax, new, wiped>>
      /\ drift \subseteq drift' /\ drift' \subseteq drift \cup {"start"}
      /\ \A s \in Reqs : pc[s] \in Changing => "start" \in drift'
  BY SizeAssumption DEF StartBot, planVars, countVars, RestInv
<1>2. Held \in Nat /\ Held' = Held + n
  <2>1. running' = [running EXCEPT ![b] = n] /\ UNCHANGED <<rows, orphans>>
    BY <1>1 DEF StartBot
  <2>2. Held' = Held - running[b] + n
    BY <1>1, <2>1, HeldChange
  <2> QED
    BY <1>1, <2>2, HeldType
<1>3. /\ user' # NoRow /\ user'.plan = user.plan /\ user'.bal = user.bal - n
      /\ user.bal \in Int
  BY <1>1, RowAssumption DEF UserRows
<1>4. WipedInv'
  BY <1>1, <1>3 DEF WipedInv
<1>5. ChangeInv'
  BY <1>1 DEF ChangeInv, Changing
<1>6. BalanceInv'
  <2> SUFFICES ASSUME ~UserLost' PROVE BalanceInv'
    BY DEF BalanceInv
  <2>1. ~UserLost
    BY <1>1 DEF UserLost
  <2>2. user'.bal + Held' = user.bal + Held
    BY <1>1, <1>2, <1>3
  <2>3. plans[user.plan] # NoRow => Within(user.bal + Held, plans[user.plan].max)'
    BY <1>1, <1>3, <2>1, <2>2 DEF BalanceInv, Within
  <2>4. ASSUME NEW s \in Reqs, NEW m \in Nat, pc[s] \in Changing, seen[s] # NoRow,
               Within(seen[s].bal + Held, m)
        PROVE  Within(seen[s].bal + Held, m)'
    <3>1. seen[s].bal \in Int
      BY <2>4 DEF RestInv, UserRows
    <3> QED
      BY <1>1, <1>2, <2>4, <3>1 DEF Within
  <2>5. \A s \in Reqs : pc[s] = "readOld" /\ plans[seen[s].plan] # NoRow
                        => plans[seen[s].plan].max \in Nat
    BY PlanAssumption DEF RestInv, UserRows, IInv, TypeInv, ChangeInv
  <2> QED
    BY <1>1, <1>3, <2>1, <2>3, <2>4, <2>5 DEF BalanceInv, RestInv, ChangeInv, Changing
<1>7. NewInv'
  BY <1>1 DEF NewInv
<1> QED
  BY <1>4, <1>5, <1>6, <1>7

LEMMA StopBotBalance ==
    ASSUME BInv, NEW b \in Ids, StopBot(b)
    PROVE  WipedInv' /\ ChangeInv' /\ BalanceInv' /\ NewInv'
<1> USE DEF BInv
<1>1. /\ b \in rows /\ running[b] \in Nat /\ user \in UserRows \cup {NoRow}
      /\ UNCHANGED <<plans, rows, orphans, pc, name, seen, oldMax, new, wiped>>
      /\ drift \subseteq drift' /\ drift' \subseteq drift \cup {"stop"}
      /\ \A s \in Reqs : pc[s] \in Changing => "stop" \in drift'
  BY DEF StopBot, planVars, countVars, RestInv
<1>2. Held \in Nat /\ Held' \in Nat /\ Held' = Held - running[b]
  <2>1. running' = [running EXCEPT ![b] = 0] /\ UNCHANGED <<rows, orphans>>
    BY <1>1 DEF StopBot
  <2>2. Held' \in Nat /\ Held' = Held - running[b] + 0
    BY <1>1, <2>1, HeldChange
  <2> QED
    BY <1>1, <2>2, HeldType
<1>3. IF user = NoRow THEN user' = NoRow
      ELSE /\ user' # NoRow /\ user'.plan = user.plan /\ user.bal \in Int
           /\ user'.bal = user.bal + running[b]
  BY <1>1, RowAssumption DEF StopBot, UserRows
<1>4. WipedInv'
  BY <1>1, <1>2, <1>3 DEF WipedInv
<1>5. ChangeInv'
  BY <1>1, <1>3 DEF ChangeInv, Changing
<1>6. BalanceInv'
  <2> SUFFICES ASSUME ~UserLost' PROVE BalanceInv'
    BY DEF BalanceInv
  <2>1. ~UserLost
    BY <1>1 DEF UserLost
  <2>2. user # NoRow => user'.bal + Held' = user.bal + Held
    BY <1>1, <1>2, <1>3
  <2>3. user # NoRow /\ plans[user.plan] # NoRow
        => Within(user.bal + Held, plans[user.plan].max)'
    BY <1>1, <1>3, <2>1, <2>2 DEF BalanceInv, Within
  <2>4. ASSUME NEW s \in Reqs, NEW m \in Nat, pc[s] \in Changing, seen[s] # NoRow,
               Within(seen[s].bal + Held, m)
        PROVE  Within(seen[s].bal + Held, m)'
    <3>1. seen[s].bal \in Int
      BY <2>4 DEF RestInv, UserRows
    <3> QED
      BY <1>1, <1>2, <2>4, <3>1 DEF Within
  <2>5. \A s \in Reqs : pc[s] = "readOld" /\ plans[seen[s].plan] # NoRow
                        => plans[seen[s].plan].max \in Nat
    BY PlanAssumption DEF RestInv, UserRows, IInv, TypeInv, ChangeInv
  <2> QED
    BY <1>1, <1>3, <2>1, <2>3, <2>4, <2>5 DEF BalanceInv, RestInv, ChangeInv, Changing
<1>7. NewInv'
  BY <1>1 DEF NewInv
<1> QED
  BY <1>4, <1>5, <1>6, <1>7

(* The correction sets the sum right, but for bots that have no row.       *)
LEMMA FixBalance ==
    ASSUME BInv, FixCopyTradingBalance
    PROVE  WipedInv' /\ ChangeInv' /\ BalanceInv' /\ NewInv'
<1> USE DEF BInv
<1>1. /\ user # NoRow /\ user \in UserRows /\ plans[user.plan] # NoRow
      /\ user' = [user EXCEPT !.bal = plans[user.plan].max - InUse]
      /\ UNCHANGED <<plans, rows, running, orphans, pc, name, seen, oldMax, new, wiped>>
      /\ drift \subseteq drift' /\ (orphans = 0 \/ "orphan" \in drift')
      /\ plans[user.plan].max \in Nat /\ orphans \in Nat
  BY PlanAssumption
     DEF FixCopyTradingBalance, botVars, planVars, countVars, RestInv, UserRows, IInv, TypeInv
<1>2. InUse \in Nat /\ InUse' = InUse /\ Held' = Held
  BY <1>1, HeldType, HeldSame DEF InUse
<1>3. /\ user' # NoRow /\ user'.plan = user.plan /\ user'.bal = plans[user.plan].max - InUse
  BY <1>1, RowAssumption, <1>2 DEF UserRows
<1>4. WipedInv'
  BY <1>1, <1>3 DEF WipedInv
<1>5. ChangeInv'
  BY <1>1 DEF ChangeInv, Changing
<1>6. BalanceInv'
  <2> SUFFICES ASSUME ~UserLost' PROVE BalanceInv'
    BY DEF BalanceInv
  <2>1. ~UserLost
    BY <1>1 DEF UserLost
  <2>2. user'.bal + Held' = plans[user.plan].max + orphans
    BY <1>1, <1>2, <1>3 DEF Held
  <2>3. Within(user.bal + Held, plans[user.plan].max)'
    BY <1>1, <1>3, <2>2 DEF Within
  <2> QED
    BY <1>1, <1>2, <1>3, <2>1, <2>3 DEF BalanceInv, Within
<1>7. NewInv'
  BY <1>1 DEF NewInv
<1> QED
  BY <1>4, <1>5, <1>6, <1>7

-----------------------------------------------------------------------------
LEMMA StepBInv == BInv /\ [Next]_vars => BInv'
<1> SUFFICES ASSUME BInv, [Next]_vars PROVE BInv'
  OBVIOUS
<1>1. IInv' /\ RestInv'
  BY StepIInv, RestStep DEF BInv
<1>2. WipedInv' /\ ChangeInv' /\ BalanceInv' /\ NewInv'
  <2>1. ASSUME NEW r \in Reqs,
               \/ Receive(r) \/ ReadUser(r) \/ ReadOld(r) \/ WipeUser(r) \/ ReadNew(r)
               \/ WriteUser(r) \/ Count(r) \/ InsertInstance(r) \/ DeleteInstance(r)
               \/ FindPlan(r) \/ InsertPlan(r) \/ DropPlan(r) \/ StatementFails(r)
        PROVE  WipedInv' /\ ChangeInv' /\ BalanceInv' /\ NewInv'
    BY <2>1, QuietSteps, ReadUserBalance, ReadOldBalance, WipeUserBalance, ReadNewBalance,
       WriteUserBalance, InsertPlanBalance
  <2>2. ASSUME NEW b \in Ids, StopBot(b) \/ \E n \in Amounts : StartBot(b, n)
        PROVE  WipedInv' /\ ChangeInv' /\ BalanceInv' /\ NewInv'
    BY <2>2, StopBotBalance, StartBotBalance
  <2>3. CASE UNCHANGED vars
    <3>1. Held' = Held /\ UserLost' = UserLost
      BY <2>3, HeldSame DEF vars, botVars, UserLost
    <3> QED
      BY <2>3, <3>1 DEF BInv, vars, planVars, countVars, botVars, WipedInv, ChangeInv,
         BalanceInv, NewInv, Within
  <2> QED
    BY <2>1, <2>2, <2>3, FixBalance DEF Next
<1> QED
  BY <1>1, <1>2 DEF BInv

LEMMA BalanceInductive == Spec => []BInv
  BY InitBInv, StepBInv, PTL DEF Spec

(* The requests and the tables keep their types: a request that sets       *)
(* instances neither counts below 0 nor past MaxId (handlersAdmin.go).     *)
THEOREM TypeCorrect == Spec => []TypeOK
<1>1. BInv => TypeOK
  <2> SUFFICES ASSUME BInv PROVE TypeOK
    OBVIOUS
  <2>1. next \in [Reqs -> 0 .. MaxId + 1]
    BY DEF BInv, RestInv, IInv, TypeInv
  <2> QED
    BY <2>1 DEF BInv, RestInv, IInv, TypeInv, TypeOK
<1> QED
  BY <1>1, BalanceInductive, PTL

(* What remains and what bots hold make up the plan's maximum, from plan   *)
(* to plan (handlersAdmin.go:165), unless one of the causes has been met.  *)
THEOREM BalanceCarriedOver == Spec => []BalanceCarried
<1>1. BInv => BalanceCarried
  <2> SUFFICES ASSUME BInv PROVE BalanceCarried
    OBVIOUS
  <2>1. InUse \in Nat /\ orphans \in Nat
    BY HeldType DEF BInv, RestInv
  <2>2. user # NoRow => Granted = user.bal + Held
    BY <2>1 DEF Granted, Held, BInv, RestInv, UserRows
  <2> QED
    BY <2>2 DEF BInv, BalanceInv, BalanceCarried, Known, Within
<1> QED
  BY <1>1, BalanceInductive, PTL

(* No bot holds balance of a user without a row, unless a change of plan   *)
(* that wiped the user is yet to write it or has failed.                   *)
THEOREM BotsBelongToUsers == Spec => []BotsHaveUser
<1>1. BInv => BotsHaveUser
  BY DEF BInv, WipedInv, BotsHaveUser, Held
<1> QED
  BY <1>1, BalanceInductive, PTL
=============================================================================
