------------------------------ MODULE UserPlan ------------------------------
(***************************************************************************)
(* Plans, the user's row and the user's instances under the requests of    *)
(* the administrators: SetUserPlan with SetNumInstances and                *)
(* deleteInstances, CreateNewPlan, DeletePlan (handlersAdmin.go), from the *)
(* HTTP API or from the Discord bot (discbot.go). Every request is a       *)
(* goroutine, every statement a step; nothing runs in a transaction.       *)
(* Beside them the user's bots take from the remaining balance and give    *)
(* back: BotLifecycle has the steps of that, here are their statements on  *)
(* the row (db/access.go). One user; renewal dates are left out.           *)
(***************************************************************************)
EXTENDS Integers, Totals

CONSTANTS
    Reqs,           \* bound: the requests of the administrators
    Plans,          \* names of plans
    PlanRows,       \* the rows a plan can have: MaxCTBalance and
                    \* AllowedCTInstances
    MaxId,          \* the largest number of instances
    Amounts,        \* the balances the user's exchange accounts can have
    NoRow           \* what a SELECT of a row that is not there gives

Ids == 1 .. MaxId
UserRows == [plan : Plans, bal : Int]

ASSUME SizeAssumption == MaxId \in Nat /\ Amounts \subseteq Nat \ {0}
ASSUME PlanAssumption == PlanRows \subseteq [max : Nat, ct : 0 .. MaxId]
ASSUME RowAssumption == NoRow \notin PlanRows \cup UserRows

VARIABLES
    plans,          \* table plans: name -> row
    user,           \* the user's row in table users
    rows,           \* the bot_ids of the user's rows in table copytrading
    running,        \* bot_id -> the balance its running bot has taken
    orphans,        \* the balance of running bots whose row was deleted
    pc,             \* where each request is
    name,           \* the plan a request names
    seen,           \* the user's row as SetUserPlan read it
    oldMax,         \* oldPlan.MaxCTBalance, 0 while there is no old plan
    new,            \* newPlan as it was read, or the plan to be created
    num,            \* SetNumInstances' numInstances
    next,           \* the next instance to insert or to delete
    wiped,          \* history: the requests that wiped the user and wrote none
    drift,          \* history: what may have put the balance wrong
    overlap         \* history: instances were set by two requests at once

planVars == <<name, seen, oldMax, new>>
countVars == <<num, next>>
botVars == <<running, orphans>>
vars == <<plans, user, rows, botVars, pc, planVars, countVars, wiped, drift, overlap>>

Changing == {"readOld", "wipe", "readNew", "writeUser"}
Sizing == {"insert", "delete"}
Causes == {"start", "stop", "edit", "twice", "orphan"}

TypeOK ==
    /\ plans \in [Plans -> PlanRows \cup {NoRow}]
    /\ user \in UserRows \cup {NoRow}
    /\ rows \subseteq Ids
    /\ running \in [Ids -> Nat]
    /\ orphans \in Nat
    /\ pc \in [Reqs -> {"idle", "readUser", "count", "findPlan", "dropOld",
                        "insertPlan", "dropPlan", "done", "failed"}
                       \cup Changing \cup Sizing]
    /\ name \in [Reqs -> Plans \cup {NoRow}]
    /\ seen \in [Reqs -> UserRows \cup {NoRow}]
    /\ oldMax \in [Reqs -> Nat]
    /\ new \in [Reqs -> PlanRows \cup {NoRow}]
    /\ num \in [Reqs -> 0 .. MaxId]
    /\ next \in [Reqs -> 0 .. MaxId + 1]
    /\ wiped \subseteq Reqs
    /\ drift \subseteq Causes
    /\ overlap \in BOOLEAN

(* A user with the first plan and all of its balance, or no user.          *)
Init ==
    /\ plans \in [Plans -> PlanRows]
    /\ \/ user = NoRow /\ rows = {}
       \/ \E p \in Plans :
             user = [plan |-> p, bal |-> plans[p].max] /\ rows = 1 .. plans[p].ct
    /\ running = [b \in Ids |-> 0]
    /\ orphans = 0
    /\ pc = [r \in Reqs |-> "idle"]
    /\ name = [r \in Reqs |-> NoRow]
    /\ seen = [r \in Reqs |-> NoRow]
    /\ oldMax = [r \in Reqs |-> 0]
    /\ new = [r \in Reqs |-> NoRow]
    /\ num = [r \in Reqs |-> 0]
    /\ next = [r \in Reqs |-> 0]
    /\ wiped = {} /\ drift = {} /\ overlap = FALSE

Goto(r, label) == pc' = [pc EXCEPT ![r] = label]
Others(r, labels) == \E s \in Reqs \ {r} : pc[s] \in labels

-----------------------------------------------------------------------------
(* SetUserPlan, a step for each statement. Without leave to overwrite, or  *)
(* when the days that are left are asked for and there is no user, it ends.*)
ReadUser(r) ==
    /\ pc[r] = "readUser"
    /\ seen' = [seen EXCEPT ![r] = user]
    /\ \/ Goto(r, IF user = NoRow THEN "readNew" ELSE "readOld")
       \/ Goto(r, "failed")
    /\ drift' = IF Others(r, Changing) THEN drift \cup {"twice"} ELSE drift
    /\ UNCHANGED <<plans, user, rows, botVars, name, oldMax, new, countVars, wiped, overlap>>

ReadOld(r) ==
    /\ pc[r] = "readOld"
    /\ LET old == plans[seen[r].plan]
       IN  IF old = NoRow
           THEN Goto(r, "failed") /\ UNCHANGED oldMax
           ELSE Goto(r, "wipe") /\ oldMax' = [oldMax EXCEPT ![r] = old.max]
    /\ UNCHANGED <<plans, user, rows, botVars, name, seen, new, countVars, wiped, drift, overlap>>

(* WipeUser(pool, userID, true, false): the instances stay.                *)
WipeUser(r) ==
    /\ pc[r] = "wipe"
    /\ user' = NoRow
    /\ wiped' = wiped \cup {r}
    /\ Goto(r, "readNew")
    /\ UNCHANGED <<plans, rows, botVars, planVars, countVars, drift, overlap>>

ReadNew(r) ==
    /\ pc[r] = "readNew"
    /\ new' = [new EXCEPT ![r] = plans[name[r]]]
    /\ Goto(r, IF plans[name[r]] = NoRow THEN "failed" ELSE "writeUser")
    /\ UNCHANGED <<plans, user, rows, botVars, name, seen, oldMax, countVars, wiped, drift, overlap>>

(* Mutant: the new plan is given in full.                                 *)
NewRemainingFull(r) == new[r].max

(* remaining = newMax - (oldMax - what was read); user_id is a primary key.*)
NewRemaining(r) ==
    new[r].max - (oldMax[r] - IF seen[r] = NoRow THEN 0 ELSE seen[r].bal)

WriteUser(r) ==
    /\ pc[r] = "writeUser"
    /\ IF user = NoRow
       THEN /\ user' = [plan |-> name[r], bal |-> NewRemaining(r)]
            /\ wiped' = wiped \ {r}
            /\ num' = [num EXCEPT ![r] = new[r].ct]
            /\ Goto(r, "count")
       ELSE Goto(r, "failed") /\ UNCHANGED <<user, wiped, num>>
    /\ UNCHANGED <<plans, rows, botVars, planVars, next, drift, overlap>>

-----------------------------------------------------------------------------
(* Mutant: the deletion begins one too low.                               *)
CountFromOneBefore(r) ==
    LET existing == Cardinality(rows)
    IN  /\ pc[r] = "count"
        /\ \/ existing < num[r] /\ Goto(r, "insert")
              /\ next' = [next EXCEPT ![r] = existing + 1]
           \/ existing > num[r] /\ Goto(r, "delete")
              /\ next' = [next EXCEPT ![r] = existing - 1]
           \/ existing = num[r] /\ Goto(r, "done") /\ UNCHANGED next
        /\ overlap' = (overlap \/ Others(r, Sizing))
        /\ UNCHANGED <<plans, user, rows, botVars, planVars, num, wiped, drift>>

(* SetNumInstances counts the rows, then inserts after the last or deletes *)
(* from the last downwards, row by row.                                    *)
Count(r) ==
    LET existing == Cardinality(rows)
    IN  /\ pc[r] = "count"
        /\ \/ existing < num[r] /\ Goto(r, "insert")
              /\ next' = [next EXCEPT ![r] = existing + 1]
           \/ existing > num[r] /\ Goto(r, "delete")
              /\ next' = [next EXCEPT ![r] = existing]
           \/ existing = num[r] /\ Goto(r, "done") /\ UNCHANGED next
        /\ overlap' = (overlap \/ Others(r, Sizing))
        /\ UNCHANGED <<plans, user, rows, botVars, planVars, num, wiped, drift>>

InsertInstance(r) ==
    /\ pc[r] = "insert"
    /\ IF next[r] \in rows
       THEN Goto(r, "failed") /\ UNCHANGED <<rows, next>>
       ELSE /\ rows' = rows \cup {next[r]}
            /\ next' = [next EXCEPT ![r] = @ + 1]
            /\ IF next[r] = num[r] THEN Goto(r, "done") ELSE UNCHANGED pc
    /\ UNCHANGED <<plans, user, botVars, planVars, num, wiped, drift, overlap>>

(* The bot of a row that is deleted is not stopped.                        *)
DeleteInstance(r) ==
    /\ pc[r] = "delete"
    /\ rows' = rows \ {next[r]}
    /\ orphans' = orphans + running[next[r]]
    /\ running' = [running EXCEPT ![next[r]] = 0]
    /\ next' = [next EXCEPT ![r] = @ - 1]
    /\ IF next[r] = num[r] + 1 THEN Goto(r, "done") ELSE UNCHANGED pc
    /\ UNCHANGED <<plans, user, planVars, num, wiped, drift, overlap>>

-----------------------------------------------------------------------------
(* onAdminCreateNewPlan looks, deletes the plan it may overwrite, inserts. *)
FindPlan(r) ==
    /\ pc[r] = "findPlan"
    /\ IF plans[name[r]] = NoRow
       THEN Goto(r, "insertPlan")
       ELSE Goto(r, "dropOld") \/ Goto(r, "failed")
    /\ UNCHANGED <<plans, user, rows, botVars, planVars, countVars, wiped, drift, overlap>>

(* A change of plan is at work with what it has read of the plan.          *)
Relied(p) ==
    \/ user # NoRow /\ user.plan = p
    \/ \E s \in Reqs : pc[s] \in Changing /\ (name[s] = p \/ (seen[s] # NoRow /\ seen[s].plan = p))

InsertPlan(r) ==
    /\ pc[r] = "insertPlan"
    /\ IF plans[name[r]] = NoRow
       THEN /\ plans' = [plans EXCEPT ![name[r]] = new[r]]
            /\ drift' = IF Relied(name[r]) THEN drift \cup {"edit"} ELSE drift
            /\ Goto(r, "done")
       ELSE Goto(r, "failed") /\ UNCHANGED <<plans, drift>>
    /\ UNCHANGED <<user, rows, botVars, planVars, countVars, wiped, overlap>>

(* Mutant: the users of the plan go with it.                              *)
DropPlanWithUsers(r) ==
    /\ pc[r] \in {"dropOld", "dropPlan"}
    /\ plans' = [plans EXCEPT ![name[r]] = NoRow]
    /\ user' = IF user # NoRow /\ user.plan = name[r] THEN NoRow ELSE user
    /\ Goto(r, IF pc[r] = "dropOld" THEN "insertPlan" ELSE "done")
    /\ UNCHANGED <<rows, botVars, planVars, countVars, wiped, drift, overlap>>

(* The first half of an overwriting, or all of onAdminDeletePlan.          *)
DropPlan(r) ==
    /\ pc[r] \in {"dropOld", "dropPlan"}
    /\ plans' = [plans EXCEPT ![name[r]] = NoRow]
    /\ Goto(r, IF pc[r] = "dropOld" THEN "insertPlan" ELSE "done")
    /\ UNCHANGED <<user, rows, botVars, planVars, countVars, wiped, drift, overlap>>

-----------------------------------------------------------------------------
Receive(r) ==
    /\ pc[r] = "idle"
    /\ \/ \E p \in Plans :
             /\ name' = [name EXCEPT ![r] = p]
             /\ \/ (Goto(r, "readUser") \/ Goto(r, "dropPlan")) /\ UNCHANGED new
                \/ \E row \in PlanRows :
                       new' = [new EXCEPT ![r] = row] /\ Goto(r, "findPlan")
             /\ UNCHANGED num
       \/ \E n \in 0 .. MaxId :
             /\ num' = [num EXCEPT ![r] = n]
             /\ Goto(r, "count")
             /\ UNCHANGED <<name, new>>
    /\ UNCHANGED <<plans, user, rows, botVars, seen, oldMax, next, wiped, drift, overlap>>

(* A statement the database does not execute ends the request.             *)
StatementFails(r) ==
    /\ pc[r] \notin {"idle", "done", "failed"}
    /\ Goto(r, "failed")
    /\ UNCHANGED <<plans, user, rows, botVars, planVars, countVars, wiped, drift, overlap>>

-----------------------------------------------------------------------------
(* startBot: CheckAndReduceCpytBalance of a bot that has a row.            *)
StartBot(b, n) ==
    /\ b \in rows /\ running[b] = 0
    /\ user # NoRow /\ n <= user.bal
    /\ user' = [user EXCEPT !.bal = @ - n]
    /\ running' = [running EXCEPT ![b] = n]
    /\ drift' = IF \E r \in Reqs : pc[r] \in Changing THEN drift \cup {"start"} ELSE drift
    /\ UNCHANGED <<plans, rows, orphans, pc, planVars, countVars, wiped, overlap>>

(* stopBot: AddBackToCpytBal, which finds the row or gives ErrNoUser.      *)
StopBot(b) ==
    /\ b \in rows /\ running[b] > 0
    /\ user' = IF user = NoRow THEN NoRow ELSE [user EXCEPT !.bal = @ + running[b]]
    /\ running' = [running EXCEPT ![b] = 0]
    /\ drift' = IF user = NoRow \/ \E r \in Reqs : pc[r] \in Changing
                THEN drift \cup {"stop"} ELSE drift
    /\ UNCHANGED <<plans, rows, orphans, pc, planVars, countVars, wiped, overlap>>

InUse == Total(running, rows)

(* fixCopyTradingBalance, for a start that finds too little: it counts the *)
(* bots that have rows. It divides by what remains, and panics on 0.       *)
FixCopyTradingBalance ==
    /\ user # NoRow /\ user.bal # 0 /\ plans[user.plan] # NoRow
    /\ \E b \in rows, n \in Amounts : running[b] = 0 /\ n > user.bal
    /\ user' = [user EXCEPT !.bal = plans[user.plan].max - InUse]
    /\ drift' = IF orphans > 0 THEN drift \cup {"orphan"} ELSE drift
    /\ UNCHANGED <<plans, rows, botVars, pc, planVars, countVars, wiped, overlap>>

Next ==
    \/ \E r \in Reqs :
          \/ Receive(r) \/ ReadUser(r) \/ ReadOld(r) \/ WipeUser(r) \/ ReadNew(r)
          \/ WriteUser(r) \/ Count(r) \/ InsertInstance(r) \/ DeleteInstance(r)
          \/ FindPlan(r) \/ InsertPlan(r) \/ DropPlan(r) \/ StatementFails(r)
    \/ \E b \in Ids : StopBot(b) \/ \E n \in Amounts : StartBot(b, n)
    \/ FixCopyTradingBalance

Spec == Init /\ [][Next]_vars

-----------------------------------------------------------------------------
(* A change of plan failed after it had wiped the user.                    *)
UserLost == \E r \in wiped : pc[r] = "failed"
Known == user # NoRow /\ plans[user.plan] # NoRow /\ ~UserLost
Granted == user.bal + InUse + orphans

(* What remains and what bots hold add up to the plan's maximum, whatever  *)
(* plans the user had before (handlersAdmin.go:165), unless a cause is     *)
(* named: a start or a stop during a change of plan, two changes at once,  *)
(* a plan rewritten under its users, a correction that misses a bot whose  *)
(* row was deleted, a user lost on the way. A stop that falls into a       *)
(* change of plan can only cost the user balance, and a start can only     *)
(* give too much.                                                          *)
BalanceCarried ==
    /\ Known /\ drift \subseteq {"stop"} => Granted <= plans[user.plan].max
    /\ Known /\ drift \subseteq {"start"} => Granted >= plans[user.plan].max

(* A bot that holds balance belongs to a user who has a row, or to one     *)
(* whom a request has wiped (handlersAdmin.go:136) and not written again.  *)
BotsHaveUser ==
    InUse + orphans > 0 /\ user = NoRow =>
        \E r \in wiped : pc[r] \in {"readNew", "writeUser", "failed"}

(* The bot_ids are 1 to the number of rows, also after a request that      *)
(* failed half way (handlersAdmin.go:196-264): SetNumInstances relies on   *)
(* it, and nothing repairs it. Two at once may break it.                   *)
Contiguous == overlap \/ rows = 1 .. Cardinality(rows)
=============================================================================
