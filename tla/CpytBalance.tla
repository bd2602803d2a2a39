---------------------------- MODULE CpytBalance ----------------------------
(***************************************************************************)
(* What the remaining copytrading balance of a user promises, whatever the *)
(* requests that use it do: an allocation is taken only from what is left, *)
(* it is given back at most once and in the amount that was taken, and     *)
(* nothing else changes the balance but a declared correction, which never *)
(* grants more than the plan.                                              *)
(***************************************************************************)
EXTENDS Integers

CONSTANTS
    Allocations,    \* what can hold a part of the balance
    Amounts,        \* the amounts an allocation can have
    MaxCTBalance    \* the plan's maximum

VARIABLES
    remaining,      \* the balance that is left
    held,           \* allocation -> the amount it holds, 0 for none
    correcting      \* the allocations on whose behalf a correction is under way

vars == <<remaining, held, correcting>>

Init ==
    /\ remaining = MaxCTBalance
    /\ held = [a \in Allocations |-> 0]
    /\ correcting = {}

Take(a, n) ==
    /\ held[a] = 0
    /\ n <= remaining
    /\ remaining' = remaining - n
    /\ held' = [held EXCEPT ![a] = n]
    /\ UNCHANGED correcting

Give(a) ==
    /\ remaining' = remaining + held[a]
    /\ held' = [held EXCEPT ![a] = 0]
    /\ UNCHANGED correcting

(* The amount is not given back: the bot was dropped without a stop.       *)
Forfeit(a) ==
    /\ held' = [held EXCEPT ![a] = 0]
    /\ UNCHANGED <<remaining, correcting>>

BeginCorrection(a) ==
    /\ a \notin correcting
    /\ correcting' = correcting \cup {a}
    /\ UNCHANGED <<remaining, held>>

EndCorrection(a) ==
    /\ a \in correcting
    /\ correcting' = correcting \ {a}
    /\ \/ UNCHANGED remaining
       \/ remaining' \in Int /\ remaining' <= MaxCTBalance
    /\ UNCHANGED held

Next ==
    \E a \in Allocations :
        \/ \E n \in Amounts : Take(a, n)
        \/ Give(a) \/ Forfeit(a)
        \/ BeginCorrection(a) \/ EndCorrection(a)

Spec == Init /\ [][Next]_vars
=============================================================================
