---------------------------- MODULE PositionDiff ----------------------------
(***************************************************************************)
(* comparePositions (trader.go:207-306): from the positions a trader had   *)
(* at the last poll and those it has now, the updates that every bot is    *)
(* to copy. The loop runs over the old positions; a new position that was  *)
(* matched is overwritten by the last of those still considered, and what  *)
(* is left in the end was opened. A position's hash is its symbol and side *)
(* (classes/funcs.go), its quantity the absolute one.                      *)
(***************************************************************************)
EXTENDS Integers, Sequences, FiniteSets

CONSTANTS
    Hashes,         \* symbol and side of a position
    Quantities,     \* absolute quantities
    MaxPositions    \* bound: the positions a trader has at a time

ASSUME ListAssumption == MaxPositions \in Nat

Positions == [hash : Hashes, qty : Quantities]
Updates == [type : {"change", "close", "open"}, position : Positions]

(* What a trader's positions can be: no hash comes twice.                  *)
Lists ==
    {list \in UNION {[1 .. n -> Positions] : n \in 0 .. MaxPositions} :
        \A i, j \in DOMAIN list : list[i].hash = list[j].hash => i = j}

VARIABLES
    old,        \* tr.positions
    new,        \* nPs as it was passed
    nPs,        \* nPs, overwritten as the loop goes
    upto,       \* how many of nPs are still considered (the code's upto + 1)
    next,       \* the next old position
    done,       \* the function has returned
    updates     \* the updates so far

diffVars == <<old, new, nPs, upto, next, done, updates>>

DiffTypeOK ==
    /\ old \in Seq(Positions) /\ new \in Seq(Positions) /\ nPs \in Seq(Positions)
    /\ upto \in 0 .. Len(nPs)
    /\ next \in 1 .. Len(old) + 1
    /\ done \in BOOLEAN
    /\ updates \in Seq(Updates)

DiffInit ==
    /\ old \in Lists /\ new \in Lists
    /\ nPs = new /\ upto = Len(new)
    /\ next = 1
    /\ done = FALSE
    /\ updates = <<>>

Found(k) == k \in 1 .. upto /\ nPs[k].hash = old[next].hash
Emit(type, position) == updates' = Append(updates, [type |-> type, position |-> position])

-----------------------------------------------------------------------------
(* Mutant: a matched position is not overwritten.                          *)
Match_KeepsMatched(k) ==
    /\ next <= Len(old)
    /\ Found(k)
    /\ IF nPs[k].qty = old[next].qty THEN UNCHANGED updates ELSE Emit("change", nPs[k])
    /\ upto' = upto - 1
    /\ next' = next + 1
    /\ UNCHANGED <<old, new, nPs, done>>

(* The old position is still there: an update if its quantity is another,  *)
(* and its place is given to the last position still considered.           *)
Match(k) ==
    /\ next <= Len(old)
    /\ Found(k)
    /\ IF nPs[k].qty = old[next].qty THEN UNCHANGED updates ELSE Emit("change", nPs[k])
    /\ nPs' = [nPs EXCEPT ![k] = nPs[upto]]
    /\ upto' = upto - 1
    /\ next' = next + 1
    /\ UNCHANGED <<old, new, done>>

Close ==
    /\ next <= Len(old)
    /\ \A k \in 1 .. upto : ~ Found(k)
    /\ Emit("close", old[next])
    /\ next' = next + 1
    /\ UNCHANGED <<old, new, nPs, upto, done>>

(* Mutant: the last position considered is taken to be removed already.    *)
Open_OneShort ==
    /\ next > Len(old) /\ ~ done
    /\ updates' = updates \o [k \in 1 .. upto - 1 |-> [type |-> "open", position |-> nPs[k]]]
    /\ done' = TRUE
    /\ UNCHANGED <<old, new, nPs, upto, next>>

(* Everything that is left was opened.                                     *)
Open ==
    /\ next > Len(old) /\ ~ done
    /\ updates' = updates \o [k \in 1 .. upto |-> [type |-> "open", position |-> nPs[k]]]
    /\ done' = TRUE
    /\ UNCHANGED <<old, new, nPs, upto, next>>

DiffNext == Close \/ Open \/ \E k \in 1 .. upto : Match(k)

DiffSpec == DiffInit /\ [][DiffNext]_diffVars

-----------------------------------------------------------------------------
Elements(list) == {list[i] : i \in DOMAIN list}
HashesOf(list) == {list[i].hash : i \in DOMAIN list}

(* Swapping matched positions out loses none: those still considered are   *)
(* the new positions that no old position so far had the hash of.          *)
NothingLost ==
    Elements(SubSeq(nPs, 1, upto))
    = {p \in Elements(new) : \A i \in 1 .. next - 1 : old[i].hash # p.hash}

(* The difference of the two lists, as sets of positions.                  *)
Difference ==
    {[type |-> "close", position |-> p] : p \in {p \in Elements(old) : p.hash \notin HashesOf(new)}}
    \cup {[type |-> "open", position |-> p] : p \in {p \in Elements(new) : p.hash \notin HashesOf(old)}}
    \cup {[type |-> "change", position |-> p] :
             p \in {p \in Elements(new) \ Elements(old) : p.hash \in HashesOf(old)}}

(* trader.go:203-205, "a list of changes that have been made": in the end  *)
(* every difference is reported, once, and nothing else is.                *)
DiffIsExact ==
    done => Elements(updates) = Difference /\ Len(updates) = Cardinality(Difference)
=============================================================================
