--------------------------- MODULE CopyingProofs ---------------------------
(***************************************************************************)
(* Proofs about the two algorithms of copying, which have no state in      *)
(* common: the quantities that are ordered (OrderSizing) and, in the       *)
(* second part, the updates that are copied (PositionDiff).                *)
(*   OrderSizing, for every lot size and every quantity: first the         *)
(* arithmetic of cutting a quantity, then one invariant per question:      *)
(* every order is legal, what is outstanding adds up to what was wished,   *)
(* quantities are multiples of the step, and the book and the account      *)
(* differ by what the orders of the call have done so far.                 *)
(*   PositionDiff, for lists of any length: the positions still considered *)
(* have different hashes (PrefixInv) and are the ones no old position so   *)
(* far has matched (NothingLost); the updates so far are the difference on *)
(* the hashes of the old positions so far, one for each (UpdatesInv).      *)
(***************************************************************************)
EXTENDS OrderSizing, PositionDiff, FiniteSetTheorems, FunctionTheorems, SequenceTheorems, TLAPS

-----------------------------------------------------------------------------
(* Division and remainders.                                                *)
LEMMA DivBounds ==
    ASSUME NEW n \in Nat, NEW d \in Nat \ {0}
    PROVE  /\ n \div d \in Nat
           /\ d * (n \div d) \in Nat /\ d * (n \div d) <= n /\ n < d * (n \div d) + d
  OBVIOUS

LEMMA MultipleMod ==
    ASSUME NEW k \in Nat, NEW d \in Nat \ {0}
    PROVE  (k * d) % d = 0
  OBVIOUS

LEMMA SumMod ==
    ASSUME NEW a \in Nat, NEW b \in Nat, NEW d \in Nat \ {0}, a % d = 0, b % d = 0
    PROVE  (a + b) % d = 0
<1> DEFINE k == a \div d
           m == b \div d
<1>1. k \in Nat /\ m \in Nat /\ a = k * d /\ b = m * d
  OBVIOUS
<1>2. a + b = (k + m) * d
  BY <1>1
<1>3. k + m \in Nat
  BY <1>1
<1> HIDE DEF k, m
<1> QED
  BY <1>2, <1>3, MultipleMod

LEMMA DiffMod ==
    ASSUME NEW a \in Nat, NEW b \in Nat, NEW d \in Nat \ {0}, a % d = 0, b % d = 0, b <= a
    PROVE  (a - b) % d = 0
<1> DEFINE k == a \div d
           m == b \div d
<1>1. k \in Nat /\ m \in Nat /\ a = k * d /\ b = m * d
  OBVIOUS
<1>2. a - b = (k - m) * d
  BY <1>1
<1>3. k - m \in Nat
  BY <1>1, <1>2
<1> HIDE DEF k, m
<1> QED
  BY <1>2, <1>3, MultipleMod

LEMMA SmallMod ==
    ASSUME NEW a \in Nat, NEW d \in Nat \ {0}, a % d = 0, a < d
    PROVE  a = 0
  OBVIOUS

LEMMA TimesPred ==
    ASSUME NEW m \in Nat, NEW n \in Nat, n > 0
    PROVE  m * n = m * (n - 1) + m
  OBVIOUS

(* A multiple of the step that fits into a quantity fits when it is cut.   *)
LEMMA MultipleFloor ==
    ASSUME NEW r \in Nat, NEW d \in Nat \ {0}, NEW m \in Nat, m % d = 0, m <= r
    PROVE  m <= (r \div d) * d
  OBVIOUS

-----------------------------------------------------------------------------
(* The lot size of the symbol that is traded.                              *)
LEMMA LotSize ==
    ASSUME TypeOK
    PROVE  /\ sym.min \in Nat \ {0} /\ sym.max \in Nat \ {0} /\ sym.step \in Nat \ {0}
           /\ sym.step <= sym.min /\ sym.min <= sym.max
           /\ sym.min % sym.step = 0 /\ sym.max % sym.step = 0
  BY SymbolAssumption DEF TypeOK

(* What getBulkQtyList makes of a quantity: it covers it up to less than   *)
(* the minimum, and the last order is one the exchange can accept.         *)
LEMMA BulkQtyList ==
    ASSUME TypeOK, NEW qty \in Nat
    PROVE  /\ NumMax(qty) \in Nat /\ sym.max * NumMax(qty) \in Nat
           /\ \/ /\ LastOrder(qty) = {}
                 /\ sym.max * NumMax(qty) <= qty
                 /\ qty < sym.max * NumMax(qty) + sym.min
              \/ \E r \in Nat :
                    /\ LastOrder(qty) = {r} /\ Legal(r)
                    /\ sym.max * NumMax(qty) + r <= qty
                    /\ qty < sym.max * NumMax(qty) + r + sym.min
<1> DEFINE rest == Remainder(qty)
           cut == (rest \div sym.step) * sym.step
<1>1. /\ NumMax(qty) \in Nat /\ sym.max * NumMax(qty) \in Nat
      /\ sym.max * NumMax(qty) <= qty /\ qty < sym.max * NumMax(qty) + sym.max
  BY LotSize, DivBounds DEF NumMax
<1>2. rest \in Nat /\ rest < sym.max /\ qty = sym.max * NumMax(qty) + rest
  BY <1>1, LotSize DEF Remainder
<1> HIDE DEF rest
<1>3. CASE rest < sym.min
  BY <1>1, <1>2, <1>3, LotSize DEF LastOrder, rest
<1>4. CASE ~ rest < sym.min
  <2>1. /\ rest \div sym.step \in Nat
        /\ sym.step * (rest \div sym.step) <= rest
        /\ rest < sym.step * (rest \div sym.step) + sym.step
    BY <1>2, LotSize, DivBounds
  <2>2. cut \in Nat /\ cut <= rest /\ rest < cut + sym.step
    BY <2>1, <1>2, LotSize
  <2>3. cut % sym.step = 0
    BY <2>1, LotSize, MultipleMod
  <2>4. sym.min <= cut
    <3>1. /\ sym.min \in Nat /\ sym.min % sym.step = 0
          /\ sym.step \in Nat \ {0} /\ rest \in Nat
      BY <1>2, LotSize
    <3>2. sym.min <= rest
      BY <3>1, <1>4
    <3> QED
      BY <3>1, <3>2, MultipleFloor
  <2>5. LastOrder(qty) = {cut}
    BY <1>4 DEF LastOrder, rest
  <2> HIDE DEF cut
  <2>6. Legal(cut)
    BY <2>2, <2>3, <2>4, <1>2, LotSize DEF Legal
  <2>7. /\ sym.max * NumMax(qty) + cut <= qty
        /\ qty < sym.max * NumMax(qty) + cut + sym.min
    BY <2>2, <1>1, <1>2, LotSize
  <2> QED
    BY <1>1, <2>2, <2>5, <2>6, <2>7
<1> QED
  BY <1>3, <1>4

LEMMA MaxIsLegal == TypeOK => Legal(sym.max)
  BY LotSize DEF Legal

-----------------------------------------------------------------------------
(* What the orders without a result add up to.                             *)
Rest(orders) == IF orders = {} THEN 0 ELSE CHOOSE r \in orders : TRUE
Outstanding(s, f, orders) == s.max * f + Rest(orders)

LastInv == last = {} \/ \E r \in Nat : last = {r} /\ Legal(r)

(* Accepted and outstanding orders cover what was wished.                  *)
SizeInv ==
    /\ LastInv
    /\ filled + Outstanding(sym, full, last) <= wish
    /\ ~refused => wish < filled + Outstanding(sym, full, last) + sym.min

StepInv == account % sym.step = 0 /\ book % sym.step = 0

(* How book and account differ while a call is under way.                  *)
SyncInv ==
    /\ call = "none" => Collected
    /\ held => call # "open"
    /\ call \in {"add", "reduce", "close"} => held
    /\ call = "reduce" => wish < book
    /\ call = "close" => wish = book
    /\ call = "open" /\ filled > 0 => account > 0
    /\ ~unread =>
          /\ held => book > 0
          /\ held /\ call = "none" => account = book
          /\ call = "add" => account = book + filled
          /\ Reducing => account + filled = book

Dust(qty) == qty < sym.min /\ (sym.min = sym.step => qty = 0)

(* Before an open has filled anything there is at most dust.               *)
FreeInv ==
    ~held /\ ~abandoned /\ ~unread /\ (call = "none" \/ (call = "open" /\ filled = 0))
    => Dust(account)

IInv == TypeOK /\ SizeInv /\ StepInv /\ SyncInv /\ FreeInv /\ PanicNeedsDust

-----------------------------------------------------------------------------
LEMMA OutstandingNat ==
    ASSUME TypeOK, LastInv
    PROVE  Rest(last) \in Nat /\ sym.max * full \in Nat /\ Outstanding(sym, full, last) \in Nat
<1>1. Rest(last) \in Nat
  BY DEF Rest, LastInv
<1>2. sym.max * full \in Nat
  BY LotSize DEF TypeOK
<1> QED
  BY <1>1, <1>2 DEF Outstanding

(* placeOrder begins with orders for all of the quantity.                  *)
LEMMA PlaceSize ==
    ASSUME TypeOK, NEW qty \in Nat, PlaceOrder(qty), sym' = sym
    PROVE  /\ SizeInv'
           /\ wish' = qty /\ filled' = 0 /\ refused' = FALSE
           /\ full' \in Nat /\ last' \in SUBSET Nat
<1>1. /\ wish' = qty /\ filled' = 0 /\ refused' = FALSE
      /\ full' = NumMax(qty) /\ last' = LastOrder(qty)
  BY DEF PlaceOrder
<1>2. NumMax(qty) \in Nat /\ sym.max * NumMax(qty) \in Nat
  BY BulkQtyList
<1>3. CASE LastOrder(qty) = {}
  <2>1. Rest(last') = 0 /\ Outstanding(sym', full', last') = sym.max * NumMax(qty)
    BY <1>1, <1>2, <1>3 DEF Rest, Outstanding
  <2>2. sym.max * NumMax(qty) <= qty /\ qty < sym.max * NumMax(qty) + sym.min
    BY <1>3, BulkQtyList
  <2> QED
    BY <1>1, <1>2, <1>3, <2>1, <2>2, LotSize DEF SizeInv, LastInv
<1>4. CASE LastOrder(qty) # {}
  <2>1. PICK r \in Nat :
           /\ LastOrder(qty) = {r} /\ Legal(r)
           /\ sym.max * NumMax(qty) + r <= qty
           /\ qty < sym.max * NumMax(qty) + r + sym.min
    BY <1>4, BulkQtyList
  <2>2. Rest(last') = r /\ Outstanding(sym', full', last') = sym.max * NumMax(qty) + r
    BY <1>1, <2>1 DEF Rest, Outstanding
  <2>3. LastInv'
    BY <1>1, <2>1 DEF LastInv, Legal
  <2> QED
    BY <1>1, <1>2, <2>1, <2>2, <2>3, LotSize DEF SizeInv
<1> QED
  BY <1>3, <1>4

(* A result takes one legal order off what is outstanding.                 *)
LEMMA ResultOrder ==
    ASSUME TypeOK, LastInv, Result
    PROVE  \E qty \in Nat :
              /\ Legal(qty) /\ qty > 0
              /\ LastInv' /\ full' \in Nat /\ last' \in SUBSET Nat
              /\ Outstanding(sym', full', last') \in Nat /\ Outstanding(sym, full, last) = Outstanding(sym', full', last') + qty
              /\ Accept(qty) \/ Refuse
<1>1. sym' = sym
  BY DEF Result
<1>2. CASE /\ full > 0 /\ full' = full - 1 /\ last' = last
           /\ Accept(sym.max) \/ Refuse
  <2>1. Legal(sym.max) /\ sym.max \in Nat /\ sym.max > 0
    BY MaxIsLegal, LotSize
  <2>2. LastInv'
    BY <1>1, <1>2 DEF LastInv, Legal
  <2>3. Rest(last') = Rest(last) /\ full' \in Nat
    BY <1>2 DEF Rest, TypeOK
  <2>4. sym.max * full = sym.max * (full - 1) + sym.max /\ sym.max * (full - 1) \in Nat
    BY <1>2, <2>1, TimesPred DEF TypeOK
  <2>5. Outstanding(sym', full', last') \in Nat /\ Outstanding(sym, full, last) = Outstanding(sym', full', last') + sym.max
    BY <1>1, <1>2, <2>1, <2>3, <2>4, OutstandingNat DEF Outstanding
  <2> QED
    BY <1>2, <2>1, <2>2, <2>3, <2>5 DEF TypeOK
<1>3. CASE \E qty \in last :
             last' = last \ {qty} /\ full' = full /\ (Accept(qty) \/ Refuse)
  <2>1. PICK qty \in last :
             last' = last \ {qty} /\ full' = full /\ (Accept(qty) \/ Refuse)
    BY <1>3
  <2>2. last = {qty} /\ Legal(qty) /\ qty \in Nat
    BY <2>1 DEF LastInv
  <2>3. last' = {} /\ LastInv'
    BY <2>1, <2>2 DEF LastInv
  <2>4. Rest(last) = qty /\ Rest(last') = 0
    BY <2>2, <2>3 DEF Rest
  <2>5. Outstanding(sym', full', last') \in Nat /\ Outstanding(sym, full, last) = Outstanding(sym', full', last') + qty
    BY <1>1, <2>1, <2>2, <2>4, OutstandingNat DEF Outstanding
  <2>6. qty > 0
    BY <2>2, LotSize DEF Legal
  <2> QED
    BY <2>1, <2>2, <2>3, <2>5, <2>6 DEF TypeOK
<1> QED
  BY <1>2, <1>3 DEF Result

-----------------------------------------------------------------------------
LEMMA InitIInv == Init => IInv
<1> SUFFICES ASSUME Init PROVE IInv
  OBVIOUS
<1>1. TypeOK
  BY DEF Init, TypeOK
<1>2. SizeInv
  <2>1. Rest(last) = 0 /\ Outstanding(sym, full, last) = 0
    BY <1>1, LotSize DEF Init, Rest, Outstanding
  <2> QED
    BY <1>1, <2>1, LotSize DEF Init, SizeInv, LastInv
<1>3. StepInv
  BY <1>1, LotSize DEF Init, StepInv
<1> QED
  BY <1>1, <1>2, <1>3, LotSize DEF Init, IInv, SyncInv, FreeInv, Dust, PanicNeedsDust, Reducing, Collected

(* A call is begun: its orders are for the quantity it has chosen.         *)
LEMMA OpenIInv ==
    ASSUME IInv, NEW qty \in Nat, OpenPosition(qty)
    PROVE  IInv'
<1>1. sym' = sym /\ PlaceOrder(qty)
  BY DEF OpenPosition
<1>2. /\ SizeInv' /\ wish' = qty /\ filled' = 0 /\ refused' = FALSE
      /\ full' \in Nat /\ last' \in SUBSET Nat
  BY <1>1, PlaceSize DEF IInv
<1>3. TypeOK'
  BY <1>2 DEF IInv, TypeOK, OpenPosition, bookVars, historyVars
<1>4. StepInv' /\ PanicNeedsDust'
  BY DEF IInv, StepInv, PanicNeedsDust, OpenPosition, historyVars, bookVars
<1>5. SyncInv' /\ FreeInv'
  BY <1>2 DEF IInv, SyncInv, FreeInv, Dust, Reducing, OpenPosition, historyVars, bookVars
<1> QED
  BY <1>2, <1>3, <1>4, <1>5 DEF IInv

LEMMA ChangeIInv ==
    ASSUME IInv, NEW kind \in {"add", "reduce"}, NEW qty \in Nat, ChangePosition(kind, qty)
    PROVE  IInv'
<1>1. sym' = sym /\ PlaceOrder(qty)
  BY DEF ChangePosition
<1>2. /\ SizeInv' /\ wish' = qty /\ filled' = 0 /\ refused' = FALSE
      /\ full' \in Nat /\ last' \in SUBSET Nat
  BY <1>1, PlaceSize DEF IInv
<1>3. TypeOK'
  BY <1>2 DEF IInv, TypeOK, ChangePosition, bookVars, historyVars
<1>4. StepInv' /\ PanicNeedsDust'
  BY DEF IInv, StepInv, PanicNeedsDust, ChangePosition, historyVars, bookVars
<1>5. SyncInv' /\ FreeInv'
  BY <1>2 DEF IInv, TypeOK, SyncInv, FreeInv, Reducing, ChangePosition, historyVars, bookVars
<1> QED
  BY <1>2, <1>3, <1>4, <1>5 DEF IInv

(* A position that is in step with the account and whose minimum is the    *)
(* step has an order to close it.                                          *)
LEMMA Closable ==
    ASSUME IInv, held, call = "none", ~unread, sym.min = sym.step
    PROVE  ~(NumMax(book) = 0 /\ LastOrder(book) = {})
<1>1. book \in Nat /\ book > 0 /\ book % sym.step = 0
  BY DEF IInv, TypeOK, SyncInv, StepInv
<1>2. sym.step \in Nat \ {0} /\ sym.min <= book
  BY <1>1, SmallMod, LotSize DEF IInv
<1> SUFFICES ASSUME NumMax(book) = 0, LastOrder(book) = {}
             PROVE  FALSE
  OBVIOUS
<1>3. sym.max * NumMax(book) = 0
  BY LotSize DEF IInv
<1>4. \/ book < sym.max * NumMax(book) + sym.min
      \/ \E r \in Nat : LastOrder(book) = {r}
  BY <1>1, BulkQtyList DEF IInv
<1> QED
  BY <1>1, <1>2, <1>3, <1>4, LotSize DEF IInv

LEMMA CloseIInv ==
    ASSUME IInv, ClosePosition
    PROVE  IInv'
<1>1. sym' = sym /\ account' = account /\ held' = held /\ book' = book /\ call = "none" /\ held
      /\ abandoned' = abandoned /\ unread' = unread
  BY DEF ClosePosition, bookVars
<1>2. CASE NumMax(book) = 0 /\ LastOrder(book) = {}
  <2>1. panicked' = TRUE /\ UNCHANGED <<call, orderVars>>
    BY <1>2 DEF ClosePosition
  <2>2. sym.min > sym.step \/ unread
    BY <1>1, <1>2, Closable, LotSize DEF IInv
  <2>3. TypeOK' /\ StepInv' /\ SyncInv' /\ FreeInv'
    BY <1>1, <2>1 DEF IInv, TypeOK, StepInv, SyncInv, FreeInv, Dust, Reducing, Collected, orderVars
  <2>4. SizeInv'
    BY <1>1, <2>1 DEF IInv, SizeInv, LastInv, Legal, Outstanding, Rest, orderVars
  <2> QED
    BY <1>1, <2>1, <2>2, <2>3, <2>4 DEF IInv, PanicNeedsDust
<1>3. CASE ~(NumMax(book) = 0 /\ LastOrder(book) = {})
  <2>1. call' = "close" /\ PlaceOrder(book) /\ panicked' = panicked
    BY <1>3 DEF ClosePosition
  <2>2. /\ SizeInv' /\ wish' = book /\ filled' = 0 /\ refused' = FALSE
        /\ full' \in Nat /\ last' \in SUBSET Nat
    BY <1>1, <2>1, PlaceSize DEF IInv, TypeOK
  <2>3. TypeOK'
    BY <1>1, <2>1, <2>2 DEF IInv, TypeOK
  <2>4. StepInv' /\ PanicNeedsDust'
    BY <1>1, <2>1 DEF IInv, StepInv, PanicNeedsDust
  <2>5. SyncInv' /\ FreeInv'
    BY <1>1, <2>1, <2>2 DEF IInv, TypeOK, SyncInv, FreeInv, Reducing
  <2> QED
    BY <2>2, <2>3, <2>4, <2>5 DEF IInv
<1> QED
  BY <1>2, <1>3

-----------------------------------------------------------------------------
(* A result: while book and account are known to differ by what was        *)
(* filled, the account holds all that is outstanding of a reduction.       *)
LEMMA ResultIInv ==
    ASSUME IInv, Result
    PROVE  IInv'
<1>1. /\ sym' = sym /\ held' = held /\ book' = book /\ call' = call /\ wish' = wish
      /\ abandoned' = abandoned /\ unread' = unread /\ panicked' = panicked
  BY DEF Result, bookVars, historyVars
<1>2. TypeOK /\ LastInv
  BY DEF IInv, SizeInv
<1>3. PICK qty \in Nat :
         /\ Legal(qty) /\ qty > 0
         /\ LastInv' /\ full' \in Nat /\ last' \in SUBSET Nat
         /\ Outstanding(sym', full', last') \in Nat /\ Outstanding(sym, full, last) = Outstanding(sym', full', last') + qty
         /\ Accept(qty) \/ Refuse
  BY <1>2, ResultOrder
<1>4. PanicNeedsDust'
  BY <1>1 DEF IInv, PanicNeedsDust
<1>7. /\ Outstanding(sym, full, last) \in Nat /\ Outstanding(sym', full', last') \in Nat /\ Outstanding(sym, full, last) = Outstanding(sym', full', last') + qty
      /\ filled \in Nat /\ wish \in Nat /\ sym.min \in Nat
  BY <1>2, <1>3, OutstandingNat, LotSize DEF TypeOK
<1>5. CASE Refuse
  <2>1. refused' = TRUE /\ account' = account /\ filled' = filled
    BY <1>5 DEF Refuse
  <2>2. TypeOK' /\ StepInv' /\ SyncInv' /\ FreeInv'
    BY <1>1, <1>3, <2>1
    DEF IInv, TypeOK, StepInv, SyncInv, FreeInv, Dust, Reducing, Collected, Result
  <2>3. SizeInv'
    BY <1>1, <1>2, <1>3, <2>1, LotSize DEF IInv, SizeInv, TypeOK
  <2> QED
    BY <1>4, <2>2, <2>3 DEF IInv
<1>6. CASE Accept(qty)
  <2>1. /\ filled' = filled + qty /\ refused' = refused
        /\ account' = IF ~Reducing THEN account + qty
                      ELSE IF qty < account THEN account - qty ELSE 0
    BY <1>6 DEF Accept
  <2>2. account' \in Nat /\ filled' \in Nat
    BY <1>2, <2>1 DEF TypeOK
  <2>3. TypeOK'
    BY <1>1, <1>2, <1>3, <2>1, <2>2 DEF TypeOK
  <2>4. SizeInv'
    BY <1>1, <1>2, <1>3, <2>1, LotSize DEF IInv, SizeInv, TypeOK
  <2>5. StepInv'
    <3>1. /\ account \in Nat /\ account % sym.step = 0 /\ sym.step \in Nat \ {0}
          /\ qty % sym.step = 0
      BY <1>2, <1>3, LotSize DEF IInv, StepInv, TypeOK, Legal
    <3>2. (account + qty) % sym.step = 0
      BY <3>1, SumMod
    <3>3. qty < account => (account - qty) % sym.step = 0
      BY <3>1, DiffMod
    <3>4. 0 % sym.step = 0
      BY <3>1
    <3>5. account' % sym.step = 0
      BY <2>1, <3>2, <3>3, <3>4
    <3> QED
      BY <1>1, <3>5 DEF IInv, StepInv
  <2>6. Reducing /\ ~unread => account' + filled' = book
    <3> SUFFICES ASSUME Reducing, ~unread
                 PROVE  account' + filled' = book
      OBVIOUS
    <3>1. account + filled = book /\ wish <= book
      BY <1>2 DEF IInv, SyncInv, Reducing, TypeOK
    <3>2. filled + qty <= wish
      BY <1>7 DEF IInv, SizeInv
    <3>3. qty <= account
      BY <1>2, <3>1, <3>2 DEF TypeOK
    <3> QED
      BY <1>2, <2>1, <3>1, <3>3 DEF TypeOK
  <2>7. filled' > 0 /\ call # "none"
    BY <1>3, <1>7, <2>1 DEF IInv, SyncInv, Collected, Result
  <2>8. SyncInv'
    <3>1. ~Reducing => account' = account + qty /\ account' > 0
      BY <1>2, <1>3, <2>1 DEF TypeOK
    <3>2. call = "add" /\ ~unread => account' = book + filled'
      BY <1>2, <1>3, <2>1, <3>1 DEF IInv, SyncInv, TypeOK, Reducing
    <3> QED
      BY <1>1, <2>6, <2>7, <3>1, <3>2 DEF IInv, SyncInv, Reducing
  <2>9. FreeInv'
    BY <1>1, <2>7 DEF FreeInv, TypeOK
  <2> QED
    BY <1>4, <2>3, <2>4, <2>5, <2>8, <2>9 DEF IInv
<1> QED
  BY <1>3, <1>5, <1>6

-----------------------------------------------------------------------------
(* What the end of a call leaves of the invariants about its orders.       *)
LEMMA SizeKept ==
    ASSUME SizeInv, UNCHANGED <<sym, orderVars>>
    PROVE  SizeInv'
  BY DEF SizeInv, LastInv, Legal, orderVars

LEMMA EndOpenIInv ==
    ASSUME IInv, EndOpen
    PROVE  IInv'
<1>1. /\ call = "open" /\ call' = "none" /\ ~held /\ Collected
      /\ UNCHANGED <<sym, account, orderVars, abandoned, panicked>>
  BY DEF IInv, SyncInv, EndOpen
<1>2. SizeInv' /\ Collected'
  BY <1>1, SizeKept DEF IInv, Collected, orderVars
<1>3. CASE filled = 0 /\ UNCHANGED <<bookVars, unread>>
  BY <1>1, <1>2, <1>3
  DEF IInv, TypeOK, StepInv, SyncInv, FreeInv, Dust, PanicNeedsDust, Reducing, orderVars, bookVars
<1>4. CASE filled > 0 /\ held' = TRUE /\ book' = account /\ unread' = unread
  BY <1>1, <1>2, <1>4
  DEF IInv, TypeOK, StepInv, SyncInv, FreeInv, PanicNeedsDust, Reducing, orderVars
<1>5. CASE unread' = TRUE /\ UNCHANGED bookVars
  BY <1>1, <1>2, <1>5
  DEF IInv, TypeOK, StepInv, SyncInv, FreeInv, PanicNeedsDust, Reducing, orderVars, bookVars
<1> QED
  BY <1>3, <1>4, <1>5 DEF EndOpen

LEMMA EndChangeIInv ==
    ASSUME IInv, EndChange
    PROVE  IInv'
<1>1. /\ call \in {"add", "reduce"} /\ call' = "none" /\ held /\ Collected
      /\ UNCHANGED <<sym, account, held, orderVars, abandoned, panicked>>
  BY DEF IInv, SyncInv, EndChange
<1>2. SizeInv' /\ Collected'
  BY <1>1, SizeKept DEF IInv, Collected, orderVars
<1>3. TypeOK
  BY DEF IInv
<1>4. filled <= wish
  <2>1. Outstanding(sym, full, last) \in Nat
    BY <1>3, OutstandingNat DEF IInv, SizeInv
  <2> QED
    BY <1>3, <2>1 DEF IInv, SizeInv, TypeOK
<1>5. ~unread => account > 0
  BY <1>1, <1>3, <1>4 DEF IInv, SyncInv, Reducing, TypeOK
<1>6. CASE book' = account /\ unread' = unread
  BY <1>1, <1>2, <1>3, <1>5, <1>6
  DEF IInv, TypeOK, StepInv, SyncInv, FreeInv, PanicNeedsDust, Reducing, orderVars
<1>7. CASE unread' = (unread \/ filled > 0) /\ book' = book
  <2>1. ~unread' => ~unread /\ account = book
    <3>1. ~unread' => ~unread /\ ~(filled > 0)
      BY <1>7, Zenon
    <3>2. ~(filled > 0) => filled = 0
      BY <1>3 DEF TypeOK
    <3>3. ~unread /\ filled = 0 => account = book
      BY <1>1, <1>3 DEF IInv, SyncInv, Reducing, TypeOK
    <3> QED
      BY <3>1, <3>2, <3>3
  <2> QED
    BY <1>1, <1>2, <1>3, <1>7, <2>1
    DEF IInv, TypeOK, StepInv, SyncInv, FreeInv, PanicNeedsDust, Reducing, orderVars
<1> QED
  BY <1>6, <1>7 DEF EndChange

(* A close that nobody refused has left less than the minimum.             *)
LEMMA EndCloseIInv ==
    ASSUME IInv, EndClose
    PROVE  IInv'
<1>1. /\ call = "close" /\ call' = "none" /\ held' = FALSE /\ book' = 0 /\ Collected
      /\ abandoned' = (abandoned \/ refused)
      /\ UNCHANGED <<sym, account, orderVars, unread, panicked>>
  BY DEF EndClose
<1>2. SizeInv' /\ Collected'
  BY <1>1, SizeKept DEF IInv, Collected, orderVars
<1>3. TypeOK /\ sym.min \in Nat \ {0} /\ sym.step \in Nat \ {0}
  BY LotSize DEF IInv
<1>4. ~unread /\ ~refused => Dust(account)
  <2> SUFFICES ASSUME ~unread, ~refused
               PROVE  Dust(account)
    OBVIOUS
  <2>1. Outstanding(sym, full, last) = 0
    BY <1>1, <1>3, LotSize DEF Collected, Outstanding, Rest
  <2>2. account + filled = wish /\ wish < filled + sym.min
    BY <1>1, <1>3, <2>1 DEF IInv, SyncInv, SizeInv, Reducing, TypeOK
  <2>3. account < sym.min
    BY <1>3, <2>2 DEF TypeOK
  <2>4. account \in Nat /\ account % sym.step = 0
    BY <1>3 DEF IInv, StepInv, TypeOK
  <2>5. sym.min = sym.step => account = 0
    BY <1>3, <2>3, <2>4, SmallMod
  <2> QED
    BY <2>3, <2>5 DEF Dust
<1>5. 0 % sym.step = 0
  BY <1>3
<1>6. TypeOK' /\ StepInv'
  BY <1>1, <1>3, <1>5 DEF IInv, TypeOK, StepInv, orderVars
<1>7. SyncInv' /\ FreeInv'
  BY <1>1, <1>2, <1>4 DEF SyncInv, FreeInv, Dust, Reducing
<1> QED
  BY <1>1, <1>2, <1>6, <1>7 DEF IInv, PanicNeedsDust

-----------------------------------------------------------------------------
LEMMA StutterIInv ==
    ASSUME IInv, UNCHANGED vars
    PROVE  IInv'
<1>1. SizeInv'
  BY SizeKept DEF IInv, vars
<1> QED
  BY <1>1 DEF IInv, vars, TypeOK, StepInv, SyncInv, FreeInv, Dust, PanicNeedsDust,
              Reducing, Collected, orderVars, bookVars, historyVars

LEMMA NextIInv == IInv /\ [Next]_vars => IInv'
<1> SUFFICES ASSUME IInv, [Next]_vars
             PROVE  IInv'
  OBVIOUS
<1>1. ASSUME NEW qty \in 1 .. MaxQty - account, OpenPosition(qty)
      PROVE  IInv'
  <2>1. qty \in Nat
    BY BoundAssumption DEF IInv, TypeOK
  <2> QED
    BY <1>1, <2>1, OpenIInv
<1>2. ASSUME NEW qty \in 1 .. MaxQty - account, ChangePosition("add", qty)
      PROVE  IInv'
  <2>1. qty \in Nat
    BY BoundAssumption DEF IInv, TypeOK
  <2> QED
    BY <1>2, <2>1, ChangeIInv
<1>3. ASSUME NEW qty \in 1 .. MaxQty, ChangePosition("reduce", qty)
      PROVE  IInv'
  <2>1. qty \in Nat
    BY BoundAssumption
  <2> QED
    BY <1>3, <2>1, ChangeIInv
<1>4. CASE ClosePosition
  BY <1>4, CloseIInv
<1>5. CASE Result
  BY <1>5, ResultIInv
<1>6. CASE EndOpen
  BY <1>6, EndOpenIInv
<1>7. CASE EndChange
  BY <1>7, EndChangeIInv
<1>8. CASE EndClose
  BY <1>8, EndCloseIInv
<1>9. CASE UNCHANGED vars
  BY <1>9, StutterIInv
<1> QED
  BY <1>1, <1>2, <1>3, <1>4, <1>5, <1>6, <1>7, <1>8, <1>9 DEF Next

LEMMA Inductive == Spec => []IInv
<1>1. Init => IInv
  BY InitIInv
<1>2. IInv /\ [Next]_vars => IInv'
  BY NextIInv
<1> QED
  BY <1>1, <1>2, PTL DEF Spec

-----------------------------------------------------------------------------
(* Every reachable state has the declared types: no order or position has  *)
(* a negative quantity.                                                    *)
THEOREM TypeCorrect == Spec => []TypeOK
<1>1. IInv => TypeOK
  BY DEF IInv
<1> QED
  BY <1>1, Inductive, PTL

(* getBulkQtyList makes orders the exchange can accept, for every lot size *)
(* and every quantity.                                                     *)
THEOREM LegalOrders == Spec => []OrdersLegal
<1>1. IInv => OrdersLegal
  BY MaxIsLegal DEF IInv, SizeInv, LastInv, OrdersLegal
<1> QED
  BY <1>1, Inductive, PTL

(* Orders nobody refused are what was wished up to less than the minimum.  *)
THEOREM InFull == Spec => []OrderedInFull
<1>1. IInv => OrderedInFull
  <2> SUFFICES ASSUME IInv, Collected, ~refused
               PROVE  filled <= wish /\ wish - filled < sym.min
    BY DEF OrderedInFull
  <2>1. TypeOK /\ sym.max \in Nat /\ sym.min \in Nat
    BY LotSize DEF IInv
  <2>2. Outstanding(sym, full, last) = 0
    BY <2>1 DEF Collected, Outstanding, Rest
  <2> QED
    BY <2>1, <2>2 DEF IInv, SizeInv, TypeOK
<1> QED
  BY <1>1, Inductive, PTL

(* The account is what the book says but for dust, except after a refused  *)
(* close or a failed read.                                                 *)
THEOREM NothingLeftBehind == Spec => []LeftBehind
<1>1. IInv => LeftBehind
  BY DEF IInv, SyncInv, FreeInv, Dust, LeftBehind
<1> QED
  BY <1>1, Inductive, PTL

(* A close finds no order to place only for the reasons named.             *)
THEOREM PanicOnlyForDust == Spec => []PanicNeedsDust
<1>1. IInv => PanicNeedsDust
  BY DEF IInv
<1> QED
  BY <1>1, Inductive, PTL

-----------------------------------------------------------------------------
(* The comparison of a trader's positions.                                 *)
Distinct(list) ==
    \A i, j \in 1 .. Len(list) : list[i].hash = list[j].hash => i = j

(* The hashes of the old positions the loop has passed.                    *)
Passed == {old[i].hash : i \in 1 .. next - 1}

ListInv == Distinct(old) /\ Distinct(new) /\ Len(nPs) = Len(new)

PrefixInv == \A i, j \in 1 .. upto : nPs[i].hash = nPs[j].hash => i = j

(* Swapping loses nothing, said of the indices.                            *)
RestInv ==
    /\ \A i \in 1 .. upto : nPs[i].hash \notin Passed /\ \E k \in 1 .. Len(new) : nPs[i] = new[k]
    /\ \A k \in 1 .. Len(new) : new[k].hash \notin Passed => \E i \in 1 .. upto : new[k] = nPs[i]

(* The updates are differences of passed hashes, each of another one, and  *)
(* none of those is missing.                                               *)
UpdatesInv ==
    ~done =>
        /\ \A i \in 1 .. Len(updates) :
              updates[i].position.hash \in Passed /\ updates[i] \in Difference
        /\ \A i, j \in 1 .. Len(updates) :
              updates[i].position.hash = updates[j].position.hash => i = j
        /\ \A u \in Difference :
              u.position.hash \in Passed => \E i \in 1 .. Len(updates) : updates[i] = u

DoneInv == done => next = Len(old) + 1

DiffInv == DiffTypeOK /\ DoneInv /\ ListInv /\ PrefixInv /\ RestInv /\ UpdatesInv /\ DiffIsExact

-----------------------------------------------------------------------------
(* The elements of a list, by index.                                       *)
LEMMA ElementsOfList ==
    ASSUME NEW S, NEW list \in Seq(S)
    PROVE  /\ Elements(list) = {list[i] : i \in 1 .. Len(list)}
           /\ Elements(list) \subseteq S
  BY DEF Elements

LEMMA ElementsOfPrefix ==
    ASSUME NEW S, NEW list \in Seq(S), NEW n \in 0 .. Len(list)
    PROVE  Elements(SubSeq(list, 1, n)) = {list[i] : i \in 1 .. n}
<1>1. \A i \in 1 .. n : list[i] \in S
  BY LenProperties
<1>2. /\ SubSeq(list, 1, n) \in Seq(S)
      /\ Len(SubSeq(list, 1, n)) = n
      /\ \A i \in 1 .. n : SubSeq(list, 1, n)[i] = list[i]
  BY <1>1, SubSeqProperties
<1>3. Elements(SubSeq(list, 1, n)) = {SubSeq(list, 1, n)[i] : i \in 1 .. n}
  BY <1>2, ElementsOfList
<1> HIDE DEF Elements
<1> QED
  BY <1>2, <1>3

LEMMA OneOfEachHash ==
    ASSUME NEW list \in Seq(Positions), Distinct(list),
           NEW p \in Elements(list), NEW q \in Elements(list), p.hash = q.hash
    PROVE  p = q
  BY ElementsOfList DEF Distinct

(* A list without repetitions is as long as the set of its elements.       *)
LEMMA DistinctLength ==
    ASSUME NEW S, NEW list \in Seq(S),
           \A i, j \in 1 .. Len(list) : list[i] = list[j] => i = j
    PROVE  Len(list) = Cardinality(Elements(list))
<1>1. list \in [1 .. Len(list) -> Elements(list)]
  BY ElementsOfList
<1>2. list \in Bijection(1 .. Len(list), Elements(list))
  BY <1>1, ElementsOfList DEF Bijection, Injection, Surjection, IsInjective
<1>3. ExistsBijection(1 .. Len(list), Elements(list))
  BY <1>2 DEF ExistsBijection
<1> QED
  BY <1>3, FS_CountingElements

-----------------------------------------------------------------------------
(* The difference, by cases.                                               *)
LEMMA DifferenceCases ==
    ASSUME DiffTypeOK, NEW u
    PROVE  u \in Difference <=>
              \E p \in Positions :
                 \/ /\ u = [type |-> "close", position |-> p]
                    /\ p \in Elements(old) /\ p.hash \notin HashesOf(new)
                 \/ /\ u = [type |-> "open", position |-> p]
                    /\ p \in Elements(new) /\ p.hash \notin HashesOf(old)
                 \/ /\ u = [type |-> "change", position |-> p]
                    /\ p \in Elements(new) /\ p \notin Elements(old)
                    /\ p.hash \in HashesOf(old)
<1>1. Elements(old) \subseteq Positions /\ Elements(new) \subseteq Positions
  BY ElementsOfList DEF DiffTypeOK
<1> HIDE DEF Elements
<1> QED
  BY <1>1 DEF Difference

LEMMA DiffInitInv == DiffInit => DiffInv
<1> SUFFICES ASSUME DiffInit PROVE DiffInv
  OBVIOUS
<1>1. \A list \in Lists : list \in Seq(Positions) /\ Distinct(list)
  BY DEF Lists, Distinct
<1>2. DiffTypeOK
  <2>1. Len(old) \in Nat /\ Len(new) \in Nat /\ <<>> \in Seq(Updates)
    BY <1>1, LenProperties, EmptySeq DEF DiffInit
  <2>2. old \in Seq(Positions) /\ new \in Seq(Positions) /\ nPs \in Seq(Positions)
    BY <1>1 DEF DiffInit
  <2>3. upto \in 0 .. Len(nPs) /\ next \in 1 .. Len(old) + 1
    BY <2>1 DEF DiffInit
  <2> QED
    BY <2>1, <2>2, <2>3 DEF DiffInit, DiffTypeOK
<1>3. ListInv /\ PrefixInv
  BY <1>1 DEF DiffInit, ListInv, PrefixInv, Distinct
<1>4. Passed = {}
  BY DEF DiffInit, Passed
<1>5. RestInv
  BY <1>4 DEF DiffInit, RestInv
<1>6. UpdatesInv /\ DiffIsExact /\ DoneInv
  BY <1>4 DEF DiffInit, UpdatesInv, DiffIsExact, DoneInv
<1> QED
  BY <1>2, <1>3, <1>5, <1>6 DEF DiffInv
-----------------------------------------------------------------------------
(* Two differences of one hash are the same.                               *)
LEMMA OneDifferenceEach ==
    ASSUME DiffTypeOK, ListInv, NEW u \in Difference, NEW v \in Difference,
           u.position.hash = v.position.hash
    PROVE  u = v
<1>1. \A p, q \in Elements(old) : p.hash = q.hash => p = q
  BY OneOfEachHash DEF DiffTypeOK, ListInv
<1>2. \A p, q \in Elements(new) : p.hash = q.hash => p = q
  BY OneOfEachHash DEF DiffTypeOK, ListInv
<1>3. \A p \in Elements(old) : p.hash \in HashesOf(old)
  BY DEF Elements, HashesOf
<1>4. \A p \in Elements(new) : p.hash \in HashesOf(new)
  BY DEF Elements, HashesOf
<1> HIDE DEF Elements, HashesOf
<1> QED
  BY <1>1, <1>2, <1>3, <1>4, DifferenceCases

(* Passing an old position adds its hash, which is a new one.              *)
LEMMA PassOne ==
    ASSUME DiffTypeOK, ListInv, next <= Len(old), next' = next + 1, old' = old
    PROVE  /\ next \in 1 .. Len(old)
           /\ old[next].hash \notin Passed
           /\ Passed' = Passed \cup {old[next].hash}
<1>1. next \in 1 .. Len(old)
  BY LenProperties DEF DiffTypeOK
<1>2. \A i \in 1 .. next : i \in 1 .. Len(old)
  BY <1>1, LenProperties DEF DiffTypeOK
<1>3. 1 .. next' - 1 = (1 .. next - 1) \cup {next}
  BY <1>1
<1>4. \A i \in 1 .. next - 1 : i \in 1 .. Len(old) /\ i # next
  BY <1>1, <1>2
<1>5. old[next].hash \notin Passed
  BY <1>1, <1>4 DEF Passed, ListInv, Distinct
<1>6. Passed' = Passed \cup {old[next].hash}
  BY <1>3 DEF Passed
<1> QED
  BY <1>1, <1>5, <1>6

(* An update of the hash that is passed keeps UpdatesInv ...               *)
LEMMA UpdateEmitted ==
    ASSUME DiffTypeOK, ListInv, UpdatesInv, ~done, NEW u \in Difference,
           u.position.hash \notin Passed,
           Passed' = Passed \cup {u.position.hash},
           u \in Updates, updates' = Append(updates, u), UNCHANGED <<old, new, done>>
    PROVE  UpdatesInv' /\ updates' \in Seq(Updates)
<1>1. /\ updates' \in Seq(Updates)
      /\ Len(updates') = Len(updates) + 1 /\ Len(updates) \in Nat
      /\ \A i \in 1 .. Len(updates) : updates'[i] = updates[i]
      /\ updates'[Len(updates) + 1] = u
  BY LenProperties DEF DiffTypeOK
<1>2. Difference' = Difference
  BY DEF Difference, Elements, HashesOf
<1>3. \A i \in 1 .. Len(updates') : i \in 1 .. Len(updates) \/ i = Len(updates) + 1
  BY <1>1
<1>4. \A i \in 1 .. Len(updates) : i \in 1 .. Len(updates')
  BY <1>1
<1>5. \A v \in Difference : v.position.hash = u.position.hash => v = u
  BY OneDifferenceEach
<1>6. Len(updates) + 1 \in 1 .. Len(updates')
  BY <1>1
<1> HIDE DEF Difference, Passed
<1>7. \A i \in 1 .. Len(updates') :
         updates'[i].position.hash \in Passed' /\ updates'[i] \in Difference
  BY <1>1, <1>3 DEF UpdatesInv
<1>8. \A i, j \in 1 .. Len(updates') :
         updates'[i].position.hash = updates'[j].position.hash => i = j
  BY <1>1, <1>3 DEF UpdatesInv
<1>9. \A v \in Difference :
         v.position.hash \in Passed' => \E i \in 1 .. Len(updates') : updates'[i] = v
  BY <1>1, <1>4, <1>5, <1>6 DEF UpdatesInv
<1> QED
  BY <1>1, <1>2, <1>7, <1>8, <1>9 DEF UpdatesInv

(* ... and so does none, if the hash is in no difference.                  *)
LEMMA NoUpdate ==
    ASSUME UpdatesInv, NEW h,
           \A u \in Difference : u.position.hash # h,
           Passed' = Passed \cup {h}, UNCHANGED <<old, new, done, updates>>
    PROVE  UpdatesInv'
<1>1. Difference' = Difference
  BY DEF Difference, Elements, HashesOf
<1> HIDE DEF Difference, Passed
<1> QED
  BY <1>1 DEF UpdatesInv

-----------------------------------------------------------------------------
LEMMA CloseStep ==
    ASSUME DiffInv, Close
    PROVE  DiffInv'
<1> DEFINE p == old[next]
           u == [type |-> "close", position |-> p]
<1>1. ~done
  BY LenProperties DEF DiffInv, DoneInv, DiffTypeOK, Close
<1>2. /\ next \in 1 .. Len(old) /\ p.hash \notin Passed
      /\ Passed' = Passed \cup {p.hash}
  BY PassOne DEF DiffInv, Close
<1>3. p \in Positions /\ p \in Elements(old)
  BY <1>2, LenProperties, ElementsOfList DEF DiffInv, DiffTypeOK
<1>4. \A k \in 1 .. Len(new) : new[k].hash # p.hash
  BY <1>2, LenProperties DEF DiffInv, DiffTypeOK, RestInv, Close, Found
<1>5. p.hash \notin HashesOf(new)
  BY <1>4, LenProperties DEF DiffInv, DiffTypeOK, HashesOf
<1>6. u \in Difference
  BY <1>3, <1>5 DEF Difference
<1>7. u \in Updates
  BY <1>3 DEF Updates
<1>8. UpdatesInv' /\ updates' \in Seq(Updates)
  BY <1>1, <1>2, <1>6, <1>7, UpdateEmitted DEF DiffInv, Close, Emit
<1>9. DiffTypeOK'
  BY <1>2, <1>8, LenProperties DEF DiffInv, DiffTypeOK, Close
<1>10. ListInv' /\ PrefixInv' /\ DoneInv' /\ DiffIsExact'
  BY <1>1 DEF DiffInv, ListInv, PrefixInv, DoneInv, DiffIsExact, Close
<1>11. RestInv'
  <2>1. \A i \in 1 .. upto : nPs[i].hash # p.hash
    BY DEF Close, Found
  <2> QED
    BY <1>2, <2>1 DEF DiffInv, RestInv, Close
<1> QED
  BY <1>8, <1>9, <1>10, <1>11 DEF DiffInv

LEMMA MatchStep ==
    ASSUME DiffInv, NEW k \in 1 .. upto, Match(k)
    PROVE  DiffInv'
<1> DEFINE q == old[next]
           p == nPs[k]
           u == [type |-> "change", position |-> p]
<1>1. ~done
  BY LenProperties DEF DiffInv, DoneInv, DiffTypeOK, Match
<1>2. /\ next \in 1 .. Len(old) /\ q.hash \notin Passed
      /\ Passed' = Passed \cup {q.hash}
  BY PassOne DEF DiffInv, Match
<1>3. q \in Positions /\ q \in Elements(old)
  <2>1. old \in Seq(Positions)
    BY DEF DiffInv, DiffTypeOK
  <2>2. Elements(old) = {old[i] : i \in 1 .. Len(old)} /\ Elements(old) \subseteq Positions
    BY <2>1, ElementsOfList
  <2> HIDE DEF Elements
  <2> QED
    BY <1>2, <2>2
<1>4. /\ upto \in 1 .. Len(nPs) /\ k \in 1 .. Len(nPs)
      /\ Len(nPs) \in Nat /\ \A i \in 1 .. Len(nPs) : nPs[i] \in Positions
  BY LenProperties DEF DiffInv, DiffTypeOK
<1>5. p \in Positions /\ p \in Elements(new) /\ p.hash = q.hash
  <2>1. \E m \in 1 .. Len(new) : p = new[m]
    BY DEF DiffInv, RestInv
  <2>2. p \in Elements(new)
    BY <2>1, ElementsOfList DEF DiffInv, DiffTypeOK
  <2> QED
    BY <2>2, <1>4 DEF Match, Found
<1>6. /\ nPs' \in Seq(Positions) /\ Len(nPs') = Len(nPs)
      /\ \A i \in 1 .. Len(nPs) : nPs'[i] = IF i = k THEN nPs[upto] ELSE nPs[i]
  <2>1. nPs[upto] \in Positions /\ nPs \in Seq(Positions)
    BY <1>4 DEF DiffInv, DiffTypeOK
  <2> QED
    BY <1>4, <2>1, ExceptSeq DEF Match
<1>7. upto' = upto - 1 /\ 1 .. upto' = 1 .. upto - 1
  BY DEF Match
<1>8. \A i \in 1 .. upto' :
         \E j \in 1 .. upto : nPs'[i] = nPs[j] /\ j # k /\ (j = i \/ (j = upto /\ i = k))
  BY <1>4, <1>6, <1>7
<1>9. \A j \in 1 .. upto : j # k => \E i \in 1 .. upto' : nPs'[i] = nPs[j]
  <2> SUFFICES ASSUME NEW j \in 1 .. upto, j # k
               PROVE  \E i \in 1 .. upto' : nPs'[i] = nPs[j]
    OBVIOUS
  <2>1. CASE j = upto
    <3>1. k \in 1 .. upto' /\ nPs'[k] = nPs[j]
      BY <2>1, <1>4, <1>6, <1>7
    <3> QED
      BY <3>1
  <2>2. CASE j # upto
    <3>1. j \in 1 .. upto' /\ nPs'[j] = nPs[j]
      BY <2>2, <1>4, <1>6, <1>7
    <3> QED
      BY <3>1
  <2> QED
    BY <2>1, <2>2
<1>10. PrefixInv'
  BY <1>4, <1>6, <1>7 DEF DiffInv, PrefixInv
<1>11. \A j \in 1 .. upto : j # k => nPs[j].hash # q.hash
  BY <1>5 DEF DiffInv, PrefixInv
<1>12. RestInv'
  <2>1. UNCHANGED new
    BY DEF Match
  <2>2. \A i \in 1 .. upto' :
           nPs'[i].hash \notin Passed' /\ \E m \in 1 .. Len(new) : nPs'[i] = new[m]
    BY <1>2, <1>8, <1>11 DEF DiffInv, RestInv
  <2>3. \A m \in 1 .. Len(new) :
           new[m].hash \notin Passed' => \E i \in 1 .. upto' : new[m] = nPs'[i]
    <3> SUFFICES ASSUME NEW m \in 1 .. Len(new), new[m].hash \notin Passed'
                 PROVE  \E i \in 1 .. upto' : new[m] = nPs'[i]
      OBVIOUS
    <3>1. PICK j \in 1 .. upto : new[m] = nPs[j]
      BY <1>2 DEF DiffInv, RestInv
    <3>2. j # k
      BY <3>1, <1>2, <1>5
    <3> QED
      BY <3>1, <3>2, <1>9
  <2> QED
    BY <2>1, <2>2, <2>3 DEF RestInv
<1>13. UpdatesInv' /\ updates' \in Seq(Updates)
  <2>1. CASE p.qty = q.qty
    <3>1. p = q
      BY <2>1, <1>3, <1>5 DEF Positions
    <3>2. p.hash \in HashesOf(old) /\ p.hash \in HashesOf(new)
      BY <1>3, <1>5, <3>1 DEF Elements, HashesOf
    <3>3. \A r \in Elements(new) : r.hash = p.hash => r = p
      BY <1>5, OneOfEachHash DEF DiffInv, DiffTypeOK, ListInv
    <3>4. \A v \in Difference : v.position.hash # q.hash
      <4> SUFFICES ASSUME NEW v \in Difference, v.position.hash = q.hash
                   PROVE  FALSE
        OBVIOUS
      <4> HIDE DEF Elements, HashesOf, p, q
      <4> QED
        BY <1>3, <1>5, <3>1, <3>2, <3>3, DifferenceCases DEF DiffInv
    <3>5. UNCHANGED <<old, new, done, updates>>
      BY <2>1 DEF Match
    <3> QED
      BY <3>4, <3>5, <1>2, NoUpdate DEF DiffInv, DiffTypeOK
  <2>2. CASE p.qty # q.qty
    <3>1. p \notin Elements(old)
      <4>1. \A r \in Elements(old) : r.hash = q.hash => r = q
        BY <1>3, OneOfEachHash DEF DiffInv, DiffTypeOK, ListInv
      <4> QED
        BY <4>1, <1>5, <2>2
    <3>2. p.hash \in HashesOf(old)
      BY <1>3, <1>5 DEF Elements, HashesOf
    <3>3. u \in Difference
      BY <3>1, <3>2, <1>5 DEF Difference
    <3>4. u \in Updates
      BY <1>5 DEF Updates
    <3>5. updates' = Append(updates, u) /\ UNCHANGED <<old, new, done>>
      BY <2>2 DEF Match, Emit
    <3> QED
      BY <3>3, <3>4, <3>5, <1>1, <1>2, <1>5, UpdateEmitted DEF DiffInv
  <2> QED
    BY <2>1, <2>2
<1>14. DiffTypeOK'
  BY <1>2, <1>4, <1>6, <1>7, <1>13, LenProperties DEF DiffInv, DiffTypeOK, Match
<1>15. ListInv' /\ DoneInv' /\ DiffIsExact'
  BY <1>1, <1>6 DEF DiffInv, ListInv, DoneInv, DiffIsExact, Match
<1> QED
  BY <1>10, <1>12, <1>13, <1>14, <1>15 DEF DiffInv
(* What is left in the end is what was opened.                             *)
LEMMA OpenStep ==
    ASSUME DiffInv, Open
    PROVE  DiffInv'
<1> DEFINE opens == [k \in 1 .. upto |-> [type |-> "open", position |-> nPs[k]]]
           all == updates \o opens
<1>1. /\ ~done /\ done' /\ updates' = all
      /\ UNCHANGED <<old, new, nPs, upto, next>>
  BY DEF Open
<1>2. /\ next = Len(old) + 1 /\ Len(old) \in Nat
      /\ upto \in 0 .. Len(nPs) /\ Len(nPs) \in Nat
      /\ \A i \in 1 .. upto : nPs[i] \in Positions
  <2>1. Len(old) \in Nat /\ Len(nPs) \in Nat
    BY LenProperties DEF DiffInv, DiffTypeOK
  <2>2. next = Len(old) + 1 /\ upto \in 0 .. Len(nPs)
    BY <2>1 DEF DiffInv, DiffTypeOK, Open
  <2>3. \A i \in 1 .. upto : i \in 1 .. Len(nPs)
    BY <2>1, <2>2
  <2>4. \A i \in 1 .. Len(nPs) : nPs[i] \in Positions
    BY LenProperties DEF DiffInv, DiffTypeOK
  <2> QED
    BY <2>1, <2>2, <2>3, <2>4
<1>3. Passed = HashesOf(old)
  BY <1>2, LenProperties DEF DiffInv, DiffTypeOK, Passed, HashesOf
<1>4. \A k \in 1 .. upto : [type |-> "open", position |-> nPs[k]] \in Updates
  BY <1>2 DEF Updates
<1>5. opens \in Seq(Updates) /\ Len(opens) = upto
  BY <1>2, <1>4
<1>6. /\ all \in Seq(Updates) /\ Len(updates) \in Nat /\ Len(all) = Len(updates) + upto
      /\ \A i \in 1 .. Len(updates) : all[i] = updates[i]
      /\ \A i \in Len(updates) + 1 .. Len(all) :
            /\ i - Len(updates) \in 1 .. upto
            /\ all[i] = [type |-> "open", position |-> nPs[i - Len(updates)]]
  <2>1. updates \in Seq(Updates) /\ Len(updates) \in Nat
    BY LenProperties DEF DiffInv, DiffTypeOK
  <2>2. /\ all \in Seq(Updates) /\ Len(all) = Len(updates) + Len(opens)
        /\ \A i \in 1 .. Len(updates) + Len(opens) :
              all[i] = IF i <= Len(updates) THEN updates[i] ELSE opens[i - Len(updates)]
    BY <2>1, <1>5, ConcatProperties
  <2> QED
    BY <1>2, <1>5, <2>1, <2>2
<1>7. \A k \in 1 .. upto :
         /\ nPs[k] \in Elements(new) /\ nPs[k].hash \notin HashesOf(old)
         /\ [type |-> "open", position |-> nPs[k]] \in Difference
  <2> SUFFICES ASSUME NEW k \in 1 .. upto
               PROVE  /\ nPs[k] \in Elements(new) /\ nPs[k].hash \notin HashesOf(old)
                      /\ [type |-> "open", position |-> nPs[k]] \in Difference
    OBVIOUS
  <2>1. \E m \in 1 .. Len(new) : nPs[k] = new[m]
    BY DEF DiffInv, RestInv
  <2>2. nPs[k] \in Elements(new)
    BY <2>1, ElementsOfList DEF DiffInv, DiffTypeOK
  <2>3. nPs[k].hash \notin HashesOf(old)
    BY <1>3 DEF DiffInv, RestInv
  <2> QED
    BY <2>2, <2>3 DEF Difference
<1> HIDE DEF all, opens
<1>8. ASSUME NEW i \in Len(updates) + 1 .. Len(all)
       PROVE  i - Len(updates) \in 1 .. upto /\ all[i].position = nPs[i - Len(updates)]
  <2>1. /\ i - Len(updates) \in 1 .. upto
        /\ all[i] = [type |-> "open", position |-> nPs[i - Len(updates)]]
    BY <1>6
  <2>2. [type |-> "open", position |-> nPs[i - Len(updates)]].position = nPs[i - Len(updates)]
    OBVIOUS
  <2> QED
    BY ONLY <2>1, <2>2
<1>9. \A i \in 1 .. Len(all) : i \in 1 .. Len(updates) \/ i \in Len(updates) + 1 .. Len(all)
  BY <1>2, <1>6
<1>10. \A i \in 1 .. Len(all) : all[i] \in Difference
  <2>1. \A i \in 1 .. Len(updates) : all[i] \in Difference
    BY <1>1, <1>6 DEF DiffInv, UpdatesInv
  <2>2. \A i \in Len(updates) + 1 .. Len(all) : all[i] \in Difference
    <3> HIDE DEF Difference
    <3> QED
      BY <1>6, <1>7
  <2> QED
    BY <2>1, <2>2, <1>9
<1>11. ASSUME NEW u \in Difference
       PROVE  \E i \in 1 .. Len(all) : all[i] = u
  <2>1. CASE u.position.hash \in HashesOf(old)
    <3>1. PICK i \in 1 .. Len(updates) : updates[i] = u
      BY <2>1, <1>1, <1>3 DEF DiffInv, UpdatesInv
    <3>2. i \in 1 .. Len(all)
      BY <1>2, <1>6
    <3> QED
      BY <3>1, <3>2, <1>6
  <2>2. CASE u.position.hash \notin HashesOf(old)
    <3>1. \A p \in Elements(old) : p.hash \in HashesOf(old)
      BY DEF Elements, HashesOf
    <3>2. PICK p \in Elements(new) : u = [type |-> "open", position |-> p]
      <4> HIDE DEF Elements, HashesOf
      <4> QED
        BY <2>2, <3>1, DifferenceCases DEF DiffInv
    <3>3. PICK m \in 1 .. Len(new) : p = new[m]
      BY ElementsOfList DEF DiffInv, DiffTypeOK
    <3>4. PICK k \in 1 .. upto : new[m] = nPs[k]
      BY <3>2, <3>3, <2>2, <1>3 DEF DiffInv, RestInv
    <3>5. /\ k + Len(updates) \in Len(updates) + 1 .. Len(all)
          /\ k + Len(updates) \in 1 .. Len(all)
          /\ (k + Len(updates)) - Len(updates) = k
      BY <1>2, <1>6
    <3> QED
      BY <3>2, <3>3, <3>4, <3>5, <1>6
  <2> QED
    BY <2>1, <2>2
<1>12. \A i, j \in 1 .. Len(all) : all[i] = all[j] => i = j
  <2> SUFFICES ASSUME NEW i \in 1 .. Len(all), NEW j \in 1 .. Len(all), all[i] = all[j]
               PROVE  i = j
    OBVIOUS
  <2>1. CASE i \in 1 .. Len(updates) /\ j \in 1 .. Len(updates)
    BY <2>1, <1>1, <1>6 DEF DiffInv, UpdatesInv
  <2>2. \A m \in 1 .. Len(updates), n \in Len(updates) + 1 .. Len(all) : all[m] # all[n]
    <3> SUFFICES ASSUME NEW m \in 1 .. Len(updates), NEW n \in Len(updates) + 1 .. Len(all)
                 PROVE  all[m] # all[n]
      OBVIOUS
    <3>1. all[m].position.hash \in HashesOf(old)
      BY <1>1, <1>3, <1>6 DEF DiffInv, UpdatesInv
    <3>2. all[n].position.hash \notin HashesOf(old)
      BY <1>7, <1>8
    <3> QED
      BY <3>1, <3>2
  <2>3. CASE i \in Len(updates) + 1 .. Len(all) /\ j \in Len(updates) + 1 .. Len(all)
    <3>1. nPs[i - Len(updates)].hash = nPs[j - Len(updates)].hash
      BY <2>3, <1>8
    <3>2. i - Len(updates) = j - Len(updates)
      BY <2>3, <3>1, <1>6 DEF DiffInv, PrefixInv
    <3> QED
      BY <2>3, <3>2, <1>6
  <2> QED
    BY <2>1, <2>2, <2>3, <1>9
<1>13. Elements(all) = Difference
  <2>1. Elements(all) = {all[i] : i \in 1 .. Len(all)}
    BY <1>6, ElementsOfList
  <2> HIDE DEF Elements, Difference
  <2> QED
    BY <2>1, <1>10, <1>11
<1>14. Len(all) = Cardinality(Elements(all))
  BY <1>6, <1>12, DistinctLength
<1>15. DiffIsExact'
  <2>1. Difference' = Difference
    BY <1>1 DEF Difference, Elements, HashesOf
  <2>2. Elements(updates)' = Elements(all)
    BY <1>1 DEF Elements
  <2> HIDE DEF Elements, Difference
  <2> QED
    BY <2>1, <2>2, <1>1, <1>13, <1>14 DEF DiffIsExact
<1>16. DiffTypeOK'
  BY <1>1, <1>6 DEF DiffInv, DiffTypeOK
<1>17. ListInv' /\ PrefixInv' /\ RestInv' /\ UpdatesInv' /\ DoneInv'
  BY <1>1, <1>2 DEF DiffInv, ListInv, PrefixInv, RestInv, UpdatesInv, DoneInv, Passed
<1> QED
  BY <1>15, <1>16, <1>17 DEF DiffInv

LEMMA DiffStepInv == DiffInv /\ [DiffNext]_diffVars => DiffInv'
<1> SUFFICES ASSUME DiffInv, [DiffNext]_diffVars PROVE DiffInv'
  OBVIOUS
<1>1. CASE Close
  BY <1>1, CloseStep
<1>2. ASSUME NEW k \in 1 .. upto, Match(k) PROVE DiffInv'
  BY <1>2, MatchStep
<1>3. CASE Open
  BY <1>3, OpenStep
<1>4. CASE UNCHANGED diffVars
  <2>1. /\ Passed' = Passed /\ Difference' = Difference
        /\ Elements(updates)' = Elements(updates)
    BY <1>4 DEF diffVars, Passed, Difference, Elements, HashesOf
  <2>2. DiffTypeOK' /\ DoneInv' /\ ListInv' /\ PrefixInv'
    BY <1>4 DEF diffVars, DiffInv, DiffTypeOK, DoneInv, ListInv, PrefixInv, Distinct
  <2> HIDE DEF Passed, Difference, Elements
  <2>3. RestInv' /\ UpdatesInv'
    BY <2>1, <1>4 DEF diffVars, DiffInv, RestInv, UpdatesInv
  <2>4. DiffIsExact'
    BY <2>1, <1>4 DEF diffVars, DiffInv, DiffIsExact
  <2> QED
    BY <2>2, <2>3, <2>4 DEF DiffInv
<1> QED
  BY <1>1, <1>2, <1>3, <1>4 DEF DiffNext

LEMMA DiffInductive == DiffSpec => []DiffInv
  BY DiffInitInv, DiffStepInv, PTL DEF DiffSpec

-----------------------------------------------------------------------------
(* The types, and that the bound of the part of the list still considered  *)
(* never leaves the list (trader.go:207-306).                              *)
THEOREM DiffTypeCorrect == DiffSpec => []DiffTypeOK
<1>1. DiffInv => DiffTypeOK
  BY DEF DiffInv
<1> QED
  BY <1>1, DiffInductive, PTL

(* Overwriting matched positions (trader.go:276) loses none that is new,   *)
(* and keeps none that is matched, for lists of any length.                *)
THEOREM RestIsExact == DiffSpec => []NothingLost
<1>1. DiffInv => NothingLost
  <2> SUFFICES ASSUME DiffInv PROVE NothingLost
    OBVIOUS
  <2>1. Elements(SubSeq(nPs, 1, upto)) = {nPs[i] : i \in 1 .. upto}
    BY ElementsOfPrefix DEF DiffInv, DiffTypeOK
  <2>2. Elements(new) = {new[k] : k \in 1 .. Len(new)}
    BY ElementsOfList DEF DiffInv, DiffTypeOK
  <2>3. \A p : (\A i \in 1 .. next - 1 : old[i].hash # p.hash) <=> p.hash \notin Passed
    BY DEF Passed
  <2> DEFINE rest == {p \in Elements(new) : \A i \in 1 .. next - 1 : old[i].hash # p.hash}
  <2>4. rest = {p \in Elements(new) : p.hash \notin Passed}
    BY <2>3
  <2>5. {nPs[i] : i \in 1 .. upto} = {p \in {new[k] : k \in 1 .. Len(new)} : p.hash \notin Passed}
    BY DEF DiffInv, RestInv
  <2> HIDE DEF Elements, Passed
  <2> QED
    BY <2>1, <2>2, <2>4, <2>5 DEF NothingLost
<1> QED
  BY <1>1, DiffInductive, PTL

(* comparePositions reports every difference, once, and nothing else.      *)
THEOREM UpdatesAreTheDifference == DiffSpec => []DiffIsExact
<1>1. DiffInv => DiffIsExact
  BY DEF DiffInv
<1> QED
  BY <1>1, DiffInductive, PTL
=============================================================================
