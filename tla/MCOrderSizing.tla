--------------------------- MODULE MCOrderSizing ---------------------------
(* Minima equal to the step, twice and three times it; a maximum equal to  *)
(* the minimum; and quantities between the steps.                          *)
EXTENDS OrderSizing
MCSymbols == {[min |-> 1, max |-> 3, step |-> 1], [min |-> 2, max |-> 4, step |-> 2],
              [min |-> 3, max |-> 5, step |-> 1], [min |-> 4, max |-> 6, step |-> 2],
              [min |-> 3, max |-> 3, step |-> 3]}
=============================================================================
