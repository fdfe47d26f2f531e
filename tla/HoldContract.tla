----------------------------- MODULE HoldContract -----------------------------
(***************************************************************************)
(* What a stock hold promises, without any of the machinery: an order's    *)
(* lines are all taken from the free units together or not at all, and a   *)
(* line that is held is afterwards either returned to the free units or    *)
(* sold, once, and never both.                                             *)
(* docs/inventory-and-reservations.md states it in words; the source line  *)
(* behind each action is the batch of OrderStock that refines it.          *)
(***************************************************************************)
EXTENDS Integers

CONSTANTS Variant, Order, Qty, InitialOnHand

VARIABLES
    free,   \* free[v]: units anyone may still order
    hold    \* hold[<<c, v>>]: what became of the line

Line == {r \in Order \X Variant : Qty[r] > 0}

Init ==
    /\ free = InitialOnHand
    /\ hold = [r \in Order \X Variant |-> "none"]

\* Several lines of an order may be given up at once, or one by one.
Became(lines, from, to) ==
    /\ lines # {}
    /\ \A r \in lines : hold[r] = from
    /\ hold' = [r \in Order \X Variant |-> IF r \in lines THEN to ELSE hold[r]]

LinesOf(c) == {r \in Line : r[1] = c}

Take(c) ==
    /\ Became(LinesOf(c), "none", "held")
    /\ \A v \in Variant : Qty[<<c, v>>] <= free[v]
    /\ free' = [v \in Variant |-> free[v] - Qty[<<c, v>>]]

Return(c) ==
    \E lines \in SUBSET LinesOf(c) :
        /\ Became(lines, "held", "returned")
        /\ free' = [v \in Variant |-> free[v] + IF <<c, v>> \in lines THEN Qty[<<c, v>>] ELSE 0]

Sell(c) ==
    /\ Became(LinesOf(c), "held", "sold")
    /\ UNCHANGED free

Next == \E c \in Order : Take(c) \/ Return(c) \/ Sell(c)

Spec == Init /\ [][Next]_<<free, hold>>
===============================================================================
