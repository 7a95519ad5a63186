----------------------------- MODULE MCPosition -----------------------------
(* Small instances of Position for TLC. *)
EXTENDS Position, TLC

CONSTANTS s1, s2, i1, i2, slotA

\* One item of a slot of its own.
OneItem == i1 :> slotA
\* Two items of one slot, as two racing additions of a scrip leave them.
TwinItems == i1 :> slotA @@ i2 :> slotA

Order(kind, qty, rate, brokerage, date) ==
    [kind |-> kind, qty |-> qty, rate |-> rate, brokerage |-> brokerage,
     date |-> date]

\* A purchase, a dearer one dated earlier with brokerage, and a sale.
MCInputs == {Order("buy", 1, 2, 0, 2), Order("buy", 2, 3, 1, 1),
             Order("sell", 1, 4, 0, 2)}

SomeInputs == {Order("buy", 1, 2, 0, 2), Order("sell", 1, 4, 0, 1)}

Symmetry == Permutations(Sessions)
=============================================================================
