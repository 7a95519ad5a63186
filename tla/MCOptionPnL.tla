---------------------------- MODULE MCOptionPnL ----------------------------
(* A small instance of OptionPnL for TLC. *)
EXTENDS OptionPnL

CONSTANT call

TwoAlgos == <<1, 11>>

\* An order sold at 3 and bought back at 1, at any two times or not at all.
Traded(id, algo, entry, exit) ==
    [id |-> id, option |-> call, algo |-> algo, sell |-> 3, entry |-> entry,
     exit |-> exit, buy |-> 1]

MCDays ==
    {{Traded(1, a, e1, x1), Traded(2, 1, e2, x2)} :
        a \in Algos, e1, e2 \in 1..5, x1, x2 \in (2..7) \cup {NoTime}}
===========================================================================
