----------------------------- MODULE MCDataEntry ----------------------------
(* A small instance of DataEntry for TLC. *)
EXTENDS DataEntry

\* Two symbols of one user.
MCSlots == {[user |-> "user", symbol |-> symbol] : symbol \in {"ACC", "BHEL"}}

MCScrips == {[user |-> "nobody", symbol |-> "ACC"]}

\* Three quarters, of which two count, one entered twice and one consolidated.
Result(quarter, eps, consolidated) ==
    [consolidated |-> consolidated, scrip |-> [user |-> "nobody", symbol |-> "ACC"],
     quarter |-> quarter, eps |-> eps]

MCInputs == {Result(1, 1, FALSE), Result(2, 2, FALSE), Result(3, 4, FALSE),
             Result(3, 5, FALSE), Result(3, 5, TRUE)}
=============================================================================
