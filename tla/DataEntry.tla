----------------------------- MODULE DataEntry ------------------------------
(***************************************************************************)
(* What users enter one value at a time: the searches JqGridManagerBean    *)
(* keeps and the trend lines DataManagerBean keeps, both saved by an       *)
(* UPDATE and, if it finds no row, an INSERT; and quarterly results, an    *)
(* INSERT that is followed by an UPDATE of the scrip's trailing earnings   *)
(* per share.  Every save is a database transaction under READ COMMITTED,  *)
(* one step is one SQL statement, and every exception is caught, so that a *)
(* save that failed looks like one that did not.                           *)
(*                                                                         *)
(* No constraint makes a user's value unique; results are unique by scrip  *)
(* and quarter.  Inserting a result locks the scrip: up to PostgreSQL 9.2  *)
(* (FOR SHARE) that blocks updates of it by others, later (FOR KEY SHARE)  *)
(* it does not.                                                            *)
(*                                                                         *)
(* Values and results share no table: in one behaviour the users enter     *)
(* either.                                                                 *)
(***************************************************************************)
EXTENDS Naturals, FiniteSets, FiniteSetsExt

CONSTANTS
    Sessions,   \* concurrent requests
    Slots,      \* what a value is kept for: a user, and a symbol or a table
    Values,     \* the values users save
    Scrips,     \* scrips with results: slots of nobody's
    Inputs,     \* the results users enter: the scrip, whether consolidated, the
                \* quarter and its earnings per share
    Trail,      \* how many quarters make the trailing earnings: 4
    MaxSaves    \* bound on the number of saves

ASSUME DataEntryAssumption ==
    /\ \A slot \in Slots \cup Scrips : slot = [user |-> slot.user, symbol |-> slot.symbol]
    /\ Inputs \subseteq [consolidated : BOOLEAN, scrip : Scrips, quarter : Nat, eps : Nat]
    /\ Trail \in Nat /\ MaxSaves \in Nat

VARIABLES
    kept,       \* the rows of javachart_trendlines, or of JQGRID_SAVED_SEARCH
    results,    \* the rows of financial_result and consolidated_financial_result
    epsTtm,     \* scrips.eps_ttm
    req,        \* the requests
    saves,      \* how many saves there have been
    last,       \* history: what was saved last for each slot
    right,      \* history: slots and scrips whose last save overlapped no other
    entering,   \* "values" or "results" (constant in a behaviour)
    forShare    \* whether the lock on the scrip blocks updates (constant, too)

vars == <<kept, results, epsTtm, req, saves, last, right, entering, forShare>>
tables == <<kept, results, epsTtm, last, right>>
config == <<entering, forShare>>

NoValue == "none saved"
NoSlot == [user |-> "nobody", symbol |-> "nothing"]

\* at: what the request is about to do; covered: the rows its UPDATE found, or
\* the results its trailing earnings are made of; alone: history, whether no
\* other save of the same thing has overlapped it.
Idle == [at |-> "idle", about |-> NoSlot, new |-> {}, covered |-> {}, alone |-> TRUE]

RowsOf(slot) == {row \in kept : row.slot = slot}

Standalone(scrip, rows) == {r \in rows : r.scrip = scrip /\ ~r.consolidated}

\* The sum over the last quarters there are results of.
Trailing(rows) ==
    LET Recent(r) == Cardinality({q \in rows : q.quarter > r.quarter}) < Trail
    IN  MapThenSumSet(LAMBDA r : r.eps, {r \in rows : Recent(r)})

-----------------------------------------------------------------------------
Busy(s) == req[s].at # "idle"

Others(s, thing) == {t \in Sessions \ {s} : Busy(t) /\ req[t].about = thing}

\* A save of a thing begins; saves of it under way are not alone either.
Begin(s, thing, at, new, covered) ==
    /\ ~Busy(s) /\ saves < MaxSaves
    /\ saves' = saves + 1
    /\ req' = [t \in Sessions |->
                 IF t = s THEN [at |-> at, about |-> thing, new |-> new,
                                covered |-> covered, alone |-> Others(s, thing) = {}]
                 ELSE IF t \in Others(s, thing) THEN [req[t] EXCEPT !.alone = FALSE]
                 ELSE req[t]]
    /\ UNCHANGED <<tables, config>>

Goes(s, at) ==
    /\ req' = [req EXCEPT ![s].at = at]
    /\ UNCHANGED <<tables, saves, config>>

Done(s) ==
    /\ req' = [req EXCEPT ![s] = Idle]
    /\ right' = IF req[s].alone THEN right \cup {req[s].about}
                ELSE right \ {req[s].about}
    /\ UNCHANGED <<saves, config>>

-----------------------------------------------------------------------------
(* saveTrendline and saveUserSearch *)

\* Mutant: the symbol is missing from the condition.
StartUpdateOfUser(s, slot, value) ==
    LET found == {row \in kept : row.slot.user = slot.user}
    IN  /\ entering = "values"
        /\ Begin(s, slot, IF found = {} THEN "insert" ELSE "update",
                 {[id |-> saves + 1, slot |-> slot, value |-> value]}, found)

\* The UPDATE finds the rows that are committed when it begins.
StartUpdate(s, slot, value) ==
    LET found == RowsOf(slot)
    IN  /\ entering = "values"
        /\ Begin(s, slot, IF found = {} THEN "insert" ELSE "update",
                 {[id |-> saves + 1, slot |-> slot, value |-> value]}, found)

Ids(rows) == {row.id : row \in rows}

\* Requests that have updated rows request s is to update, and not committed.
RowLocks(s) ==
    {t \in Sessions \ {s} :
        req[t].at = "commit" /\ Ids(req[t].covered) \cap Ids(req[s].covered) # {}}

UpdateRows(s) ==
    /\ entering = "values" /\ req[s].at = "update"
    /\ RowLocks(s) = {}
    /\ Goes(s, "commit")

InsertRow(s) ==
    /\ entering = "values" /\ req[s].at = "insert"
    /\ Goes(s, "commit")

ValueOf(s) == CHOOSE value \in Values : \E row \in req[s].new : row.value = value

CommitValue(s) ==
    /\ entering = "values" /\ req[s].at = "commit"
    /\ kept' = IF req[s].covered = {} THEN kept \cup req[s].new
               ELSE {IF row.id \in Ids(req[s].covered)
                     THEN [row EXCEPT !.value = ValueOf(s)] ELSE row : row \in kept}
    /\ last' = [last EXCEPT ![req[s].about] = ValueOf(s)]
    /\ Done(s)
    /\ UNCHANGED <<results, epsTtm>>

-----------------------------------------------------------------------------
(* saveQtrResult *)

BeginResult(s, result) ==
    /\ entering = "results"
    /\ Begin(s, result.scrip, "insert", {result}, {})

Saved(s) == CHOOSE result \in Inputs : result \in req[s].new

SameKey(r, t) ==
    r.consolidated = t.consolidated /\ r.scrip = t.scrip /\ r.quarter = t.quarter

\* A result that is not committed is in the way of another of its key.
KeyLocks(s) ==
    {t \in Sessions \ {s} :
        /\ req[t].at \notin {"idle", "insert"} /\ req[s].new # {}
        /\ req[t].new # {} /\ SameKey(Saved(s), Saved(t))}

\* The row is entered, before its scrip is locked; one that is there already is
\* a violation of the constraint, and the save ends.
InsertResult(s) ==
    /\ entering = "results" /\ req[s].at = "insert"
    /\ KeyLocks(s) = {}
    /\ IF \E r \in results : SameKey(r, Saved(s))
       THEN /\ req' = [req EXCEPT ![s] = Idle]
            /\ UNCHANGED <<tables, saves, config>>
       ELSE Goes(s, "parent")

\* Requests that have updated the scrip, and not committed.
ScripLocks(s) ==
    {t \in Sessions \ {s} : req[t].about = req[s].about /\ req[t].at = "commit"}

\* Requests that have locked the scrip as the parent of their row.
ParentLocks(s) ==
    {t \in Sessions \ {s} : /\ forShare /\ req[t].about = req[s].about
                            /\ req[t].at \in {"earnings", "date", "update"}}

\* The foreign key.
LockParent(s) ==
    /\ entering = "results" /\ req[s].at = "parent"
    /\ forShare => ScripLocks(s) = {}
    /\ Goes(s, IF Saved(s).consolidated THEN "update" ELSE "earnings")

\* Mutant: the earnings are summed before the new result is entered.
StartEarningsWithout(s) ==
    /\ entering = "results" /\ req[s].at = "earnings"
    /\ req' = [req EXCEPT ![s].at = "update",
                          ![s].covered = Standalone(req[s].about, results)]
    /\ UNCHANGED <<tables, saves, config>>

\* The UPDATE of the trailing earnings sums the rows that are committed when it
\* begins, and its own, and keeps the sum while it waits for the scrip.
StartEarnings(s) ==
    /\ entering = "results" /\ req[s].at = "earnings"
    /\ req' = [req EXCEPT ![s].at = "update",
                          ![s].covered = Standalone(req[s].about, results \cup req[s].new)]
    /\ UNCHANGED <<tables, saves, config>>

\* The UPDATE of the trailing earnings and that of the date, or that alone.
UpdateScrip(s) ==
    /\ entering = "results" /\ req[s].at = "update"
    /\ ScripLocks(s) = {} /\ ParentLocks(s) = {}
    /\ Goes(s, "commit")

CommitResult(s) ==
    /\ entering = "results" /\ req[s].at = "commit"
    /\ results' = results \cup req[s].new
    /\ IF Saved(s).consolidated
       THEN /\ req' = [req EXCEPT ![s] = Idle]
            /\ UNCHANGED <<epsTtm, right, saves, config>>
       ELSE /\ epsTtm' = [epsTtm EXCEPT ![req[s].about] = Trailing(req[s].covered)]
            /\ Done(s)
    /\ UNCHANGED <<kept, last>>

-----------------------------------------------------------------------------
(* Failures *)

\* A statement fails, on a value that is too long for one: nothing is saved, and
\* nobody is told.
FailSave(s) ==
    /\ Busy(s)
    /\ req' = [req EXCEPT ![s] = Idle]
    /\ UNCHANGED <<tables, saves, config>>

\* What request s waits for.
Blockers(s) ==
    CASE entering = "values" /\ req[s].at = "update" -> RowLocks(s)
      [] entering = "results" /\ req[s].at = "insert" -> KeyLocks(s)
      [] entering = "results" /\ req[s].at = "parent" ->
            IF forShare THEN ScripLocks(s) ELSE {}
      [] entering = "results" /\ req[s].at = "update" -> ScripLocks(s) \cup ParentLocks(s)
      [] OTHER -> {}

Knot(D) == D # {} /\ \A t \in D : Blockers(t) \cap D # {}

\* Mutant: nobody looks for deadlocks.
NoVictim(s) == FALSE /\ UNCHANGED vars

\* The database aborts one of the requests that wait for each other.
AbortVictim(s) ==
    /\ \E D \in SUBSET Sessions :
         s \in D /\ Knot(D) /\ \A E \in SUBSET D : Knot(E) => E = D
    /\ req' = [req EXCEPT ![s] = Idle]
    /\ UNCHANGED <<tables, saves, config>>

-----------------------------------------------------------------------------
Init ==
    /\ kept = {}
    /\ results = {}
    /\ epsTtm = [scrip \in Scrips |-> 0]
    /\ req = [s \in Sessions |-> Idle]
    /\ saves = 0
    /\ last = [slot \in Slots |-> NoValue]
    /\ right = {}
    /\ entering \in {"values", "results"}
    /\ forShare \in BOOLEAN

\* The next statement of a request under way.
Continue(s) ==
    \/ UpdateRows(s) \/ InsertRow(s) \/ CommitValue(s)
    \/ InsertResult(s) \/ LockParent(s) \/ StartEarnings(s) \/ UpdateScrip(s)
    \/ CommitResult(s) \/ AbortVictim(s)

Next ==
    \E s \in Sessions :
        \/ \E slot \in Slots, value \in Values : StartUpdate(s, slot, value)
        \/ \E result \in Inputs : BeginResult(s, result)
        \/ Continue(s) \/ FailSave(s)

Spec == Init /\ [][Next]_vars

\* The container goes on with what it has begun; nothing has to fail.
FairSpec == Spec /\ \A s \in Sessions : WF_vars(Continue(s))

-----------------------------------------------------------------------------
(* What must be true of the data *)

\* Every row of a slot holds the value that was saved last, so that it does not
\* matter which of them a reader takes, wherever there is one row, and wherever
\* the last save overlapped no other save of the slot, however many rows earlier
\* races have left.
SavedIsRead ==
    \A slot \in Slots :
        slot \in right \/ Cardinality(RowsOf(slot)) = 1 =>
            \A row \in RowsOf(slot) : row.value = last[slot]

\* The trailing earnings of a scrip are the sum over its last results wherever
\* the last save of a result overlapped no other of the scrip: a race leaves
\* them wrong until the next save, not after it.
EpsIsTrailing ==
    \A scrip \in Scrips \cap right :
        epsTtm[scrip] = Trailing(Standalone(scrip, results))

\* Every save ends, those that wait for each other's lock included.
SaveEnds == \A s \in Sessions : Busy(s) ~> ~Busy(s)
=============================================================================
