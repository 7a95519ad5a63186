----------------------------- MODULE OptionPnL -----------------------------
(***************************************************************************)
(* The replay behind the profit-and-loss chart of the option algorithms:   *)
(* DataDao.getPandLOfOrder walks the trading day in steps of ten seconds,  *)
(* moves the orders that have been bought back from runningOrders to       *)
(* exitedOrders, and writes one row per step.  Every order was sold at     *)
(* entry; while it runs it is valued at the option's last traded price.    *)
(*                                                                         *)
(* Times are in units of half a step, so that a trade can fall on a step   *)
(* or between two.                                                         *)
(***************************************************************************)
EXTENDS Integers, Sequences, FiniteSets, Functions

CONSTANTS
    Ids,        \* ids of the orders of the day
    Options,    \* traded options
    AlgoIds,    \* the algorithms asked for: a sequence, as the user typed it
    Prices,     \* prices of an option
    Open,       \* 09:16, the first step
    Close,      \* 15:30, no step any more
    NoTime,     \* the NULL exit time of an order that was not bought back
    Days        \* the sets of orders a day may have

VARIABLES
    t,          \* the time of the next row
    running,    \* runningOrders
    exited,     \* exitedOrders
    price,      \* history: the prices the last row was computed from
    row,        \* the last row written
    report      \* whether rows are being written, or why not

replayVars == <<t, running, exited, price, row, report>>

-----------------------------------------------------------------------------
(* Orders and rows *)

Algos == {AlgoIds[k] : k \in DOMAIN AlgoIds}

\* The query fetches the orders of the algorithms asked for.
Orders == [id : Ids, option : Options, algo : Algos, sell : Prices,
           entry : Nat, exit : Nat \cup {NoTime}, buy : Prices]

ASSUME OptionPnLAssumption ==
    /\ IsFiniteSet(Ids)
    /\ AlgoIds \in Seq(Nat)
    /\ Prices \subseteq Int
    /\ Open \in Nat /\ Close \in Nat /\ Open < Close
    /\ NoTime \notin Nat
    /\ \A orders \in Days : /\ orders \subseteq Orders
                            /\ \A o, q \in orders : o.id = q.id => o = q

Exited(o, time) == o.exit # NoTime /\ o.exit < time

\* entryTime.before(time) && exitTime.after(time), which throws if there is no
\* exit time once the entry is in the past.
Runs(o, time) == o.entry < time /\ o.exit # NoTime /\ o.exit > time
Throws(o, time) == ~Exited(o, time) /\ o.entry < time /\ o.exit = NoTime

Total(profit, orders) == SumFunctionOnSet(profit, orders)

\* profit is per position of AlgoIds; counted is the orders behind noOfOrders.
NoRow == [profit |-> [k \in DOMAIN AlgoIds |-> 0], total |-> 0, counted |-> {}]

\* Mutant: exited orders are valued like running ones.
RowAtMarket(live, gone, p) ==
    LET profit == [o \in live \cup gone |-> o.sell - p[o.option]]
        ofAlgo == [k \in DOMAIN AlgoIds |->
                     Total(profit, {o \in live \cup gone : o.algo = AlgoIds[k]})]
    IN  [profit |-> ofAlgo, total |-> SumFunction(ofAlgo),
         counted |-> live \cup gone]

\* Mutant: the orders that exited before this pass are left out.
RowOfLive(live, gone, p) ==
    LET profit == [o \in live |-> o.sell - p[o.option]]
        ofAlgo == [k \in DOMAIN AlgoIds |->
                     Total(profit, {o \in live : o.algo = AlgoIds[k]})]
    IN  [profit |-> ofAlgo, total |-> SumFunction(ofAlgo), counted |-> live]

\* The row of the orders that run and those that have exited.
Row(live, gone, p) ==
    LET profit == [o \in live \cup gone |->
                     o.sell - IF o \in live THEN p[o.option] ELSE o.buy]
        ofAlgo == [k \in DOMAIN AlgoIds |->
                     Total(profit, {o \in live \cup gone : o.algo = AlgoIds[k]})]
    IN  [profit |-> ofAlgo, total |-> SumFunction(ofAlgo),
         counted |-> live \cup gone]

-----------------------------------------------------------------------------
ReplayInit ==
    /\ t = Open
    /\ running \in Days
    /\ exited = {}
    /\ price = [option \in Options |-> 0]
    /\ row = NoRow
    /\ report = "writing"

\* Mutant: exited orders are kept in runningOrders as well.
WriteRowKeeping ==
    /\ report = "writing"
    /\ \A o \in running : ~Throws(o, t)
    /\ \E p \in [Options -> Prices] :
         LET left == {o \in running : Exited(o, t)}
             live == {o \in running : Runs(o, t)}
         IN  /\ price' = p
             /\ exited' = exited \cup left
             /\ row' = Row(live, exited \cup left, p)
    /\ t' = t + 2
    /\ report' = IF t + 2 < Close THEN "writing" ELSE "complete"
    /\ UNCHANGED running

\* Mutant: the clock is advanced in the branch of the running orders only.
WriteRowStuck ==
    /\ report = "writing"
    /\ \A o \in running : ~Throws(o, t)
    /\ \E p \in [Options -> Prices] :
         LET left == {o \in running : Exited(o, t)}
             live == {o \in running : Runs(o, t)}
         IN  /\ price' = p
             /\ exited' = exited \cup left
             /\ running' = running \ left
             /\ row' = Row(live, exited \cup left, p)
             /\ t' = IF live = {} THEN t ELSE t + 2
    /\ report' = IF t' < Close THEN "writing" ELSE "complete"

\* One pass of the loop.
WriteRow ==
    /\ report = "writing"
    /\ \A o \in running : ~Throws(o, t)
    /\ \E p \in [Options -> Prices] :
         LET left == {o \in running : Exited(o, t)}
             live == {o \in running : Runs(o, t)}
         IN  /\ price' = p
             /\ exited' = exited \cup left
             /\ running' = running \ left
             /\ row' = Row(live, exited \cup left, p)
    /\ t' = t + 2
    /\ report' = IF t + 2 < Close THEN "writing" ELSE "complete"

\* The exception ends the report; the rows so far may not reach the file.
Fail ==
    /\ report = "writing"
    /\ \E o \in running : Throws(o, t)
    /\ report' = "failed"
    /\ UNCHANGED <<t, running, exited, price, row>>

ReplayNext == WriteRow \/ Fail

ReplaySpec == ReplayInit /\ [][ReplayNext]_replayVars

\* One thread runs the loop without waiting for anything.
FairReplaySpec == ReplaySpec /\ WF_replayVars(ReplayNext)

-----------------------------------------------------------------------------
(* What must be true of the report *)

ReplayTypeOK ==
    /\ t \in Nat
    /\ running \subseteq Orders /\ exited \subseteq Orders
    /\ running \cap exited = {}
    /\ price \in [Options -> Prices \cup {0}]
    /\ row.profit \in [DOMAIN AlgoIds -> Int] /\ row.total \in Int
    /\ row.counted \subseteq running \cup exited
    /\ report \in {"writing", "complete", "failed"}

\* What an order contributes to the row of a time, from its own fields alone.
Contribution(o, time) ==
    CASE Exited(o, time) -> o.sell - o.buy
      [] Runs(o, time) -> o.sell - price[o.option]
      [] OTHER -> 0

\* The total of a row is the sum over all orders of the day, whatever steps
\* the orders were moved in before, if no algorithm was asked for twice.
TotalIsSumOfOrders ==
    t > Open /\ IsInjective(AlgoIds) =>
        row.total = SumFunction([o \in running \cup exited |->
                                   Contribution(o, t - 2)])

\* An order that is in one row is in the next: profits are never dropped on
\* the way from running to exited, except in the one row whose time is the
\* exit time itself, which is neither before it nor after it.
OrdersStayInReport ==
    [][\A o \in row.counted : o \in row'.counted \/ o.exit = t]_replayVars

\* The report ends, complete unless it has come across an order without exit.
ReportEnds ==
    <>(\/ report = "complete"
       \/ report = "failed" /\ \E o \in running : o.exit = NoTime)
=============================================================================
