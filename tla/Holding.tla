------------------------------ MODULE Holding ------------------------------
(***************************************************************************)
(* The arithmetic of one watchlist item: the stock in hand and the average *)
(* buying rate that WatchlistManagerBean.addTransaction updates one        *)
(* transaction at a time and WatchlistManagerBean.rebuildWatchlistItem     *)
(* recomputes from the item's transactions.                                *)
(*                                                                         *)
(* The code's Float is an exact fraction <<numerator, denominator>> here:  *)
(* rounding is abstracted, but the special values are not.  Denominator 0  *)
(* stands for the results of a float division by zero, which Java computes *)
(* without an exception: <<n, 0>> is Infinity for n > 0, -Infinity for     *)
(* n < 0 and NaN for n = 0.                                                *)
(***************************************************************************)
EXTENDS Integers

Rates == Int \X Nat
Holdings == [sih : Int, avg : Rates]

ZeroRate == <<0, 1>>
NoStock == [sih |-> 0, avg |-> ZeroRate]

\* A transaction as the form submits it: kind is the transactionType flag.
\* The form only checks that the fields are there, not that they are positive.
Orders == [kind : {"buy", "sell"}, qty : Int, rate : Int, brokerage : Int,
           date : Int]

-----------------------------------------------------------------------------
(* Fractions *)

\* Mutant: the sign is left in the denominator.
SignedDivide(x, q) == <<x[1], x[2] * q>>

\* x / q for an integer q; the sign stays in the numerator.
Divide(x, q) == IF q < 0 THEN <<-x[1], x[2] * (-q)>> ELSE <<x[1], x[2] * q>>

Sign(n) == IF n > 0 THEN 1 ELSE IF n < 0 THEN -1 ELSE 0

\* Float.equals: the same number, infinity or NaN.
SameRate(x, y) ==
    IF x[2] = 0 \/ y[2] = 0
    THEN x[2] = y[2] /\ Sign(x[1]) = Sign(y[1])
    ELSE x[1] * y[2] = y[1] * x[2]

SameHolding(g, h) == g.sih = h.sih /\ SameRate(g.avg, h.avg)

-----------------------------------------------------------------------------
(* One transaction applied to a holding *)

Cost(o) == o.qty * o.rate + o.brokerage

\* The turnover of what is held plus what is bought.
Turnover(h, o) == <<h.sih * h.avg[1] + Cost(o) * h.avg[2], h.avg[2]>>

Buy(h, o) ==
    [sih |-> h.sih + o.qty, avg |-> Divide(Turnover(h, o), h.sih + o.qty)]

\* A sale keeps the rate of what remains and clears it when nothing does.
Sell(h, o) ==
    [sih |-> h.sih - o.qty,
     avg |-> IF h.sih - o.qty = 0 THEN ZeroRate ELSE h.avg]

Apply(h, o) == IF o.kind = "buy" THEN Buy(h, o) ELSE Sell(h, o)

Signed(o) == IF o.kind = "buy" THEN o.qty ELSE -o.qty

-----------------------------------------------------------------------------
(* Replay of a set of rows in the order of transaction date, then row id *)

Before(r, t) == r.date < t.date \/ (r.date = t.date /\ r.id < t.id)

IsLatest(t, rows) == t \in rows /\ \A r \in rows \ {t} : Before(r, t)

Latest(rows) == CHOOSE t \in rows : IsLatest(t, rows)

\* The loop of rebuildWatchlistItem: the latest row is applied last.
Replay(rows) ==
    LET replay[S \in SUBSET rows] ==
          IF S = {} THEN NoStock
          ELSE Apply(replay[S \ {Latest(S)}], Latest(S))
    IN  replay[rows]
=============================================================================
