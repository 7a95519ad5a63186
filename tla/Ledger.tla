------------------------------- MODULE Ledger -------------------------------
(***************************************************************************)
(* What WatchlistManagerBean promises its callers about positions: each of *)
(* its operations is one step on the committed rows.  A transaction is     *)
(* recorded together with its effect on the row it is recorded for; a      *)
(* rebuild withdraws at most the one transaction it was asked to and shows *)
(* the replay of transactions that were recorded, possibly not the latest  *)
(* ones; an item goes only when nothing is recorded for it.                *)
(*                                                                         *)
(* Position, where an operation is a series of SQL statements of concurrent *)
(* database transactions, implements this where the lock an insertion      *)
(* takes on its parent row blocks updates of it.                           *)
(***************************************************************************)
EXTENDS Holding

CONSTANTS
    Items,      \* ids of the watchlist_item rows
    NoItem,     \* the NULL parent of a transaction row
    Rows        \* the watchlist_transaction rows there can be

VARIABLES
    item,       \* the watchlist_item rows
    trans,      \* the watchlist_transaction rows
    recorded    \* every transaction row there ever was

ledgerVars == <<item, trans, recorded>>

Of(i, rows) == {r \in rows : r.item = i}

Unused(row) == \A r \in recorded : r.id # row.id

LedgerInit ==
    /\ item = [i \in Items |-> [live |-> TRUE, held |-> NoStock]]
    /\ trans = {}
    /\ recorded = {}

Shows(i, h) == item' = [item EXCEPT ![i] = [live |-> TRUE, held |-> h]]

\* addTransaction.  A row that would change by no more than the writing of its
\* rate may be left as it is.
Record(i, row) ==
    /\ item[i].live
    /\ row.item = i
    /\ Unused(row)
    /\ trans' = trans \cup {row}
    /\ recorded' = recorded \cup {row}
    /\ LET h == Apply(item[i].held, row)
       IN  \/ Shows(i, h)
           \/ SameHolding(item[i].held, h) /\ UNCHANGED item

\* addTransaction when the watchlist has no item for the scrip, or several.
RecordOrphan(row) ==
    /\ row.item = NoItem
    /\ Unused(row)
    /\ trans' = trans \cup {row}
    /\ recorded' = recorded \cup {row}
    /\ UNCHANGED item

\* rebuildWatchlistItem, and deleteTransaction when it finds the row.
Rebuild(i, gone) ==
    /\ gone \subseteq Of(i, trans)
    /\ \A r, t \in gone : r = t
    /\ trans' = trans \ gone
    /\ \/ \E rows \in SUBSET (Of(i, recorded) \ gone) :
            item[i].live /\ Shows(i, Replay(rows))
       \/ UNCHANGED item
    /\ UNCHANGED recorded

\* deleteWatchlistItem.
Remove(i) ==
    /\ item[i].live
    /\ Of(i, trans) = {}
    /\ item' = [item EXCEPT ![i] = [live |-> FALSE, held |-> NoStock]]
    /\ UNCHANGED <<trans, recorded>>

LedgerNext ==
    \/ \E row \in Rows : RecordOrphan(row) \/ \E i \in Items : Record(i, row)
    \/ \E i \in Items : Remove(i) \/ \E gone \in SUBSET trans : Rebuild(i, gone)

LedgerSpec == LedgerInit /\ [][LedgerNext]_ledgerVars
=============================================================================
