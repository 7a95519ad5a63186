------------------------------ MODULE Position ------------------------------
(***************************************************************************)
(* The positions of the watchlists: rows of watchlist_item carry the stock *)
(* in hand and its average buying rate, rows of watchlist_transaction      *)
(* carry the purchases and sales behind them.  Requests of the web tier    *)
(* run WatchlistManagerBean's addTransaction, deleteTransaction,           *)
(* rebuildWatchlistItem and deleteWatchlistItem, each one database         *)
(* transaction under READ COMMITTED, and one step here is one SQL          *)
(* statement (or the flush and the commit that end the transaction).       *)
(* There is no @Version on WatchlistItem, so an UPDATE at commit writes    *)
(* whatever the request computed from the row it read.                     *)
(*                                                                         *)
(* The row locks are PostgreSQL's.  Inserting a transaction row locks its  *)
(* parent item against deletion until commit; up to version 9.2 that lock  *)
(* (FOR SHARE) also blocks updates of the item by others, from 9.3 on (FOR *)
(* KEY SHARE) it does not.  ForShare chooses.                              *)
(***************************************************************************)
EXTENDS Holding, FiniteSets

CONSTANTS
    Sessions,   \* concurrent requests
    Items,      \* ids of the watchlist_item rows
    Slots,      \* (watchlist, scrip) pairs
    SlotOf,     \* the slot of an item: two items may share one
    Inputs,     \* the transactions users submit
    MaxTrans,   \* bound on watchlist_transaction_id_seq
    ForShare,   \* whether the parent lock of an insert blocks updates
    NoItem      \* the NULL parent of a transaction row

ASSUME PositionAssumption ==
    /\ IsFiniteSet(Sessions)
    /\ SlotOf \in [Items -> Slots]
    /\ Inputs \subseteq Orders
    /\ MaxTrans \in Nat
    /\ ForShare \in BOOLEAN
    /\ NoItem \notin Items

VARIABLES
    item,       \* the committed watchlist_item rows
    trans,      \* the committed watchlist_transaction rows
    nextTrans,  \* watchlist_transaction_id_seq
    sess,       \* what each request has read, computed and locked
    fresh,      \* history: requests whose last read is still current
    tracked,    \* history: items whose writers since the last repair never raced
    ordered,    \* history: items whose additions since then came in replay order
    recorded    \* history: every transaction row ever committed

vars == <<item, trans, nextTrans, sess, fresh, tracked, ordered, recorded>>

-----------------------------------------------------------------------------
(* Rows and requests *)

NoRow == [live |-> FALSE, held |-> NoStock]
ItemRow(h) == [live |-> TRUE, held |-> h]
ItemRows == [live : BOOLEAN, held : Holdings]

TransRow(n, i, o) ==
    [id |-> n, item |-> i, kind |-> o.kind, qty |-> o.qty, rate |-> o.rate,
     brokerage |-> o.brokerage, date |-> o.date]
TransRows == [id : Nat, item : Items \cup {NoItem}, kind : {"buy", "sell"},
              qty : Int, rate : Int, brokerage : Int, date : Int]

\* The rows that requests can record.
Entries == {TransRow(n, i, o) : n \in 1..MaxTrans, i \in Items \cup {NoItem},
                                o \in Inputs}

RowsOf(i) == {r \in trans : r.item = i}

\* Requests that will draw a transaction id.
Unnumbered == {t \in Sessions : sess[t].pc \in {"found", "missing"}}

Matches(slot) == {i \in Items : item[i].live /\ SlotOf[i] = slot}

\* Where a request can be.  Adding: found, missing, inserted, computed.
\* Deleting a transaction: chosen, then as a rebuild: replay, replayed,
\* loaded.  Deleting an item: removing, claimed.
Points == {"idle", "found", "missing", "inserted", "computed", "chosen",
           "replay", "replayed", "loaded", "removing", "claimed"}

\* tid is the transaction row being added or deleted, 0 for none; base is the
\* item as the persistence context loaded it, value what the request made of
\* it; outcome is what the user was last told.
Requests == [pc : Points, item : Items \cup {NoItem}, order : Inputs \cup {NoItem},
             tid : Nat, base : Holdings, value : Holdings,
             outcome : {"none", "added", "done", "error"}]

Idle(outcome, n) ==
    [pc |-> "idle", item |-> NoItem, order |-> NoItem, tid |-> n,
     base |-> NoStock, value |-> NoStock, outcome |-> outcome]

Start(point, i, o, n) ==
    [pc |-> point, item |-> i, order |-> o, tid |-> n,
     base |-> NoStock, value |-> NoStock, outcome |-> "none"]

Becomes(s, request) == sess' = [sess EXCEPT ![s] = request]

Finish(s, outcome) == Becomes(s, Idle(outcome, 0))

-----------------------------------------------------------------------------
(* Row locks *)

\* Mutant: the schema has no foreign key, so an insert locks no parent.
SharingNothing(i) == {}

\* Holders of the parent lock an insert takes on item i.
Sharing(i) == {t \in Sessions : sess[t].item = i
                                  /\ sess[t].pc \in {"inserted", "computed"}}

\* Holders of the exclusive lock a DELETE takes on item i.
Claiming(i) == {t \in Sessions : sess[t].item = i /\ sess[t].pc = "claimed"}

\* Holders of the lock of deleted, uncommitted transaction row n.
Deleting(n) == {t \in Sessions : sess[t].tid = n
                        /\ sess[t].pc \in {"replay", "replayed", "loaded"}}

\* Hibernate writes the item only if the request changed what it loaded.
Dirty(s) == ~SameHolding(sess[s].base, sess[s].value)

UpdateBlockers(s) ==
    Claiming(sess[s].item)
        \cup (IF ForShare THEN Sharing(sess[s].item) \ {s} ELSE {})

\* The requests whose locks the next statement of request s waits for.
Blockers(s) ==
    CASE sess[s].pc = "found" -> Claiming(sess[s].item)
      [] sess[s].pc = "computed" -> UpdateBlockers(s)
      [] sess[s].pc = "chosen" -> Deleting(sess[s].tid)
      [] sess[s].pc = "loaded" -> IF Dirty(s) THEN UpdateBlockers(s) ELSE {}
      [] sess[s].pc = "removing" -> Sharing(sess[s].item) \cup Claiming(sess[s].item)
      [] sess[s].pc = "claimed" -> UNION {Deleting(r.id) : r \in RowsOf(sess[s].item)}
      [] OTHER -> {}

Ready(s, point) == sess[s].pc = point /\ Blockers(s) = {}

-----------------------------------------------------------------------------
(* History of who raced whom *)

\* Request s reads the item, or its rows, as they are now.
ReadsNow(s) ==
    fresh' = fresh \cup {s} /\ UNCHANGED <<tracked, ordered, recorded>>

\* Request s ends without having changed anything.
GivesUp(s) == fresh' = fresh \ {s} /\ UNCHANGED <<tracked, ordered, recorded>>

Unpublished == UNCHANGED <<fresh, tracked, ordered, recorded>>

\* Request s commits a change to item i: every other request's read of it is
\* out of date.
Outdates(i) == fresh' = fresh \ {t \in Sessions : sess[t].item = i}

\* An addition keeps what the item holds right only if its read was current.
PublishesRow(s, i, row) ==
    /\ Outdates(i)
    /\ tracked' = IF s \in fresh THEN tracked ELSE tracked \ {i}
    /\ ordered' = IF IsLatest(row, RowsOf(i) \cup {row}) THEN ordered
                  ELSE ordered \ {i}
    /\ recorded' = recorded \cup {row}

\* A rebuild makes it right again if its read was current.
PublishesRebuild(s, i) ==
    /\ Outdates(i)
    /\ tracked' = IF s \in fresh THEN tracked \cup {i} ELSE tracked \ {i}
    /\ ordered' = IF s \in fresh THEN ordered \cup {i} ELSE ordered \ {i}
    /\ UNCHANGED recorded

-----------------------------------------------------------------------------
Init ==
    /\ item = [i \in Items |-> ItemRow(NoStock)]
    /\ trans = {}
    /\ nextTrans = 1
    /\ sess = [s \in Sessions |-> Idle("none", 0)]
    /\ fresh = {}
    /\ tracked = Items
    /\ ordered = Items
    /\ recorded = {}

-----------------------------------------------------------------------------
(* addTransaction *)

\* getWatchlistItemByWlIdAndScripId: one match is the item, none or several
\* (the exception is caught) are null.
LookUpItem(s, slot, o) ==
    /\ sess[s].pc = "idle"
    /\ nextTrans + Cardinality(Unnumbered) <= MaxTrans
    /\ \/ \E i \in Matches(slot) :
            /\ Matches(slot) = {i}
            /\ Becomes(s, Start("found", i, o, 0))
       \/ /\ Cardinality(Matches(slot)) # 1
          /\ Becomes(s, Start("missing", NoItem, o, 0))
    /\ UNCHANGED <<item, trans, nextTrans>> /\ Unpublished

\* persist and flush: the row is inserted under its parent.  If the item was
\* deleted meanwhile the insert fails, the exception is swallowed, the
\* transaction rolls back and the caller hears of no error.
InsertRow(s) ==
    /\ Ready(s, "found")
    /\ nextTrans' = nextTrans + 1
    /\ \/ /\ item[sess[s].item].live
          /\ Becomes(s, [sess[s] EXCEPT !.pc = "inserted", !.tid = nextTrans])
       \/ /\ ~item[sess[s].item].live
          /\ Becomes(s, Idle("added", nextTrans))
    /\ UNCHANGED <<item, trans>> /\ Unpublished

\* The same flush with a null parent succeeds, then refresh(null) throws: the
\* swallowed exception may or may not have marked the transaction for rollback.
InsertOrphan(s) ==
    /\ sess[s].pc = "missing"
    /\ nextTrans' = nextTrans + 1
    /\ \E rows \in {{}, {TransRow(nextTrans, NoItem, sess[s].order)}} :
         /\ trans' = trans \cup rows
         /\ recorded' = recorded \cup rows
    /\ Becomes(s, Idle("added", nextTrans))
    /\ UNCHANGED <<item, fresh, tracked, ordered>>

\* Mutant: a sale averages the rate of what remains.
RefreshAveragingSales(s) ==
    /\ sess[s].pc = "inserted"
    /\ LET h == item[sess[s].item].held
           o == sess[s].order
           left == h.sih - o.qty
       IN  Becomes(s, [sess[s] EXCEPT !.pc = "computed", !.base = h,
             !.value =
               IF o.kind = "sell" /\ left # 0
               THEN [sih |-> left,
                     avg |-> Divide(<<h.sih * h.avg[1] - Cost(o) * h.avg[2],
                                      h.avg[2]>>, left)]
               ELSE Apply(h, o)])
    /\ ReadsNow(s)
    /\ UNCHANGED <<item, trans, nextTrans>>

\* Mutant: the order is applied twice, as by a retry after the flush.
RefreshTwice(s) ==
    /\ sess[s].pc = "inserted"
    /\ LET h == item[sess[s].item].held
       IN  Becomes(s, [sess[s] EXCEPT !.pc = "computed", !.base = h,
                 !.value = Apply(Apply(h, sess[s].order), sess[s].order)])
    /\ ReadsNow(s)
    /\ UNCHANGED <<item, trans, nextTrans>>

\* refresh(wlItem) re-reads the committed row, and the rate and stock are
\* computed from it.
RefreshItem(s) ==
    /\ sess[s].pc = "inserted"
    /\ LET h == item[sess[s].item].held
       IN  Becomes(s, [sess[s] EXCEPT !.pc = "computed", !.base = h,
                                      !.value = Apply(h, sess[s].order)])
    /\ ReadsNow(s)
    /\ UNCHANGED <<item, trans, nextTrans>>

\* The UPDATE of the item at commit, with the new transaction row.  The item's
\* last_updated, not kept here, also makes it dirty if the date is another.
CommitAdd(s) ==
    /\ Ready(s, "computed")
    /\ \E dirty \in {TRUE, Dirty(s)} :
         item' = [item EXCEPT ![sess[s].item] =
                     IF dirty THEN ItemRow(sess[s].value) ELSE @]
    /\ LET row == TransRow(sess[s].tid, sess[s].item, sess[s].order)
       IN  trans' = trans \cup {row} /\ PublishesRow(s, sess[s].item, row)
    /\ Becomes(s, Idle("added", sess[s].tid))
    /\ UNCHANGED nextTrans

-----------------------------------------------------------------------------
(* deleteTransaction and rebuildWatchlistItem *)

\* The join of item and transaction finds the item to rebuild, or nothing:
\* then getSingleResult throws and the user sees an error.
LookUpTrans(s, n) ==
    /\ sess[s].pc = "idle"
    /\ n < nextTrans
    /\ \/ \E r \in trans :
            /\ r.id = n /\ r.item # NoItem
            /\ Becomes(s, Start("chosen", r.item, NoItem, n))
       \/ /\ \A r \in trans : r.id = n => r.item = NoItem
          /\ Finish(s, "error")
    /\ UNCHANGED <<item, trans, nextTrans>> /\ Unpublished

\* The DELETE takes the row's lock, or affects no row if it has gone.
DeleteRow(s) ==
    /\ Ready(s, "chosen")
    /\ Becomes(s, [sess[s] EXCEPT !.pc = "replay",
                   !.tid = IF \E r \in trans : r.id = @ THEN @ ELSE 0])
    /\ UNCHANGED <<item, trans, nextTrans>> /\ Unpublished

BeginRebuild(s, i) ==
    /\ sess[s].pc = "idle"
    /\ Becomes(s, Start("replay", i, NoItem, 0))
    /\ UNCHANGED <<item, trans, nextTrans>> /\ Unpublished

\* Mutant: the rebuild runs before the deletion, and counts the deleted row.
ReplayBeforeDelete(s) ==
    /\ sess[s].pc = "replay"
    /\ Becomes(s, [sess[s] EXCEPT !.pc = "replayed",
                                  !.value = Replay(RowsOf(sess[s].item))])
    /\ ReadsNow(s)
    /\ UNCHANGED <<item, trans, nextTrans>>

\* getWatchlistTransactionsByItemId and the loop over its result: the rows
\* committed by now, without the one this request has deleted.
ReplayRows(s) ==
    /\ sess[s].pc = "replay"
    /\ LET rows == {r \in RowsOf(sess[s].item) : r.id # sess[s].tid}
       IN  Becomes(s, [sess[s] EXCEPT !.pc = "replayed", !.value = Replay(rows)])
    /\ ReadsNow(s)
    /\ UNCHANGED <<item, trans, nextTrans>>

\* The item itself is read by a later statement; a null item is dereferenced
\* and the transaction rolls back.
LoadItem(s) ==
    /\ sess[s].pc = "replayed"
    /\ \/ /\ item[sess[s].item].live
          /\ Becomes(s, [sess[s] EXCEPT !.pc = "loaded",
                                       !.base = item[sess[s].item].held])
          /\ Unpublished
       \/ /\ ~item[sess[s].item].live
          /\ Finish(s, "error") /\ GivesUp(s)
    /\ UNCHANGED <<item, trans, nextTrans>>

\* Commit: the rebuilt values are written if they differ from the loaded ones
\* and the deletion, if any, takes effect.
CommitRebuild(s) ==
    /\ Ready(s, "loaded")
    /\ Dirty(s) => item[sess[s].item].live
    /\ item' = [item EXCEPT ![sess[s].item] =
                   IF Dirty(s) THEN ItemRow(sess[s].value) ELSE @]
    /\ trans' = {r \in trans : r.id # sess[s].tid}
    /\ PublishesRebuild(s, sess[s].item)
    /\ Finish(s, "done")
    /\ UNCHANGED nextTrans

\* The UPDATE finds the item deleted: Hibernate fails the stale write.
FailRebuild(s) ==
    /\ Ready(s, "loaded")
    /\ Dirty(s)
    /\ ~item[sess[s].item].live
    /\ Finish(s, "error") /\ GivesUp(s)
    /\ UNCHANGED <<item, trans, nextTrans>>

-----------------------------------------------------------------------------
(* deleteWatchlistItem *)

BeginDeleteItem(s, i) ==
    /\ sess[s].pc = "idle"
    /\ Becomes(s, Start("removing", i, NoItem, 0))
    /\ UNCHANGED <<item, trans, nextTrans>> /\ Unpublished

\* The DELETE locks the item row; if there is none it does nothing.
ClaimItem(s) ==
    /\ Ready(s, "removing")
    /\ \/ /\ item[sess[s].item].live
          /\ Becomes(s, [sess[s] EXCEPT !.pc = "claimed"])
       \/ /\ ~item[sess[s].item].live
          /\ Finish(s, "done")
    /\ UNCHANGED <<item, trans, nextTrans>> /\ Unpublished

\* Mutant: the transactions are not checked.
RemoveUnchecked(s) ==
    /\ Ready(s, "claimed")
    /\ item' = [item EXCEPT ![sess[s].item] = NoRow]
    /\ Outdates(sess[s].item)
    /\ Finish(s, "done")
    /\ UNCHANGED <<trans, nextTrans, tracked, ordered, recorded>>

\* The foreign key is checked at the end of the statement: an item that still
\* has transactions stays, and the user sees an error.
RemoveItem(s) ==
    /\ Ready(s, "claimed")
    /\ \/ /\ RowsOf(sess[s].item) = {}
          /\ item' = [item EXCEPT ![sess[s].item] = NoRow]
          /\ Outdates(sess[s].item)
          /\ Finish(s, "done")
       \/ /\ RowsOf(sess[s].item) # {}
          /\ Finish(s, "error")
          /\ UNCHANGED <<item, fresh>>
    /\ UNCHANGED <<trans, nextTrans, tracked, ordered, recorded>>

-----------------------------------------------------------------------------
(* Deadlock detection of the database *)

Knot(D) == D # {} /\ \A t \in D : Blockers(t) \cap D # {}

\* Mutant: nobody looks for deadlocks.
NoVictim(s) == FALSE /\ UNCHANGED vars

\* A minimal knot is a cycle of the waits-for graph; one of its requests is
\* aborted, and its exception reaches the web action.
AbortVictim(s) ==
    /\ \E D \in SUBSET Sessions :
         s \in D /\ Knot(D) /\ \A E \in SUBSET D : Knot(E) => E = D
    /\ Finish(s, "error") /\ GivesUp(s)
    /\ UNCHANGED <<item, trans, nextTrans>>

-----------------------------------------------------------------------------
Begin(s) ==
    \/ \E slot \in Slots, o \in Inputs : LookUpItem(s, slot, o)
    \/ \E n \in 1..MaxTrans : LookUpTrans(s, n)
    \/ \E i \in Items : BeginRebuild(s, i) \/ BeginDeleteItem(s, i)

\* The next statement of a request under way.
Continue(s) ==
    \/ InsertRow(s) \/ InsertOrphan(s) \/ RefreshItem(s) \/ CommitAdd(s)
    \/ DeleteRow(s) \/ ReplayRows(s) \/ LoadItem(s)
    \/ CommitRebuild(s) \/ FailRebuild(s)
    \/ ClaimItem(s) \/ RemoveItem(s)

Next == \E s \in Sessions : Begin(s) \/ Continue(s) \/ AbortVictim(s)

Spec == Init /\ [][Next]_vars

\* A server thread keeps executing its request; the database grants a row
\* lock to those that queue for it in turn (hence strong fairness: a waiter is
\* not overtaken for ever) and breaks a deadlock after deadlock_timeout.
\* Nobody is obliged to start a request.
FairSpec ==
    Spec /\ \A s \in Sessions : SF_vars(Continue(s)) /\ WF_vars(AbortVictim(s))

-----------------------------------------------------------------------------
(* What must be true of the positions *)

TypeOK ==
    /\ item \in [Items -> ItemRows]
    /\ trans \subseteq TransRows
    /\ nextTrans \in Nat \ {0}
    /\ sess \in [Sessions -> Requests]
    /\ fresh \subseteq Sessions
    /\ tracked \subseteq Items
    /\ ordered \subseteq Items
    /\ recorded \subseteq TransRows

\* The stock in hand an item shows is the sum of its transactions, unless a
\* request that read the item or its transactions too early has written it
\* since the last rebuild that did not: addTransaction's increment of the row
\* it refreshed and rebuildWatchlistItem's recomputation agree.
SihMatchesLedger ==
    \A i \in tracked :
        item[i].live => item[i].held.sih = Replay(RowsOf(i)).sih

\* The average buying rate is also what a rebuild would compute, provided the
\* transactions were added in the order of their dates: a back-dated one is
\* averaged in call order by addTransaction and in date order by a rebuild.
RateMatchesLedger ==
    \A i \in tracked \cap ordered :
        item[i].live => SameRate(item[i].held.avg, Replay(RowsOf(i)).avg)

\* Whatever the races, a stock in hand is the sum of some transactions that
\* were recorded for the item: lost updates forget transactions, they never
\* count one twice or count one that was not recorded.
StockIsExplained ==
    \A i \in Items :
        item[i].live =>
            \E rows \in SUBSET {r \in recorded : r.item = i} :
                item[i].held.sih = Replay(rows).sih

\* Every transaction row has its item: deleteWatchlistItem never removes an
\* item under a transaction that is recorded, or about to be.
ParentsExist ==
    /\ \A r \in trans : r.item # NoItem => item[r.item].live
    /\ \A s \in Sessions :
         sess[s].pc \in {"inserted", "computed"} => item[sess[s].item].live

\* Where the parent lock blocks updates, the row addTransaction writes at
\* commit is still the one it refreshed: the lock its own insert took saves
\* it from the lost update (at the price of a deadlock between two additions).
AddsSeeCurrentRow ==
    ForShare => \A s \in Sessions :
        sess[s].pc = "computed" => sess[s].base = item[sess[s].item].held

\* Every request is answered: lock waits end, by the database's deadlock
\* detection if nothing else.
EveryRequestAnswered ==
    \A s \in Sessions : sess[s].pc # "idle" ~> sess[s].pc = "idle"

\* Seen from outside, every request is one step of the Ledger: no purchase or
\* sale is lost between the statements of two requests, none is applied twice,
\* and no item goes while something is recorded for it.  This holds where the
\* parent lock blocks updates (ForShare); RateMatchesLedger says what is left
\* of it where it does not.
Committed == INSTANCE Ledger WITH Rows <- Entries
ImplementsLedger == Committed!LedgerSpec

\* AddToWLTransactionAction tells the user the transaction was added whenever
\* addTransaction returns: then it is recorded for an item.
SuccessMeansRecorded ==
    \A s \in Sessions : sess[s].outcome = "added" =>
        \E r \in recorded : r.id = sess[s].tid /\ r.item # NoItem
=============================================================================
