----------------------------- MODULE Watchlist -----------------------------
(***************************************************************************)
(* Which scrips are on which watchlists.  Requests of the web tier run     *)
(* WatchlistManagerBean's addToWatchList and createNewWatchList, which     *)
(* check the limits and the duplicates with one query and insert with      *)
(* another, and deleteWatchlistItem.  Each request is one database         *)
(* transaction under READ COMMITTED and each step one SQL statement or the *)
(* commit: a query sees what is committed and what its own request has     *)
(* inserted.  No unique constraint of the schema repeats the checks.       *)
(***************************************************************************)
EXTENDS Integers, FiniteSets

CONSTANTS
    Sessions,   \* concurrent requests
    Users,
    Scrips,
    MaxItems,   \* items allowed on a watchlist: 1000 in the code
    MaxLists,   \* watchlists allowed to a user: 1000 in the code
    MaxListId,  \* bound on watchlist_id_seq
    MaxItemId,  \* bound on watchlist_item_id_seq
    None        \* no user and no scrip, before the first request

ASSUME WatchlistAssumption ==
    /\ IsFiniteSet(Sessions)
    /\ MaxItems \in Nat \ {0} /\ MaxLists \in Nat \ {0}
    /\ MaxListId \in Nat /\ MaxItemId \in Nat
    /\ None \notin Users \cup Scrips

VARIABLES
    lists,      \* the committed watchlist rows
    items,      \* the committed watchlist_item rows
    nextList,   \* watchlist_id_seq
    nextItem,   \* watchlist_item_id_seq
    sess        \* what each request has been given, found and inserted

vars == <<lists, items, nextList, nextItem, sess>>

-----------------------------------------------------------------------------
(* Rows and requests *)

Lists == [id : Nat, owner : Users]

\* by is history: the user whose request inserted the item.
WlItems == [id : Nat, list : Nat, scrip : Scrips, by : Users]

\* Where a request can be.  Adding: owned, counted, absent, inserted.
\* Creating: allowed, listed, filled.
Points == {"idle", "owned", "counted", "absent", "inserted",
           "allowed", "listed", "filled"}

\* list is the watchlist added to or created, into the one the new item names,
\* item the new item's id; 0 is none.  cut is history: an item of this list and
\* scrip was deleted since the request began.
Requests == [pc : Points, user : Users \cup {None}, scrip : Scrips \cup {None},
             list : Nat, into : Nat, item : Nat, cut : BOOLEAN,
             outcome : {"none", "added", "created", "refused", "error"}]

Start(point, u, l, scrip) ==
    [pc |-> point, user |-> u, scrip |-> scrip, list |-> l, into |-> 0,
     item |-> 0, cut |-> FALSE, outcome |-> "none"]

Becomes(s, request) == sess' = [sess EXCEPT ![s] = request]

\* The request ends; what it was about is kept for its answer.
Answer(s, outcome) ==
    Becomes(s, [sess[s] EXCEPT !.pc = "idle", !.outcome = outcome])

\* The item request s has inserted.
NewItem(s) == [id |-> sess[s].item, list |-> sess[s].into,
               scrip |-> sess[s].scrip, by |-> sess[s].user]

ItemsOf(l) == {i \in items : i.list = l}
Copies(l, scrip) == {i \in ItemsOf(l) : i.scrip = scrip}
ListsOf(u) == {l \in lists : l.owner = u}

\* Requests that will draw an item id, or a list id.
Unnumbered == {s \in Sessions : sess[s].pc \notin {"idle", "inserted", "filled"}}
Unlisted == {s \in Sessions : sess[s].pc = "allowed"}

-----------------------------------------------------------------------------
Init ==
    /\ lists = {}
    /\ items = {}
    /\ nextList = 1
    /\ nextItem = 1
    /\ sess = [s \in Sessions |-> Start("idle", None, 0, None)]

-----------------------------------------------------------------------------
(* addToWatchList *)

\* The list must be the user's: a missing row makes getSingleResult throw, so
\* WATCHLIST_NO_RIGHTS is never returned.
BeginAdd(s, u, l, scrip) ==
    /\ sess[s].pc = "idle"
    /\ \/ /\ [id |-> l, owner |-> u] \in lists
          /\ nextItem + Cardinality(Unnumbered) <= MaxItemId
          /\ Becomes(s, Start("owned", u, l, scrip))
       \/ /\ [id |-> l, owner |-> u] \notin lists
          /\ Becomes(s, [Start("idle", u, l, scrip) EXCEPT !.outcome = "error"])
    /\ UNCHANGED <<lists, items, nextList, nextItem>>

\* Mutant: the limit is compared with <=.
CountItemsLoosely(s) ==
    /\ sess[s].pc = "owned"
    /\ \/ /\ Cardinality(ItemsOf(sess[s].list)) <= MaxItems
          /\ Becomes(s, [sess[s] EXCEPT !.pc = "counted"])
       \/ /\ Cardinality(ItemsOf(sess[s].list)) > MaxItems
          /\ Answer(s, "refused")
    /\ UNCHANGED <<lists, items, nextList, nextItem>>

CountItems(s) ==
    /\ sess[s].pc = "owned"
    /\ \/ /\ Cardinality(ItemsOf(sess[s].list)) < MaxItems
          /\ Becomes(s, [sess[s] EXCEPT !.pc = "counted"])
       \/ /\ Cardinality(ItemsOf(sess[s].list)) >= MaxItems
          /\ Answer(s, "refused")
    /\ UNCHANGED <<lists, items, nextList, nextItem>>

\* Mutant: the duplicate is looked for on the list, whatever its scrip.
CheckAnyScrip(s) ==
    /\ sess[s].pc = "counted"
    /\ \/ /\ ItemsOf(sess[s].list) = {}
          /\ Becomes(s, [sess[s] EXCEPT !.pc = "absent"])
       \/ /\ ItemsOf(sess[s].list) # {}
          /\ Answer(s, "added")
    /\ UNCHANGED <<lists, items, nextList, nextItem>>

\* Mutant: duplicates are not looked for.
CheckNothing(s) ==
    /\ sess[s].pc = "counted"
    /\ Becomes(s, [sess[s] EXCEPT !.pc = "absent"])
    /\ UNCHANGED <<lists, items, nextList, nextItem>>

\* A scrip that is on the list already is silently left there.
CheckScrip(s) ==
    /\ sess[s].pc = "counted"
    /\ \/ /\ Copies(sess[s].list, sess[s].scrip) = {}
          /\ Becomes(s, [sess[s] EXCEPT !.pc = "absent"])
       \/ /\ Copies(sess[s].list, sess[s].scrip) # {}
          /\ Answer(s, "added")
    /\ UNCHANGED <<lists, items, nextList, nextItem>>

InsertItem(s) ==
    /\ sess[s].pc = "absent"
    /\ Becomes(s, [sess[s] EXCEPT !.pc = "inserted", !.into = sess[s].list,
                                  !.item = nextItem])
    /\ nextItem' = nextItem + 1
    /\ UNCHANGED <<lists, items, nextList>>

CommitAdd(s) ==
    /\ sess[s].pc = "inserted"
    /\ items' = items \cup {NewItem(s)}
    /\ Answer(s, "added")
    /\ UNCHANGED <<lists, nextList, nextItem>>

-----------------------------------------------------------------------------
(* createNewWatchList *)

\* Mutant: the limit is compared with <=.
BeginCreateLoosely(s, u, scrip) ==
    /\ sess[s].pc = "idle"
    /\ \/ /\ Cardinality(ListsOf(u)) <= MaxLists
          /\ nextItem + Cardinality(Unnumbered) <= MaxItemId
          /\ nextList + Cardinality(Unlisted) <= MaxListId
          /\ Becomes(s, Start("allowed", u, 0, scrip))
       \/ /\ Cardinality(ListsOf(u)) > MaxLists
          /\ Becomes(s, [Start("idle", u, 0, scrip) EXCEPT !.outcome = "refused"])
    /\ UNCHANGED <<lists, items, nextList, nextItem>>

BeginCreate(s, u, scrip) ==
    /\ sess[s].pc = "idle"
    /\ \/ /\ Cardinality(ListsOf(u)) < MaxLists
          /\ nextItem + Cardinality(Unnumbered) <= MaxItemId
          /\ nextList + Cardinality(Unlisted) <= MaxListId
          /\ Becomes(s, Start("allowed", u, 0, scrip))
       \/ /\ Cardinality(ListsOf(u)) >= MaxLists
          /\ Becomes(s, [Start("idle", u, 0, scrip) EXCEPT !.outcome = "refused"])
    /\ UNCHANGED <<lists, items, nextList, nextItem>>

InsertList(s) ==
    /\ sess[s].pc = "allowed"
    /\ Becomes(s, [sess[s] EXCEPT !.pc = "listed", !.list = nextList])
    /\ nextList' = nextList + 1
    /\ UNCHANGED <<lists, items, nextItem>>

\* Mutant: max(id) looks at the committed watchlists only, null if none.
InsertIntoCommitted(s) ==
    /\ sess[s].pc = "listed"
    /\ \/ /\ ListsOf(sess[s].user) = {}
          /\ Becomes(s, [sess[s] EXCEPT !.pc = "filled", !.into = None,
                                        !.item = nextItem])
       \/ \E l \in ListsOf(sess[s].user) :
            /\ \A m \in ListsOf(sess[s].user) : m.id <= l.id
            /\ Becomes(s, [sess[s] EXCEPT !.pc = "filled", !.into = l.id,
                                          !.item = nextItem])
    /\ nextItem' = nextItem + 1
    /\ UNCHANGED <<lists, items, nextList>>

\* Mutant: the subquery forgets whose watchlists it looks at.
InsertIntoNewest(s) ==
    /\ sess[s].pc = "listed"
    /\ \E id \in {sess[s].list} \cup {l.id : l \in lists} :
         /\ \A l \in lists : l.id <= id
         /\ sess[s].list <= id
         /\ Becomes(s, [sess[s] EXCEPT !.pc = "filled", !.into = id,
                                       !.item = nextItem])
    /\ nextItem' = nextItem + 1
    /\ UNCHANGED <<lists, items, nextList>>

\* The item goes to the user's watchlist of the highest id: the new one,
\* unless another request of the user has committed a later one meanwhile.
InsertFirst(s) ==
    /\ sess[s].pc = "listed"
    /\ \E id \in {sess[s].list} \cup {l.id : l \in ListsOf(sess[s].user)} :
         /\ \A l \in ListsOf(sess[s].user) : l.id <= id
         /\ sess[s].list <= id
         /\ Becomes(s, [sess[s] EXCEPT !.pc = "filled", !.into = id,
                                       !.item = nextItem])
    /\ nextItem' = nextItem + 1
    /\ UNCHANGED <<lists, items, nextList>>

CommitCreate(s) ==
    /\ sess[s].pc = "filled"
    /\ lists' = lists \cup {[id |-> sess[s].list, owner |-> sess[s].user]}
    /\ items' = items \cup {NewItem(s)}
    /\ Answer(s, "created")
    /\ UNCHANGED <<nextList, nextItem>>

-----------------------------------------------------------------------------
(* deleteWatchlistItem, for an item without transactions: one statement *)

DeleteItem(i) ==
    /\ items' = items \ {i}
    /\ sess' = [s \in Sessions |-> [sess[s] EXCEPT
                  !.cut = @ \/ (sess[s].list = i.list /\ sess[s].scrip = i.scrip)]]
    /\ UNCHANGED <<lists, nextList, nextItem>>

-----------------------------------------------------------------------------
Begin(s) ==
    \E u \in Users, scrip \in Scrips :
        \/ \E l \in 0..MaxListId : BeginAdd(s, u, l, scrip) \* 0: no watchlist
        \/ BeginCreate(s, u, scrip)

\* The next statement of a request under way.
Continue(s) ==
    \/ CountItems(s) \/ CheckScrip(s) \/ InsertItem(s) \/ CommitAdd(s)
    \/ InsertList(s) \/ InsertFirst(s) \/ CommitCreate(s)

Next ==
    \/ \E s \in Sessions : Begin(s) \/ Continue(s)
    \/ \E i \in items : DeleteItem(i)

Spec == Init /\ [][Next]_vars

-----------------------------------------------------------------------------
(* What must be true of the watchlists *)

TypeOK ==
    /\ lists \subseteq Lists
    /\ items \subseteq WlItems
    /\ nextList \in Nat \ {0}
    /\ nextItem \in Nat \ {0}
    /\ sess \in [Sessions -> Requests]

\* The limit of items is checked before the insert, so requests that race pass
\* it together, but no more of them than there are: a watchlist never holds
\* MaxItems plus the number of concurrent requests, those that file their
\* first item under a watchlist created after theirs included.
ItemsWithinLimit ==
    \A l \in lists :
        Cardinality(ItemsOf(l.id)) < MaxItems + Cardinality(Sessions)

\* So is the limit of watchlists a user may have.
ListsWithinLimit ==
    \A u \in Users :
        Cardinality(ListsOf(u)) < MaxLists + Cardinality(Sessions)

\* Racing additions can put a scrip on a watchlist several times (the lookup of
\* addTransaction then finds no unique item), at most once for each of the
\* requests that were under way.
CopiesWithinLimit ==
    \A l \in lists, scrip \in Scrips :
        Cardinality(Copies(l.id, scrip)) <= Cardinality(Sessions)

\* Wherever max(id) files the first item of a new watchlist, it is one of the
\* watchlists of the user who asked for it.
ItemsStayWithOwner ==
    \A i \in items : [id |-> i.list, owner |-> i.by] \in lists

\* A user who is told that the scrip was added finds it on the watchlist,
\* whether the request inserted it or found it there, until somebody deletes
\* an item of that scrip.
AddedIsListed ==
    \A s \in Sessions :
        sess[s].pc = "idle" /\ sess[s].outcome = "added" /\ ~sess[s].cut
            => Copies(sess[s].list, sess[s].scrip) # {}

\* A user who is told that the watchlist was created finds the scrip on it,
\* until somebody deletes it: "Insert the scrip to newly created watchlist".
CreatedListHasScrip ==
    \A s \in Sessions :
        sess[s].pc = "idle" /\ sess[s].outcome = "created" /\ ~sess[s].cut
            => Copies(sess[s].list, sess[s].scrip) # {}
=============================================================================
