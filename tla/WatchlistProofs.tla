--------------------------- MODULE WatchlistProofs ---------------------------
(***************************************************************************)
(* Watchlist's invariants for any number of requests, users and scrips and *)
(* any limits.  The limits are checked by one statement and used up by a   *)
(* later one; what bounds the overshoot is that every request on its way   *)
(* to insert is counted with what it will insert.  The invariants follow   *)
(* from the inductive one, WInv.                                           *)
(***************************************************************************)
EXTENDS Watchlist, FiniteSetTheorems, TLAPS

\* Requests that have passed the check of the number of watchlists.
Creating(u) ==
    {s \in Sessions : sess[s].user = u /\ sess[s].pc \in {"allowed", "listed", "filled"}}

\* Requests whose insert nothing keeps from list l any more: additions that
\* have passed its check, and creations that draw, or drew, an id no higher.
Heading(s, l, points) ==
    \/ sess[s].pc \in points /\ sess[s].list = l
    \/ sess[s].pc = "listed" /\ sess[s].list <= l
    \/ sess[s].pc = "filled" /\ sess[s].into = l

Filling(l) == {s \in Sessions : Heading(s, l, {"counted", "absent", "inserted"})}

Copying(l, scrip) ==
    {s \in Sessions : sess[s].scrip = scrip /\ Heading(s, l, {"absent", "inserted"})}

Finite ==
    /\ IsFiniteSet(lists) /\ IsFiniteSet(items)
    /\ \A l \in lists : l.id < nextList

\* What a request at a given point has been given, and that it is the user's.
Shaped ==
    \A s \in Sessions :
        /\ sess[s].pc # "idle" => sess[s].user \in Users /\ sess[s].scrip \in Scrips
        /\ sess[s].pc \in {"owned", "counted", "absent", "inserted"} =>
             [id |-> sess[s].list, owner |-> sess[s].user] \in lists
        /\ sess[s].pc = "inserted" => sess[s].into = sess[s].list
        /\ sess[s].pc \in {"listed", "filled"} => sess[s].list < nextList
        /\ sess[s].pc = "filled" =>
             \/ sess[s].into = sess[s].list
             \/ [id |-> sess[s].into, owner |-> sess[s].user] \in lists

ListsBounded ==
    \A u \in Users :
        Cardinality(ListsOf(u)) + Cardinality(Creating(u))
            < MaxLists + Cardinality(Sessions)

ItemsBounded ==
    \A l \in Nat :
        Cardinality(ItemsOf(l)) + Cardinality(Filling(l))
            < MaxItems + Cardinality(Sessions)

CopiesBounded ==
    \A l \in Nat, scrip \in Scrips :
        Cardinality(Copies(l, scrip)) + Cardinality(Copying(l, scrip))
            <= Cardinality(Sessions)

WInv ==
    /\ TypeOK /\ Finite /\ Shaped /\ ItemsStayWithOwner
    /\ ListsBounded /\ ItemsBounded /\ CopiesBounded /\ AddedIsListed

-----------------------------------------------------------------------------
(* What steps change *)

\* A request that starts.
LEMMA Begins ==
  ASSUME TypeOK, NEW s \in Sessions, NEW u, NEW scrip
  PROVE  /\ \A l : BeginAdd(s, u, l, scrip) =>
              /\ sess'[s].user = u /\ sess'[s].list = l /\ sess'[s].scrip = scrip
              /\ \/ sess'[s].pc = "owned" /\ [id |-> l, owner |-> u] \in lists
                 \/ sess'[s].pc = "idle" /\ sess'[s].outcome # "added"
         /\ BeginCreate(s, u, scrip) =>
              /\ sess'[s].user = u /\ sess'[s].scrip = scrip
              /\ \/ sess'[s].pc = "allowed" /\ Cardinality(ListsOf(u)) < MaxLists
                 \/ sess'[s].pc = "idle" /\ sess'[s].outcome # "added"
         /\ (\E l : BeginAdd(s, u, l, scrip)) \/ BeginCreate(s, u, scrip) =>
              /\ sess[s].pc = "idle" /\ UNCHANGED <<lists, items, nextList, nextItem>>
              /\ \A t \in Sessions \ {s} : sess'[t] = sess[t]
<1>1. sess \in [Sessions -> Requests]
  BY DEF TypeOK
<1>2. ASSUME NEW l, BeginAdd(s, u, l, scrip)
      PROVE  /\ sess'[s].user = u /\ sess'[s].list = l /\ sess'[s].scrip = scrip
             /\ \/ sess'[s].pc = "owned" /\ [id |-> l, owner |-> u] \in lists
                \/ sess'[s].pc = "idle" /\ sess'[s].outcome # "added"
             /\ sess[s].pc = "idle" /\ UNCHANGED <<lists, items, nextList, nextItem>>
             /\ \A t \in Sessions \ {s} : sess'[t] = sess[t]
  BY <1>1, <1>2 DEF BeginAdd, Becomes, Start
<1>3. ASSUME BeginCreate(s, u, scrip)
      PROVE  /\ sess'[s].user = u /\ sess'[s].scrip = scrip
             /\ \/ sess'[s].pc = "allowed" /\ Cardinality(ListsOf(u)) < MaxLists
                \/ sess'[s].pc = "idle" /\ sess'[s].outcome # "added"
             /\ sess[s].pc = "idle" /\ UNCHANGED <<lists, items, nextList, nextItem>>
             /\ \A t \in Sessions \ {s} : sess'[t] = sess[t]
  BY <1>1, <1>3 DEF BeginCreate, Becomes, Start
<1> QED BY <1>2, <1>3

\* The next statement of a request: which request it stays and where it goes.
LEMMA Continues ==
  ASSUME TypeOK, NEW s \in Sessions, Continue(s)
  PROVE  /\ \A t \in Sessions \ {s} : sess'[t] = sess[t]
         /\ sess'[s].user = sess[s].user /\ sess'[s].scrip = sess[s].scrip
         /\ sess'[s].cut = sess[s].cut
         /\ InsertList(s) \/ sess'[s].list = sess[s].list
         /\ InsertItem(s) \/ InsertFirst(s) \/ sess'[s].into = sess[s].into
         /\ CountItems(s) =>
              \/ /\ sess'[s].pc = "counted"
                 /\ Cardinality(ItemsOf(sess[s].list)) < MaxItems
              \/ sess'[s].pc = "idle" /\ sess'[s].outcome = "refused"
         /\ CheckScrip(s) =>
              \/ sess'[s].pc = "absent" /\ Copies(sess[s].list, sess[s].scrip) = {}
              \/ sess'[s].pc = "idle" /\ Copies(sess[s].list, sess[s].scrip) # {}
         /\ InsertItem(s) => sess'[s].pc = "inserted" /\ sess'[s].into = sess[s].list
         /\ InsertList(s) => sess'[s].pc = "listed" /\ sess'[s].list = nextList
         /\ InsertFirst(s) =>
              /\ sess'[s].pc = "filled"
              /\ sess'[s].into \in {sess[s].list} \cup {l.id : l \in ListsOf(sess[s].user)}
              /\ sess[s].list <= sess'[s].into
         /\ CommitAdd(s) => sess'[s].pc = "idle"
         /\ CommitCreate(s) => sess'[s].pc = "idle" /\ sess'[s].outcome = "created"
<1>1. sess[s] \in Requests /\ sess \in [Sessions -> Requests]
  BY DEF TypeOK
<1>2. ASSUME NEW p, Becomes(s, [sess[s] EXCEPT !.pc = p])
      PROVE  /\ \A t \in Sessions \ {s} : sess'[t] = sess[t]
             /\ sess'[s].user = sess[s].user /\ sess'[s].scrip = sess[s].scrip
             /\ sess'[s].cut = sess[s].cut /\ sess'[s].list = sess[s].list
             /\ sess'[s].into = sess[s].into /\ sess'[s].pc = p
  BY <1>1, <1>2 DEF Becomes, Requests
<1>3. ASSUME NEW o, Answer(s, o)
      PROVE  /\ \A t \in Sessions \ {s} : sess'[t] = sess[t]
             /\ sess'[s].user = sess[s].user /\ sess'[s].scrip = sess[s].scrip
             /\ sess'[s].cut = sess[s].cut /\ sess'[s].list = sess[s].list
             /\ sess'[s].into = sess[s].into /\ sess'[s].pc = "idle" /\ sess'[s].outcome = o
  BY <1>1, <1>3 DEF Answer, Becomes, Requests
<1>4. ASSUME NEW p, NEW i, NEW n, Becomes(s, [sess[s] EXCEPT !.pc = p, !.into = i, !.item = n])
      PROVE  /\ \A t \in Sessions \ {s} : sess'[t] = sess[t]
             /\ sess'[s].user = sess[s].user /\ sess'[s].scrip = sess[s].scrip
             /\ sess'[s].cut = sess[s].cut /\ sess'[s].list = sess[s].list
             /\ sess'[s].into = i /\ sess'[s].pc = p
  BY <1>1, <1>4 DEF Becomes, Requests
<1>5. ASSUME NEW p, NEW l, Becomes(s, [sess[s] EXCEPT !.pc = p, !.list = l])
      PROVE  /\ \A t \in Sessions \ {s} : sess'[t] = sess[t]
             /\ sess'[s].user = sess[s].user /\ sess'[s].scrip = sess[s].scrip
             /\ sess'[s].cut = sess[s].cut /\ sess'[s].into = sess[s].into
             /\ sess'[s].list = l /\ sess'[s].pc = p
  BY <1>1, <1>5 DEF Becomes, Requests
<1>6. CASE CountItems(s)
  <2>1. sess[s].pc = "owned" /\ (Becomes(s, [sess[s] EXCEPT !.pc = "counted"]) \/ Answer(s, "refused"))
    BY <1>6 DEF CountItems
  <2> QED BY <1>2, <1>3, <1>6, <2>1 DEF CountItems, CheckScrip, InsertItem, InsertList, InsertFirst, CommitAdd, CommitCreate
<1>7. CASE CheckScrip(s)
  BY <1>2, <1>3, <1>7 DEF CountItems, CheckScrip, InsertItem, InsertList, InsertFirst, CommitAdd, CommitCreate
<1>8. CASE InsertItem(s)
  BY <1>4, <1>8 DEF CountItems, CheckScrip, InsertItem, InsertList, InsertFirst, CommitAdd, CommitCreate
<1>9. CASE InsertList(s)
  BY <1>5, <1>9 DEF CountItems, CheckScrip, InsertItem, InsertList, InsertFirst, CommitAdd, CommitCreate
<1>10. CASE InsertFirst(s)
  BY <1>4, <1>10 DEF CountItems, CheckScrip, InsertItem, InsertList, InsertFirst, CommitAdd, CommitCreate
<1>11. CASE CommitAdd(s) \/ CommitCreate(s)
  BY <1>3, <1>11 DEF CountItems, CheckScrip, InsertItem, InsertList, InsertFirst, CommitAdd, CommitCreate
<1> QED BY <1>6, <1>7, <1>8, <1>9, <1>10, <1>11 DEF Continue

\* The removal of an item.
LEMMA Deletes ==
  ASSUME TypeOK, NEW i \in items, DeleteItem(i)
  PROVE  /\ items' = items \ {i} /\ UNCHANGED <<lists, nextList, nextItem>>
         /\ \A s \in Sessions :
              /\ sess'[s] = [sess[s] EXCEPT !.cut = sess'[s].cut]
              /\ sess'[s].pc = sess[s].pc /\ sess'[s].user = sess[s].user
              /\ sess'[s].scrip = sess[s].scrip /\ sess'[s].list = sess[s].list
              /\ sess'[s].into = sess[s].into /\ sess'[s].outcome = sess[s].outcome
              /\ ~sess'[s].cut =>
                   ~sess[s].cut /\ (sess[s].list # i.list \/ sess[s].scrip # i.scrip)
<1> SUFFICES ASSUME NEW s \in Sessions
             PROVE  /\ sess'[s] = [sess[s] EXCEPT !.cut = sess'[s].cut]
                    /\ sess'[s].pc = sess[s].pc /\ sess'[s].user = sess[s].user
                    /\ sess'[s].scrip = sess[s].scrip /\ sess'[s].list = sess[s].list
                    /\ sess'[s].into = sess[s].into /\ sess'[s].outcome = sess[s].outcome
                    /\ ~sess'[s].cut =>
                         ~sess[s].cut /\ (sess[s].list # i.list \/ sess[s].scrip # i.scrip)
  BY DEF DeleteItem
<1> DEFINE c == sess[s].cut \/ (sess[s].list = i.list /\ sess[s].scrip = i.scrip)
<1>1. sess[s] \in Requests
  BY DEF TypeOK
<1>2. sess'[s] = [sess[s] EXCEPT !.cut = c]
  BY DEF DeleteItem
<1> HIDE DEF c
<1>3. /\ sess'[s].cut = c
      /\ sess'[s].pc = sess[s].pc /\ sess'[s].user = sess[s].user
      /\ sess'[s].scrip = sess[s].scrip /\ sess'[s].list = sess[s].list
      /\ sess'[s].into = sess[s].into /\ sess'[s].outcome = sess[s].outcome
  BY <1>1, <1>2 DEF Requests
<1> QED BY <1>2, <1>3 DEF c

-----------------------------------------------------------------------------
(* Types *)

\* The record of a request that starts has its type.
LEMMA StartType ==
  ASSUME NEW p \in Points, NEW u \in Users \cup {None}, NEW l \in Nat,
         NEW scrip \in Scrips \cup {None}
  PROVE  /\ Start(p, u, l, scrip) \in Requests
         /\ \A o \in {"added", "created", "refused", "error"} :
              [Start(p, u, l, scrip) EXCEPT !.outcome = o] \in Requests
BY DEF Start, Requests

\* Every step keeps the types.
LEMMA TypeStep ==
  ASSUME WInv, [Next]_vars
  PROVE  TypeOK'
<1> USE WatchlistAssumption DEF WInv
<1>0. CASE UNCHANGED vars
  BY <1>0 DEF vars, TypeOK
<1>1. ASSUME NEW s \in Sessions, NEW u \in Users, NEW scrip \in Scrips,
             NEW l \in 0..MaxListId, BeginAdd(s, u, l, scrip)
      PROVE  TypeOK'
  <2>1. {"owned", "idle"} \subseteq Points /\ l \in Nat
    BY DEF Points
  <2>2. /\ Start("owned", u, l, scrip) \in Requests
        /\ [Start("idle", u, l, scrip) EXCEPT !.outcome = "error"] \in Requests
    BY <2>1, StartType
  <2>3. sess' \in [Sessions -> Requests]
    BY <1>1, <2>2 DEF BeginAdd, Becomes, TypeOK
  <2> QED BY <1>1, <2>3 DEF BeginAdd, TypeOK
<1>2. ASSUME NEW s \in Sessions, NEW u \in Users, NEW scrip \in Scrips, BeginCreate(s, u, scrip)
      PROVE  TypeOK'
  <2>1. {"allowed", "idle"} \subseteq Points /\ 0 \in Nat
    BY DEF Points
  <2>2. /\ Start("allowed", u, 0, scrip) \in Requests
        /\ [Start("idle", u, 0, scrip) EXCEPT !.outcome = "refused"] \in Requests
    BY <2>1, StartType
  <2>3. sess' \in [Sessions -> Requests]
    BY <1>2, <2>2 DEF BeginCreate, Becomes, TypeOK
  <2> QED BY <1>2, <2>3 DEF BeginCreate, TypeOK
<1>3. ASSUME NEW s \in Sessions, Continue(s)
      PROVE  TypeOK'
  <2>1. /\ sess[s] \in Requests /\ sess \in [Sessions -> Requests]
        /\ nextList \in Nat \ {0} /\ nextItem \in Nat \ {0}
        /\ \A l \in lists : l.id \in Nat
    BY DEF TypeOK, Lists
  <2>2. ASSUME NEW r \in Requests, Becomes(s, r)
        PROVE  sess' \in [Sessions -> Requests]
    BY <2>1, <2>2 DEF Becomes
  <2>3. ASSUME NEW p \in Points PROVE [sess[s] EXCEPT !.pc = p] \in Requests
    BY <2>1 DEF Requests
  <2>4. ASSUME NEW o \in {"added", "created", "refused", "error"}
        PROVE  [sess[s] EXCEPT !.pc = "idle", !.outcome = o] \in Requests
    BY <2>1 DEF Requests, Points
  <2>5. ASSUME NEW p \in Points, NEW i \in Nat, NEW n \in Nat
        PROVE  [sess[s] EXCEPT !.pc = p, !.into = i, !.item = n] \in Requests
    BY <2>1 DEF Requests
  <2>6. ASSUME NEW p \in Points, NEW l \in Nat
        PROVE  [sess[s] EXCEPT !.pc = p, !.list = l] \in Requests
    BY <2>1 DEF Requests
  <2>7. {"counted", "absent", "inserted", "listed", "filled"} \subseteq Points
    BY DEF Points
  <2>8. CASE CountItems(s) \/ CheckScrip(s)
    BY <2>2, <2>3, <2>4, <2>7, <2>8 DEF CountItems, CheckScrip, Answer, TypeOK
  <2>9. CASE InsertItem(s)
    <3>1. [sess[s] EXCEPT !.pc = "inserted", !.into = sess[s].list, !.item = nextItem] \in Requests
      <4>1. sess[s].list \in Nat
        BY <2>1 DEF Requests
      <4> QED BY <2>1, <2>5, <2>7, <4>1
    <3> QED BY <2>1, <2>2, <2>9, <3>1 DEF InsertItem, TypeOK
  <2>10. CASE InsertList(s)
    <3>1. [sess[s] EXCEPT !.pc = "listed", !.list = nextList] \in Requests
      BY <2>1, <2>6, <2>7
    <3>2. sess' \in [Sessions -> Requests]
      BY <2>2, <2>10, <3>1 DEF InsertList
    <3> QED BY <2>1, <2>10, <3>2 DEF InsertList, TypeOK
  <2>11. CASE InsertFirst(s)
    <3>1. PICK id \in {sess[s].list} \cup {l.id : l \in ListsOf(sess[s].user)} :
                 Becomes(s, [sess[s] EXCEPT !.pc = "filled", !.into = id, !.item = nextItem])
      BY <2>11 DEF InsertFirst
    <3>2. id \in Nat
      BY <2>1, <3>1 DEF Requests, ListsOf
    <3>3. [sess[s] EXCEPT !.pc = "filled", !.into = id, !.item = nextItem] \in Requests
      BY <2>1, <2>5, <2>7, <3>2
    <3> QED BY <2>1, <2>2, <2>11, <3>1, <3>3 DEF InsertFirst, TypeOK
  <2>12. CASE CommitAdd(s) \/ CommitCreate(s)
    <3>1. sess[s].pc # "idle" /\ sess[s].user \in Users /\ sess[s].scrip \in Scrips
      BY <2>12 DEF CommitAdd, CommitCreate, Shaped
    <3>2. NewItem(s) \in WlItems /\ [id |-> sess[s].list, owner |-> sess[s].user] \in Lists
      BY <2>1, <3>1 DEF NewItem, WlItems, Lists, Requests
    <3>3. sess' \in [Sessions -> Requests]
      BY <2>2, <2>4, <2>12 DEF CommitAdd, CommitCreate, Answer
    <3> QED BY <2>1, <2>12, <3>2, <3>3 DEF CommitAdd, CommitCreate, TypeOK
  <2> QED BY <1>3, <2>8, <2>9, <2>10, <2>11, <2>12 DEF Continue
<1>4. ASSUME NEW i \in items, DeleteItem(i)
      PROVE  TypeOK'
  <2>1. \A s \in Sessions : sess'[s] \in Requests
    <3> SUFFICES ASSUME NEW s \in Sessions PROVE sess'[s] \in Requests
      OBVIOUS
    <3> DEFINE c == sess[s].cut \/ (sess[s].list = i.list /\ sess[s].scrip = i.scrip)
    <3>1. sess'[s] = [sess[s] EXCEPT !.cut = c] /\ c \in BOOLEAN
      BY <1>4 DEF DeleteItem, TypeOK, Requests
    <3> HIDE DEF c
    <3> QED BY <3>1 DEF TypeOK, Requests
  <2>2. sess' \in [Sessions -> Requests]
    BY <1>4, <2>1 DEF DeleteItem
  <2> QED BY <1>4, <2>2 DEF DeleteItem, TypeOK
<1> QED BY <1>0, <1>1, <1>2, <1>3, <1>4 DEF Next, Begin

-----------------------------------------------------------------------------
(* What a request has been given *)

\* The watchlists a request works on are its user's, and stay it: watchlists are
\* never removed.
LEMMA ShapedStep ==
  ASSUME WInv, [Next]_vars
  PROVE  Shaped' /\ ItemsStayWithOwner' /\ Finite'
<1> USE DEF WInv
<1>0. CASE UNCHANGED vars
  BY <1>0 DEF vars, Shaped, ItemsStayWithOwner, Finite
<1>a. /\ nextList \in Nat /\ sess \in [Sessions -> Requests]
      /\ \A s \in Sessions : sess[s].list \in Nat
  BY DEF TypeOK, Requests
<1>1. ASSUME NEW s \in Sessions, Begin(s)
      PROVE  Shaped' /\ ItemsStayWithOwner' /\ Finite'
  <2>1. PICK u \in Users, scrip \in Scrips :
               (\E l : BeginAdd(s, u, l, scrip)) \/ BeginCreate(s, u, scrip)
    BY <1>1 DEF Begin
  <2>2. /\ UNCHANGED <<lists, items, nextList, nextItem>>
        /\ \A t \in Sessions \ {s} : sess'[t] = sess[t]
        /\ sess'[s].user \in Users /\ sess'[s].scrip \in Scrips
        /\ \/ sess'[s].pc \in {"idle", "allowed"}
           \/ /\ sess'[s].pc = "owned"
              /\ [id |-> sess'[s].list, owner |-> sess'[s].user] \in lists
    <3>1. ASSUME NEW l, BeginAdd(s, u, l, scrip)
          PROVE  /\ sess'[s].user = u /\ sess'[s].list = l /\ sess'[s].scrip = scrip
                 /\ \/ sess'[s].pc = "owned" /\ [id |-> l, owner |-> u] \in lists
                    \/ sess'[s].pc = "idle"
                 /\ UNCHANGED <<lists, items, nextList, nextItem>>
                 /\ \A t \in Sessions \ {s} : sess'[t] = sess[t]
      BY <3>1, Begins
    <3>2. ASSUME BeginCreate(s, u, scrip)
          PROVE  /\ sess'[s].user = u /\ sess'[s].scrip = scrip
                 /\ sess'[s].pc \in {"idle", "allowed"}
                 /\ UNCHANGED <<lists, items, nextList, nextItem>>
                 /\ \A t \in Sessions \ {s} : sess'[t] = sess[t]
      BY <3>2, Begins
    <3> QED BY <2>1, <3>1, <3>2
  <2>3. Shaped'
    BY <2>2 DEF Shaped
  <2> QED BY <2>2, <2>3 DEF ItemsStayWithOwner, Finite
<1>2. ASSUME NEW s \in Sessions, Continue(s)
      PROVE  Shaped' /\ ItemsStayWithOwner' /\ Finite'
  <2> DEFINE r == sess'[s]
  <2>1. lists \subseteq lists' /\ nextList <= nextList' /\ nextList' \in Nat
    <3>1. lists \subseteq lists' /\ nextList' \in {nextList, nextList + 1}
      BY <1>2 DEF Continue, CountItems, CheckScrip, InsertItem, CommitAdd, InsertList,
         InsertFirst, CommitCreate
    <3> QED BY <1>a, <3>1
  <2>2. /\ \A t \in Sessions \ {s} : sess'[t] = sess[t]
        /\ r.user = sess[s].user /\ r.scrip = sess[s].scrip
    BY <1>2, Continues
  <2>3. sess[s].user \in Users /\ sess[s].scrip \in Scrips
    BY <1>2 DEF Continue, CountItems, CheckScrip, InsertItem, CommitAdd, InsertList,
       InsertFirst, CommitCreate, Shaped
  <2>4. /\ r.pc # "idle" => r.user \in Users /\ r.scrip \in Scrips
        /\ r.pc \in {"owned", "counted", "absent", "inserted"} =>
             [id |-> r.list, owner |-> r.user] \in lists
        /\ r.pc = "inserted" => r.into = r.list
        /\ r.pc \in {"listed", "filled"} => r.list < nextList'
        /\ r.pc = "filled" =>
             r.into = r.list \/ [id |-> r.into, owner |-> r.user] \in lists
    <3> HIDE DEF r
    <3>1. CASE CountItems(s) \/ CheckScrip(s) \/ InsertItem(s)
      <4>1. /\ sess[s].pc \in {"owned", "counted", "absent"}
            /\ \/ r.pc \in {"counted", "absent", "idle"}
               \/ r.pc = "inserted" /\ r.into = sess[s].list
            /\ r.list = sess[s].list
        <5>1. sess[s].pc \in {"owned", "counted", "absent"} /\ ~InsertList(s)
          BY <3>1 DEF CountItems, CheckScrip, InsertItem, InsertList
        <5> QED BY <1>2, <3>1, <5>1, Continues DEF r
      <4> QED BY <2>2, <2>3, <4>1 DEF Shaped
    <3>2. CASE InsertList(s)
      <4>1. r.pc = "listed" /\ r.list = nextList /\ nextList' = nextList + 1
        BY <1>2, <3>2, Continues DEF InsertList, r
      <4> QED BY <1>a, <2>2, <2>3, <4>1
    <3>3. CASE InsertFirst(s)
      <4>1. /\ r.pc = "filled" /\ sess[s].pc = "listed" /\ r.list = sess[s].list
            /\ r.into \in {sess[s].list} \cup {l.id : l \in ListsOf(sess[s].user)}
        BY <1>2, <3>3, Continues DEF InsertFirst, InsertList, r
      <4>2. r.into = r.list \/ [id |-> r.into, owner |-> r.user] \in lists
        BY <2>2, <4>1 DEF ListsOf, TypeOK, Lists
      <4>3. r.list < nextList'
        <5>1. sess[s].list < nextList
          BY <4>1 DEF Shaped
        <5> QED BY <1>a, <2>1, <4>1, <5>1
      <4> QED BY <2>2, <2>3, <4>1, <4>2, <4>3
    <3>4. CASE CommitAdd(s) \/ CommitCreate(s)
      BY <1>2, <3>4, Continues DEF r
    <3> QED BY <1>2, <3>1, <3>2, <3>3, <3>4 DEF Continue
  <2>5. Shaped'
    <3> SUFFICES ASSUME NEW t \in Sessions
                 PROVE  /\ sess'[t].pc # "idle" => sess'[t].user \in Users /\ sess'[t].scrip \in Scrips
                        /\ sess'[t].pc \in {"owned", "counted", "absent", "inserted"} =>
                             [id |-> sess'[t].list, owner |-> sess'[t].user] \in lists'
                        /\ sess'[t].pc = "inserted" => sess'[t].into = sess'[t].list
                        /\ sess'[t].pc \in {"listed", "filled"} => sess'[t].list < nextList'
                        /\ sess'[t].pc = "filled" =>
                             \/ sess'[t].into = sess'[t].list
                             \/ [id |-> sess'[t].into, owner |-> sess'[t].user] \in lists'
      BY DEF Shaped
    <3>1. CASE t = s
      BY <2>1, <2>4, <3>1
    <3>2. CASE t # s
      BY <1>a, <2>1, <2>2, <3>2 DEF Shaped
    <3> QED BY <3>1, <3>2
  <2>6. CASE lists' = lists /\ items' = items
    BY <1>a, <2>1, <2>5, <2>6 DEF ItemsStayWithOwner, Finite, TypeOK, Lists
  <2>7. CASE CommitAdd(s)
    <3>1. items' = items \cup {NewItem(s)} /\ lists' = lists /\ sess[s].pc = "inserted"
          /\ nextList' = nextList
      BY <2>7 DEF CommitAdd
    <3>2. [id |-> NewItem(s).list, owner |-> NewItem(s).by] \in lists
      BY <3>1 DEF NewItem, Shaped
    <3>3. IsFiniteSet(items')
      BY <3>1, FS_AddElement DEF Finite
    <3> QED BY <2>5, <3>1, <3>2, <3>3 DEF ItemsStayWithOwner, Finite
  <2>8. CASE CommitCreate(s)
    <3> DEFINE row == [id |-> sess[s].list, owner |-> sess[s].user]
    <3>1. items' = items \cup {NewItem(s)} /\ lists' = lists \cup {row} /\ sess[s].pc = "filled"
          /\ nextList' = nextList
      BY <2>8 DEF CommitCreate
    <3>2. [id |-> NewItem(s).list, owner |-> NewItem(s).by] \in lists'
      BY <3>1 DEF NewItem, Shaped
    <3>3. IsFiniteSet(items') /\ IsFiniteSet(lists')
      BY <3>1, FS_AddElement DEF Finite
    <3>4. \A l \in lists' : l.id < nextList'
      <4>1. row.id < nextList
        BY <3>1 DEF Shaped
      <4> HIDE DEF row
      <4> QED BY <3>1, <4>1 DEF Finite
    <3> QED BY <2>5, <3>1, <3>2, <3>3, <3>4 DEF ItemsStayWithOwner, Finite
  <2> QED BY <1>2, <2>6, <2>7, <2>8 DEF Continue, CountItems, CheckScrip, InsertItem, InsertList, InsertFirst
<1>3. ASSUME NEW i \in items, DeleteItem(i)
      PROVE  Shaped' /\ ItemsStayWithOwner' /\ Finite'
  <2>1. /\ items' = items \ {i} /\ UNCHANGED <<lists, nextList, nextItem>>
        /\ \A s \in Sessions :
             /\ sess'[s].pc = sess[s].pc /\ sess'[s].user = sess[s].user
             /\ sess'[s].scrip = sess[s].scrip /\ sess'[s].list = sess[s].list
             /\ sess'[s].into = sess[s].into
    BY <1>3, Deletes
  <2>2. IsFiniteSet(items')
    BY <2>1, FS_Subset DEF Finite
  <2>3. Shaped'
    BY <2>1 DEF Shaped
  <2> QED BY <2>1, <2>2, <2>3 DEF ItemsStayWithOwner, Finite
<1> QED BY <1>0, <1>1, <1>2, <1>3 DEF Next

-----------------------------------------------------------------------------
(* Counting *)

\* What is there and what is coming: a step that moves one from the latter to
\* the former does not increase the sum.
LEMMA CountMove ==
  ASSUME NEW A, NEW B, IsFiniteSet(A), IsFiniteSet(B),
         NEW C, NEW D, NEW x, NEW y \in B, C \subseteq A \cup {x}, D \subseteq B \ {y}
  PROVE  Cardinality(C) + Cardinality(D) <= Cardinality(A) + Cardinality(B)
<1>1. IsFiniteSet(A \cup {x}) /\ Cardinality(A \cup {x}) <= Cardinality(A) + 1
  <2>1. CASE x \in A
    <3>1. A \cup {x} = A
      BY <2>1
    <3>2. Cardinality(A) \in Nat
      BY FS_CardinalityType
    <3> QED BY <3>1, <3>2
  <2>2. CASE x \notin A
    <3>1. IsFiniteSet(A \cup {x}) /\ Cardinality(A \cup {x}) = Cardinality(A) + 1
      BY <2>2, FS_AddElement
    <3>2. Cardinality(A) \in Nat
      BY FS_CardinalityType
    <3> QED BY <3>1, <3>2
  <2> QED BY <2>1, <2>2
<1>2. IsFiniteSet(B \ {y}) /\ Cardinality(B \ {y}) = Cardinality(B) - 1
  BY FS_RemoveElement
<1>3. Cardinality(C) <= Cardinality(A \cup {x}) /\ Cardinality(C) \in Nat
  BY <1>1, FS_Subset, FS_CardinalityType
<1>4. Cardinality(D) <= Cardinality(B \ {y}) /\ Cardinality(D) \in Nat
  BY <1>2, FS_Subset, FS_CardinalityType
<1>5. Cardinality(A) \in Nat /\ Cardinality(B) \in Nat /\ Cardinality(A \cup {x}) \in Nat
  BY <1>1, FS_CardinalityType
<1> QED BY <1>1, <1>2, <1>3, <1>4, <1>5

\* Nor does one that adds to neither.
LEMMA CountShrink ==
  ASSUME NEW A, NEW B, IsFiniteSet(A), IsFiniteSet(B),
         NEW C, NEW D, C \subseteq A, D \subseteq B
  PROVE  Cardinality(C) + Cardinality(D) <= Cardinality(A) + Cardinality(B)
<1>1. Cardinality(C) <= Cardinality(A) /\ Cardinality(C) \in Nat
  BY FS_Subset, FS_CardinalityType
<1>2. Cardinality(D) <= Cardinality(B) /\ Cardinality(D) \in Nat
  BY FS_Subset, FS_CardinalityType
<1>3. Cardinality(A) \in Nat /\ Cardinality(B) \in Nat
  BY FS_CardinalityType
<1> QED BY <1>1, <1>2, <1>3

\* Whoever passes a check passes it with all the others at most.
LEMMA CountOpen ==
  ASSUME NEW A, IsFiniteSet(A), NEW M \in Nat, Cardinality(A) < M,
         NEW D \in SUBSET Sessions
  PROVE  Cardinality(A) + Cardinality(D) < M + Cardinality(Sessions)
<1>1. Cardinality(A) \in Nat
  BY FS_CardinalityType
<1>2. /\ Cardinality(D) <= Cardinality(Sessions)
      /\ Cardinality(D) \in Nat /\ Cardinality(Sessions) \in Nat
  BY WatchlistAssumption, FS_Subset, FS_CardinalityType
<1> QED BY <1>1, <1>2

\* The sets counted are finite, and their sizes numbers.
LEMMA Finiteness ==
  ASSUME WInv
  PROVE  /\ \A u : /\ IsFiniteSet(ListsOf(u)) /\ IsFiniteSet(Creating(u))
                   /\ Cardinality(ListsOf(u)) + Cardinality(Creating(u)) \in Nat
         /\ \A l : /\ IsFiniteSet(ItemsOf(l)) /\ IsFiniteSet(Filling(l))
                   /\ Cardinality(ItemsOf(l)) + Cardinality(Filling(l)) \in Nat
         /\ \A l, scrip :
              /\ IsFiniteSet(Copies(l, scrip)) /\ IsFiniteSet(Copying(l, scrip))
              /\ Cardinality(Copies(l, scrip)) + Cardinality(Copying(l, scrip)) \in Nat
         /\ Cardinality(Sessions) \in Nat
<1>1. IsFiniteSet(lists) /\ IsFiniteSet(items) /\ IsFiniteSet(Sessions)
  BY WatchlistAssumption DEF WInv, Finite
<1>2. \A u : IsFiniteSet(ListsOf(u)) /\ IsFiniteSet(Creating(u))
  BY <1>1, FS_Subset DEF ListsOf, Creating
<1>3. \A l : IsFiniteSet(ItemsOf(l)) /\ IsFiniteSet(Filling(l))
  BY <1>1, FS_Subset DEF ItemsOf, Filling
<1>4. \A l, scrip : IsFiniteSet(Copies(l, scrip)) /\ IsFiniteSet(Copying(l, scrip))
  BY <1>1, <1>3, FS_Subset DEF Copies, Copying
<1> QED BY <1>1, <1>2, <1>3, <1>4, FS_CardinalityType

\* The limit of watchlists is overshot by creations that race, and by no more.
LEMMA ListsStep ==
  ASSUME WInv, [Next]_vars
  PROVE  ListsBounded'
<1> USE DEF WInv
<1> SUFFICES ASSUME NEW u \in Users
             PROVE  (Cardinality(ListsOf(u)) + Cardinality(Creating(u)))'
                      < MaxLists + Cardinality(Sessions)
  BY DEF ListsBounded
<1>1. /\ IsFiniteSet(ListsOf(u)) /\ IsFiniteSet(Creating(u))
      /\ Cardinality(ListsOf(u)) + Cardinality(Creating(u)) < MaxLists + Cardinality(Sessions)
      /\ Cardinality(ListsOf(u)) + Cardinality(Creating(u)) \in Nat
      /\ Cardinality(Sessions) \in Nat /\ MaxLists \in Nat
  BY WatchlistAssumption, Finiteness DEF ListsBounded
<1>2. (Cardinality(ListsOf(u)) + Cardinality(Creating(u)))' \in Int
  <2>1. IsFiniteSet(lists') /\ IsFiniteSet(Sessions)
    BY ShapedStep, WatchlistAssumption DEF Finite
  <2>2. IsFiniteSet(ListsOf(u)') /\ IsFiniteSet(Creating(u)')
    BY <2>1, FS_Subset DEF ListsOf, Creating
  <2> QED BY <2>2, FS_CardinalityType
<1>3. ASSUME ListsOf(u)' \subseteq ListsOf(u), Creating(u)' \subseteq Creating(u)
      PROVE  (Cardinality(ListsOf(u)) + Cardinality(Creating(u)))'
               < MaxLists + Cardinality(Sessions)
  <2>1. (Cardinality(ListsOf(u)) + Cardinality(Creating(u)))'
           <= Cardinality(ListsOf(u)) + Cardinality(Creating(u))
    BY <1>1, <1>3, CountShrink
  <2> QED BY <1>1, <1>2, <2>1
<1>4. CASE UNCHANGED vars
  BY <1>3, <1>4 DEF vars, ListsOf, Creating
<1>5. ASSUME NEW s \in Sessions, Begin(s)
      PROVE  (Cardinality(ListsOf(u)) + Cardinality(Creating(u)))'
               < MaxLists + Cardinality(Sessions)
  <2>1. PICK v \in Users, scrip \in Scrips :
               (\E l : BeginAdd(s, v, l, scrip)) \/ BeginCreate(s, v, scrip)
    BY <1>5 DEF Begin
  <2>2. UNCHANGED lists /\ \A t \in Sessions \ {s} : sess'[t] = sess[t]
    BY <2>1, Begins
  <2>3. ListsOf(u)' = ListsOf(u)
    BY <2>2 DEF ListsOf
  <2>4. CASE sess'[s].user = u /\ sess'[s].pc = "allowed"
    <3>1. BeginCreate(s, v, scrip) /\ v = u
      BY <2>1, <2>4, Begins
    <3>2. Cardinality(ListsOf(u)) < MaxLists
      BY <2>4, <3>1, Begins
    <3>3. Creating(u)' \in SUBSET Sessions
      BY DEF Creating
    <3> QED BY <1>1, <2>3, <3>2, <3>3, CountOpen
  <2>5. CASE ~(sess'[s].user = u /\ sess'[s].pc = "allowed")
    <3>1. sess'[s].user # u \/ sess'[s].pc \in {"idle", "owned"}
      BY <2>1, <2>5, Begins
    <3>2. Creating(u)' \subseteq Creating(u)
      BY <2>2, <3>1 DEF Creating
    <3> QED BY <1>3, <2>3, <3>2
  <2> QED BY <2>4, <2>5
<1>6. ASSUME NEW s \in Sessions, Continue(s)
      PROVE  (Cardinality(ListsOf(u)) + Cardinality(Creating(u)))'
               < MaxLists + Cardinality(Sessions)
  <2>1. (\A t \in Sessions \ {s} : sess'[t] = sess[t]) /\ sess'[s].user = sess[s].user
    BY <1>6, Continues
  <2>2. CASE CommitCreate(s) /\ sess[s].user = u
    <3> DEFINE row == [id |-> sess[s].list, owner |-> sess[s].user]
    <3>1. lists' = lists \cup {row} /\ sess[s].pc = "filled" /\ sess'[s].pc = "idle"
      BY <1>6, <2>2, Continues DEF CommitCreate
    <3> HIDE DEF row
    <3>2. ListsOf(u)' \subseteq ListsOf(u) \cup {row}
      BY <3>1 DEF ListsOf
    <3>3. s \in Creating(u) /\ Creating(u)' \subseteq Creating(u) \ {s}
      BY <2>1, <2>2, <3>1 DEF Creating
    <3>4. (Cardinality(ListsOf(u)) + Cardinality(Creating(u)))'
             <= Cardinality(ListsOf(u)) + Cardinality(Creating(u))
      BY <1>1, <3>2, <3>3, CountMove
    <3> QED BY <1>1, <1>2, <3>4
  <2>3. CASE ~(CommitCreate(s) /\ sess[s].user = u)
    <3>1. ListsOf(u)' \subseteq ListsOf(u)
      <4>1. CASE CommitCreate(s)
        BY <2>3, <4>1 DEF CommitCreate, ListsOf
      <4>2. CASE ~CommitCreate(s)
        <5>1. lists' = lists
          BY <1>6, <4>2 DEF Continue, CountItems, CheckScrip, InsertItem, InsertList,
             InsertFirst, CommitAdd
        <5> QED BY <5>1 DEF ListsOf
      <4> QED BY <4>1, <4>2
    <3>2. sess'[s].pc \in {"listed", "filled"} => sess[s].pc \in {"allowed", "listed"}
      <4>1. CASE InsertList(s) \/ InsertFirst(s)
        BY <4>1 DEF InsertList, InsertFirst
      <4>2. CASE ~(InsertList(s) \/ InsertFirst(s))
        BY <1>6, <4>2, Continues DEF Continue
      <4> QED BY <4>1, <4>2
    <3>3. sess'[s].pc # "allowed"
      BY <1>6, Continues DEF Continue
    <3>4. Creating(u)' \subseteq Creating(u)
      BY <2>1, <3>2, <3>3 DEF Creating
    <3> QED BY <1>3, <3>1, <3>4
  <2> QED BY <2>2, <2>3
<1>7. ASSUME NEW i \in items, DeleteItem(i)
      PROVE  (Cardinality(ListsOf(u)) + Cardinality(Creating(u)))'
               < MaxLists + Cardinality(Sessions)
  <2>1. ListsOf(u)' = ListsOf(u)
    BY <1>7, Deletes DEF ListsOf
  <2>2. \A s \in Sessions : sess'[s].pc = sess[s].pc /\ sess'[s].user = sess[s].user
    BY <1>7, Deletes
  <2>3. Creating(u)' = Creating(u)
    BY <2>2 DEF Creating
  <2> QED BY <1>3, <2>1, <2>3
<1> QED BY <1>4, <1>5, <1>6, <1>7 DEF Next

\* How a request comes to head for a watchlist: by the check of its additions,
\* or by drawing the id of a watchlist when there is nothing on this one yet.
LEMMA HeadingStep ==
  ASSUME WInv, NEW s \in Sessions, Begin(s) \/ Continue(s), NEW l \in Nat,
         NEW points \in {{"counted", "absent", "inserted"}, {"absent", "inserted"}},
         Heading(s, l, points)'
  PROVE  /\ sess'[s].scrip = sess[s].scrip
         /\ \/ Heading(s, l, points)
            \/ InsertList(s) /\ nextList <= l
            \/ /\ CountItems(s) /\ "counted" \in points /\ sess[s].list = l
               /\ Cardinality(ItemsOf(l)) < MaxItems
            \/ /\ CheckScrip(s) /\ "counted" \notin points /\ sess[s].list = l
               /\ Copies(l, sess[s].scrip) = {}
<1> USE DEF WInv, Heading
<1>0. /\ sess[s].list \in Nat /\ sess'[s].into \in Nat
  BY TypeStep DEF TypeOK, Requests, Next
<1>1. CASE Begin(s)
  <2>1. PICK u \in Users, scrip \in Scrips :
               (\E m : BeginAdd(s, u, m, scrip)) \/ BeginCreate(s, u, scrip)
    BY <1>1 DEF Begin
  <2>2. sess'[s].pc \in {"idle", "owned", "allowed"}
    BY <2>1, Begins
  <2> QED BY <2>2
<1>2. CASE CountItems(s)
  BY <1>2, Continues DEF CountItems, InsertList, Continue
<1>3. CASE CheckScrip(s)
  BY <1>3, Continues DEF CheckScrip, InsertList, Continue
<1>4. CASE InsertItem(s)
  BY <1>4, Continues DEF InsertItem, InsertList, Continue
<1>5. CASE InsertList(s)
  BY <1>5, Continues DEF InsertList, Continue
<1>6. CASE InsertFirst(s)
  <2>1. /\ sess[s].pc = "listed" /\ sess'[s].pc = "filled" /\ sess'[s].into = l
        /\ sess[s].list <= sess'[s].into /\ sess'[s].scrip = sess[s].scrip
    BY <1>6, Continues DEF InsertFirst, Continue
  <2> QED BY <2>1
<1>7. CASE CommitAdd(s) \/ CommitCreate(s)
  BY <1>7, Continues DEF Continue
<1> QED BY <1>1, <1>2, <1>3, <1>4, <1>5, <1>6, <1>7 DEF Continue

\* The other requests keep heading where they were.
LEMMA HeadingStays ==
  ASSUME NEW t, sess'[t] = sess[t], NEW l, NEW points
  PROVE  Heading(t, l, points)' = Heading(t, l, points)
BY DEF Heading

\* A committed item comes from a request that headed for its watchlist and no
\* longer does.
LEMMA CommitsItem ==
  ASSUME WInv, NEW s \in Sessions, CommitAdd(s) \/ CommitCreate(s), NEW l,
         NEW points \in {{"counted", "absent", "inserted"}, {"absent", "inserted"}}
  PROVE  /\ items' = items \cup {NewItem(s)}
         /\ NewItem(s).list = l => Heading(s, l, points)
         /\ NewItem(s).scrip = sess[s].scrip
         /\ ~Heading(s, l, points)'
<1> USE DEF WInv
<1>1. sess'[s].pc = "idle"
  BY Continues DEF Continue
<1>2. (sess[s].pc = "inserted" /\ sess[s].into = sess[s].list) \/ sess[s].pc = "filled"
  BY DEF CommitAdd, CommitCreate, Shaped
<1>3. items' = items \cup {NewItem(s)}
  BY DEF CommitAdd, CommitCreate
<1> QED BY <1>1, <1>2, <1>3 DEF Heading, NewItem

\* Nothing is on a watchlist before there is one.
LEMMA NothingYet ==
  ASSUME WInv, NEW l \in Nat, nextList <= l
  PROVE  ItemsOf(l) = {}
<1>1. \A i \in items : i.list < nextList
  BY DEF WInv, ItemsStayWithOwner, Finite
<1>2. nextList \in Nat
  BY DEF WInv, TypeOK
<1> QED BY <1>1, <1>2 DEF ItemsOf

\* The sets counted after a step.
LEMMA NextFiniteness ==
  ASSUME WInv, [Next]_vars, NEW l, NEW scrip
  PROVE  /\ (Cardinality(ItemsOf(l)) + Cardinality(Filling(l)))' \in Int
         /\ (Cardinality(Copies(l, scrip)) + Cardinality(Copying(l, scrip)))' \in Int
<1>1. IsFiniteSet(items') /\ IsFiniteSet(Sessions)
  BY ShapedStep, WatchlistAssumption DEF Finite
<1>2. IsFiniteSet(ItemsOf(l)') /\ IsFiniteSet(Filling(l)')
  BY <1>1, FS_Subset DEF ItemsOf, Filling
<1>3. IsFiniteSet(Copies(l, scrip)') /\ IsFiniteSet(Copying(l, scrip)')
  BY <1>1, <1>2, FS_Subset DEF Copies, Copying
<1> QED BY <1>2, <1>3, FS_CardinalityType

\* The limit of items is overshot by requests that race, and by no more.
LEMMA ItemsStep ==
  ASSUME WInv, [Next]_vars
  PROVE  ItemsBounded'
<1> USE DEF WInv
<1> SUFFICES ASSUME NEW l \in Nat
             PROVE  (Cardinality(ItemsOf(l)) + Cardinality(Filling(l)))'
                      < MaxItems + Cardinality(Sessions)
  BY DEF ItemsBounded
<1>1. /\ IsFiniteSet(ItemsOf(l)) /\ IsFiniteSet(Filling(l))
      /\ Cardinality(ItemsOf(l)) + Cardinality(Filling(l)) < MaxItems + Cardinality(Sessions)
      /\ Cardinality(ItemsOf(l)) + Cardinality(Filling(l)) \in Nat
      /\ Cardinality(Sessions) \in Nat /\ MaxItems \in Nat /\ 0 < MaxItems
      /\ (Cardinality(ItemsOf(l)) + Cardinality(Filling(l)))' \in Int
  BY WatchlistAssumption, Finiteness, NextFiniteness DEF ItemsBounded
<1>2. ASSUME ItemsOf(l)' \subseteq ItemsOf(l), Filling(l)' \subseteq Filling(l)
      PROVE  (Cardinality(ItemsOf(l)) + Cardinality(Filling(l)))'
               < MaxItems + Cardinality(Sessions)
  <2>1. (Cardinality(ItemsOf(l)) + Cardinality(Filling(l)))'
           <= Cardinality(ItemsOf(l)) + Cardinality(Filling(l))
    BY <1>1, <1>2, CountShrink
  <2> QED BY <1>1, <2>1
<1>3. CASE UNCHANGED vars
  BY <1>2, <1>3 DEF vars, ItemsOf, Filling, Heading
<1>4. ASSUME NEW s \in Sessions, Begin(s) \/ Continue(s)
      PROVE  (Cardinality(ItemsOf(l)) + Cardinality(Filling(l)))'
               < MaxItems + Cardinality(Sessions)
  <2> DEFINE P == {"counted", "absent", "inserted"}
  <2>1. \A t \in Sessions \ {s} : sess'[t] = sess[t]
    BY <1>4, Begins, Continues DEF Begin
  <2>2. \A t \in Sessions \ {s} : Heading(t, l, P)' = Heading(t, l, P)
    BY <2>1, HeadingStays
  <2>3. Filling(l)' \subseteq Filling(l) \cup {s}
    BY <2>2 DEF Filling
  <2>4. CASE CommitAdd(s) \/ CommitCreate(s)
    <3>1. /\ items' = items \cup {NewItem(s)}
          /\ NewItem(s).list = l => Heading(s, l, P)
          /\ ~Heading(s, l, P)'
      BY <2>4, CommitsItem
    <3>2. Filling(l)' \subseteq Filling(l) \ {s}
      BY <2>3, <3>1 DEF Filling
    <3>3. CASE NewItem(s).list = l
      <4>1. ItemsOf(l)' \subseteq ItemsOf(l) \cup {NewItem(s)}
        BY <3>1 DEF ItemsOf
      <4>2. s \in Filling(l)
        BY <3>1, <3>3 DEF Filling
      <4>3. (Cardinality(ItemsOf(l)) + Cardinality(Filling(l)))'
               <= Cardinality(ItemsOf(l)) + Cardinality(Filling(l))
        BY <1>1, <3>2, <4>1, <4>2, CountMove
      <4> QED BY <1>1, <4>3
    <3>4. CASE NewItem(s).list # l
      <4>1. ItemsOf(l)' \subseteq ItemsOf(l)
        BY <3>1, <3>4 DEF ItemsOf
      <4> QED BY <1>2, <3>2, <4>1
    <3> QED BY <3>3, <3>4
  <2>5. CASE ~(CommitAdd(s) \/ CommitCreate(s))
    <3>1. items' = items
      BY <1>4, <2>5, Begins DEF Begin, Continue, CountItems, CheckScrip, InsertItem, InsertList, InsertFirst
    <3>2. ItemsOf(l)' = ItemsOf(l)
      BY <3>1 DEF ItemsOf
    <3>3. CASE Heading(s, l, P)' /\ ~Heading(s, l, P)
      <4>1. Cardinality(ItemsOf(l)) < MaxItems \/ nextList <= l
        BY <1>4, <3>3, HeadingStep
      <4>2. Cardinality(ItemsOf(l)) < MaxItems
        BY <1>1, <4>1, NothingYet, FS_EmptySet
      <4>3. Filling(l)' \in SUBSET Sessions
        BY DEF Filling
      <4> QED BY <1>1, <3>2, <4>2, <4>3, CountOpen
    <3>4. CASE ~(Heading(s, l, P)' /\ ~Heading(s, l, P))
      <4>1. Filling(l)' \subseteq Filling(l)
        BY <2>2, <3>4 DEF Filling
      <4> QED BY <1>2, <3>2, <4>1
    <3> QED BY <3>3, <3>4
  <2> QED BY <2>4, <2>5
<1>5. ASSUME NEW i \in items, DeleteItem(i)
      PROVE  (Cardinality(ItemsOf(l)) + Cardinality(Filling(l)))'
               < MaxItems + Cardinality(Sessions)
  <2>1. ItemsOf(l)' \subseteq ItemsOf(l)
    BY <1>5, Deletes DEF ItemsOf
  <2>2. \A s \in Sessions : /\ sess'[s].pc = sess[s].pc /\ sess'[s].list = sess[s].list
                           /\ sess'[s].into = sess[s].into
    BY <1>5, Deletes
  <2>3. Filling(l)' = Filling(l)
    BY <2>2 DEF Filling, Heading
  <2> QED BY <1>2, <2>1, <2>3
<1> QED BY <1>3, <1>4, <1>5 DEF Next

\* Racing additions of a scrip put it on the list once each, and no more often.
LEMMA CopiesStep ==
  ASSUME WInv, [Next]_vars
  PROVE  CopiesBounded'
<1> USE DEF WInv
<1> SUFFICES ASSUME NEW l \in Nat, NEW scrip \in Scrips
             PROVE  (Cardinality(Copies(l, scrip)) + Cardinality(Copying(l, scrip)))'
                      <= Cardinality(Sessions)
  BY DEF CopiesBounded
<1>1. /\ IsFiniteSet(Copies(l, scrip)) /\ IsFiniteSet(Copying(l, scrip))
      /\ Cardinality(Copies(l, scrip)) + Cardinality(Copying(l, scrip)) <= Cardinality(Sessions)
      /\ Cardinality(Copies(l, scrip)) + Cardinality(Copying(l, scrip)) \in Nat
      /\ Cardinality(Sessions) \in Nat
      /\ (Cardinality(Copies(l, scrip)) + Cardinality(Copying(l, scrip)))' \in Int
  BY Finiteness, NextFiniteness DEF CopiesBounded
<1>2. ASSUME Copies(l, scrip)' \subseteq Copies(l, scrip),
             Copying(l, scrip)' \subseteq Copying(l, scrip)
      PROVE  (Cardinality(Copies(l, scrip)) + Cardinality(Copying(l, scrip)))'
               <= Cardinality(Sessions)
  <2>1. (Cardinality(Copies(l, scrip)) + Cardinality(Copying(l, scrip)))'
           <= Cardinality(Copies(l, scrip)) + Cardinality(Copying(l, scrip))
    BY <1>1, <1>2, CountShrink
  <2> QED BY <1>1, <2>1
<1>3. CASE UNCHANGED vars
  BY <1>2, <1>3 DEF vars, ItemsOf, Copies, Copying, Heading
<1>4. ASSUME NEW s \in Sessions, Begin(s) \/ Continue(s)
      PROVE  (Cardinality(Copies(l, scrip)) + Cardinality(Copying(l, scrip)))'
               <= Cardinality(Sessions)
  <2> DEFINE P == {"absent", "inserted"}
  <2>1. \A t \in Sessions \ {s} : sess'[t] = sess[t]
    BY <1>4, Begins, Continues DEF Begin
  <2>2. \A t \in Sessions \ {s} : Heading(t, l, P)' = Heading(t, l, P)
    BY <2>1, HeadingStays
  <2>3. Copying(l, scrip)' \subseteq Copying(l, scrip) \cup {s}
    BY <2>1, <2>2 DEF Copying
  <2>4. CASE CommitAdd(s) \/ CommitCreate(s)
    <3>1. /\ items' = items \cup {NewItem(s)}
          /\ NewItem(s).list = l => Heading(s, l, P)
          /\ NewItem(s).scrip = sess[s].scrip
          /\ ~Heading(s, l, P)'
      BY <2>4, CommitsItem
    <3>2. Copying(l, scrip)' \subseteq Copying(l, scrip) \ {s}
      BY <2>3, <3>1 DEF Copying
    <3>3. CASE NewItem(s).list = l /\ NewItem(s).scrip = scrip
      <4>1. Copies(l, scrip)' \subseteq Copies(l, scrip) \cup {NewItem(s)}
        BY <3>1 DEF Copies, ItemsOf
      <4>2. s \in Copying(l, scrip)
        BY <3>1, <3>3 DEF Copying
      <4>3. (Cardinality(Copies(l, scrip)) + Cardinality(Copying(l, scrip)))'
               <= Cardinality(Copies(l, scrip)) + Cardinality(Copying(l, scrip))
        BY <1>1, <3>2, <4>1, <4>2, CountMove
      <4> QED BY <1>1, <4>3
    <3>4. CASE ~(NewItem(s).list = l /\ NewItem(s).scrip = scrip)
      <4>1. Copies(l, scrip)' \subseteq Copies(l, scrip)
        BY <3>1, <3>4 DEF Copies, ItemsOf
      <4> QED BY <1>2, <3>2, <4>1
    <3> QED BY <3>3, <3>4
  <2>5. CASE ~(CommitAdd(s) \/ CommitCreate(s))
    <3>1. items' = items
      BY <1>4, <2>5, Begins DEF Begin, Continue, CountItems, CheckScrip, InsertItem, InsertList, InsertFirst
    <3>2. Copies(l, scrip)' = Copies(l, scrip)
      BY <3>1 DEF Copies, ItemsOf
    <3>3. CASE s \in Copying(l, scrip)' /\ s \notin Copying(l, scrip)
      <4>1. Heading(s, l, P)' /\ sess'[s].scrip = scrip
        BY <3>3 DEF Copying
      <4>2. ~Heading(s, l, P) /\ sess[s].scrip = scrip
        <5>1. sess'[s].scrip = sess[s].scrip
          BY <1>4, <4>1, HeadingStep
        <5> QED BY <3>3, <4>1, <5>1 DEF Copying
      <4>3. Copies(l, scrip) = {} \/ nextList <= l
        BY <1>4, <4>1, <4>2, HeadingStep
      <4>4. Copies(l, scrip) = {}
        BY <4>3, NothingYet DEF Copies
      <4>5. Cardinality(Copies(l, scrip)') = 0
        BY <3>2, <4>4, FS_EmptySet
      <4>6. Copying(l, scrip)' \subseteq Sessions
        BY DEF Copying
      <4>7. Cardinality(Copying(l, scrip)') <= Cardinality(Sessions)
             /\ Cardinality(Copying(l, scrip)') \in Nat
        BY <4>6, WatchlistAssumption, FS_Subset, FS_CardinalityType
      <4> QED BY <1>1, <4>5, <4>7
    <3>4. CASE ~(s \in Copying(l, scrip)' /\ s \notin Copying(l, scrip))
      <4>1. Copying(l, scrip)' \subseteq Copying(l, scrip)
        BY <2>3, <3>4
      <4> QED BY <1>2, <3>2, <4>1
    <3> QED BY <3>3, <3>4
  <2> QED BY <2>4, <2>5
<1>5. ASSUME NEW i \in items, DeleteItem(i)
      PROVE  (Cardinality(Copies(l, scrip)) + Cardinality(Copying(l, scrip)))'
               <= Cardinality(Sessions)
  <2>1. Copies(l, scrip)' \subseteq Copies(l, scrip)
    BY <1>5, Deletes DEF Copies, ItemsOf
  <2>2. \A s \in Sessions : /\ sess'[s].pc = sess[s].pc /\ sess'[s].list = sess[s].list
                           /\ sess'[s].into = sess[s].into /\ sess'[s].scrip = sess[s].scrip
    BY <1>5, Deletes
  <2>3. Copying(l, scrip)' = Copying(l, scrip)
    BY <2>2 DEF Copying, Heading
  <2> QED BY <1>2, <2>1, <2>3
<1> QED BY <1>3, <1>4, <1>5 DEF Next

\* Who is told that the scrip was added keeps it on the list till it is deleted.
LEMMA AddedStep ==
  ASSUME WInv, [Next]_vars
  PROVE  AddedIsListed'
<1> USE DEF WInv
<1> SUFFICES ASSUME NEW t \in Sessions, sess'[t].pc = "idle",
                    sess'[t].outcome = "added", ~sess'[t].cut
             PROVE  Copies(sess[t].list, sess[t].scrip)' # {}
  BY DEF AddedIsListed
<1>1. ASSUME sess'[t] = sess[t], items \subseteq items'
      PROVE  Copies(sess[t].list, sess[t].scrip)' # {}
  <2>1. Copies(sess[t].list, sess[t].scrip) # {}
    BY <1>1 DEF AddedIsListed
  <2> QED BY <1>1, <2>1 DEF Copies, ItemsOf
<1>2. CASE UNCHANGED vars
  BY <1>1, <1>2 DEF vars
<1>3. ASSUME NEW s \in Sessions, Begin(s)
      PROVE  Copies(sess[t].list, sess[t].scrip)' # {}
  <2>1. PICK u \in Users, scrip \in Scrips :
               (\E m : BeginAdd(s, u, m, scrip)) \/ BeginCreate(s, u, scrip)
    BY <1>3 DEF Begin
  <2>2. t # s /\ sess'[t] = sess[t] /\ items' = items
    BY <2>1, Begins
  <2> QED BY <1>1, <2>2
<1>4. ASSUME NEW s \in Sessions, Continue(s)
      PROVE  Copies(sess[t].list, sess[t].scrip)' # {}
  <2>1. items \subseteq items'
    BY <1>4 DEF Continue, CountItems, CheckScrip, InsertItem, CommitAdd, InsertList,
       InsertFirst, CommitCreate
  <2>2. CASE t # s
    BY <1>1, <1>4, <2>1, <2>2, Continues
  <2>3. CASE t = s
    <3>1. CheckScrip(s) \/ CommitAdd(s)
      BY <1>4, <2>3, Continues DEF Continue
    <3>2. sess'[s].list = sess[s].list /\ sess'[s].scrip = sess[s].scrip
      BY <1>4, <3>1, Continues DEF CheckScrip, CommitAdd, InsertList
    <3>3. CASE CheckScrip(s)
      <4>1. Copies(sess[s].list, sess[s].scrip) # {} /\ items' = items
        BY <1>4, <2>3, <3>3, Continues DEF CheckScrip
      <4> QED BY <2>3, <3>2, <4>1 DEF Copies, ItemsOf
    <3>4. CASE CommitAdd(s)
      <4>1. /\ items' = items \cup {NewItem(s)} /\ sess[s].into = sess[s].list
        BY <3>4 DEF CommitAdd, Shaped
      <4>2. NewItem(s).list = sess[s].list /\ NewItem(s).scrip = sess[s].scrip
        BY <4>1 DEF NewItem
      <4> QED BY <2>3, <3>2, <4>1, <4>2 DEF Copies, ItemsOf
    <3> QED BY <3>1, <3>3, <3>4
  <2> QED BY <2>2, <2>3
<1>5. ASSUME NEW i \in items, DeleteItem(i)
      PROVE  Copies(sess[t].list, sess[t].scrip)' # {}
  <2>1. /\ items' = items \ {i}
        /\ sess'[t].pc = sess[t].pc /\ sess'[t].outcome = sess[t].outcome
        /\ sess'[t].list = sess[t].list /\ sess'[t].scrip = sess[t].scrip
        /\ ~sess[t].cut /\ (sess[t].list # i.list \/ sess[t].scrip # i.scrip)
    BY <1>5, Deletes
  <2>2. Copies(sess[t].list, sess[t].scrip) # {}
    BY <2>1 DEF AddedIsListed
  <2> QED BY <2>1, <2>2 DEF Copies, ItemsOf
<1> QED BY <1>2, <1>3, <1>4, <1>5 DEF Next

-----------------------------------------------------------------------------
(* The theorems *)

LEMMA WInvInit == Init => WInv
<1> SUFFICES ASSUME Init PROVE WInv
  OBVIOUS
<1> USE WatchlistAssumption DEF Init
<1>1. \A s \in Sessions : sess[s].pc = "idle" /\ sess[s].outcome = "none"
  BY DEF Start
<1>2. TypeOK
  <2>1. Start("idle", None, 0, None) \in Requests
    BY StartType DEF Points
  <2> QED BY <2>1 DEF TypeOK
<1>3. Finite
  BY FS_EmptySet DEF Finite
<1>4. Shaped /\ ItemsStayWithOwner /\ AddedIsListed
  BY <1>1 DEF Shaped, ItemsStayWithOwner, AddedIsListed
<1>5. Cardinality(Sessions) \in Nat
  BY FS_CardinalityType
<1>6. ListsBounded
  <2>1. \A u \in Users : ListsOf(u) = {} /\ Creating(u) = {}
    BY <1>1 DEF ListsOf, Creating
  <2> QED BY <1>5, <2>1, FS_EmptySet DEF ListsBounded
<1>7. \A l : ItemsOf(l) = {} /\ Filling(l) = {}
  BY <1>1 DEF ItemsOf, Filling, Heading
<1>8. \A l, scrip : Copies(l, scrip) = {} /\ Copying(l, scrip) = {}
  BY <1>1, <1>7 DEF Copies, Copying, Heading
<1>9. ItemsBounded /\ CopiesBounded
  BY <1>5, <1>7, <1>8, FS_EmptySet DEF ItemsBounded, CopiesBounded
<1> QED BY <1>2, <1>3, <1>4, <1>6, <1>9 DEF WInv

LEMMA WInvAlways == Spec => []WInv
<1>1. WInv /\ [Next]_vars => WInv'
  BY TypeStep, ShapedStep, ListsStep, ItemsStep, CopiesStep, AddedStep DEF WInv
<1> QED BY <1>1, WInvInit, PTL DEF Spec

\* Every row and every request has its type.
THEOREM WatchlistTypes == Spec => []TypeOK
<1>1. WInv => TypeOK
  BY DEF WInv
<1> QED BY <1>1, WInvAlways, PTL

\* Wherever max(id) files a first item, it is a watchlist of who asked for it.
THEOREM ItemsOwned == Spec => []ItemsStayWithOwner
<1>1. WInv => ItemsStayWithOwner
  BY DEF WInv
<1> QED BY <1>1, WInvAlways, PTL

\* However many requests race past the check, a watchlist holds fewer items
\* than the limit and all of them.
THEOREM ItemsLimited == Spec => []ItemsWithinLimit
<1>1. ASSUME WInv PROVE ItemsWithinLimit
  <2> SUFFICES ASSUME NEW l \in lists
               PROVE  Cardinality(ItemsOf(l.id)) < MaxItems + Cardinality(Sessions)
    BY DEF ItemsWithinLimit
  <2>1. l.id \in Nat
    BY <1>1 DEF WInv, TypeOK, Lists
  <2>2. Cardinality(ItemsOf(l.id)) + Cardinality(Filling(l.id))
          < MaxItems + Cardinality(Sessions)
    BY <1>1, <2>1 DEF WInv, ItemsBounded
  <2>3. /\ Cardinality(ItemsOf(l.id)) \in Nat /\ Cardinality(Filling(l.id)) \in Nat
        /\ Cardinality(Sessions) \in Nat /\ MaxItems \in Nat
    BY <1>1, Finiteness, FS_CardinalityType, WatchlistAssumption
  <2> QED BY <2>2, <2>3
<1> QED BY <1>1, WInvAlways, PTL

\* Nor does a user have the limit of watchlists and one for each request.
THEOREM ListsLimited == Spec => []ListsWithinLimit
<1>1. ASSUME WInv PROVE ListsWithinLimit
  <2> SUFFICES ASSUME NEW u \in Users
               PROVE  Cardinality(ListsOf(u)) < MaxLists + Cardinality(Sessions)
    BY DEF ListsWithinLimit
  <2>1. Cardinality(ListsOf(u)) + Cardinality(Creating(u)) < MaxLists + Cardinality(Sessions)
    BY <1>1 DEF WInv, ListsBounded
  <2>2. /\ Cardinality(ListsOf(u)) \in Nat /\ Cardinality(Creating(u)) \in Nat
        /\ Cardinality(Sessions) \in Nat /\ MaxLists \in Nat
    BY <1>1, Finiteness, FS_CardinalityType, WatchlistAssumption
  <2> QED BY <2>1, <2>2
<1> QED BY <1>1, WInvAlways, PTL

\* A scrip is on a watchlist at most once for each request.
THEOREM CopiesLimited == Spec => []CopiesWithinLimit
<1>1. ASSUME WInv PROVE CopiesWithinLimit
  <2> SUFFICES ASSUME NEW l \in lists, NEW scrip \in Scrips
               PROVE  Cardinality(Copies(l.id, scrip)) <= Cardinality(Sessions)
    BY DEF CopiesWithinLimit
  <2>1. l.id \in Nat
    BY <1>1 DEF WInv, TypeOK, Lists
  <2>2. Cardinality(Copies(l.id, scrip)) + Cardinality(Copying(l.id, scrip))
          <= Cardinality(Sessions)
    BY <1>1, <2>1 DEF WInv, CopiesBounded
  <2>3. /\ Cardinality(Copies(l.id, scrip)) \in Nat /\ Cardinality(Copying(l.id, scrip)) \in Nat
        /\ Cardinality(Sessions) \in Nat
    BY <1>1, Finiteness, FS_CardinalityType
  <2> QED BY <2>2, <2>3
<1> QED BY <1>1, WInvAlways, PTL

\* The answer "added" is true, until an item of the scrip is deleted.
THEOREM AddedListed == Spec => []AddedIsListed
<1>1. WInv => AddedIsListed
  BY DEF WInv
<1> QED BY <1>1, WInvAlways, PTL
=============================================================================
