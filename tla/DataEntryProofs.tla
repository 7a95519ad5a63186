-------------------------- MODULE DataEntryProofs --------------------------
(***************************************************************************)
(* What DataEntry promises its users, for any number of requests, slots,   *)
(* values and results: a save that overlapped no other of the same thing   *)
(* is what is read afterwards.  A request that is still alone has seen all *)
(* there is, because whoever has saved meanwhile has ended its being alone *)
(* when it began, or when the request did.                                 *)
(***************************************************************************)
EXTENDS DataEntry, FiniteSetTheorems, TLAPS

Rows == [id : Nat, slot : Slots, value : Values]

Places == {"idle", "insert", "update", "commit", "parent", "earnings"}

Typed ==
    /\ saves \in Nat
    /\ kept \subseteq Rows /\ results \subseteq Inputs
    /\ epsTtm = [scrip \in Scrips |-> epsTtm[scrip]]
    /\ last = [slot \in Slots |-> last[slot]]
    /\ req \in [Sessions -> [at : Places, about : Slots \cup Scrips \cup {NoSlot},
                             new : SUBSET (Rows \cup Inputs),
                             covered : SUBSET (Rows \cup Inputs), alone : BOOLEAN]]

AloneIsAlone ==
    \A s \in Sessions : Busy(s) /\ req[s].alone => Others(s, req[s].about) = {}

\* A save of a value, and that it will reach all rows if it is alone.
ValueReq(s) ==
    /\ \E row \in Rows : row.slot = req[s].about /\ req[s].new = {row}
    /\ \A c \in req[s].covered : \E row \in RowsOf(req[s].about) : row.id = c.id
    /\ req[s].alone => \A row \in RowsOf(req[s].about) : row.id \in Ids(req[s].covered)

\* All rows there are, those that are not committed included.
Known == kept \cup UNION {req[s].new : s \in Sessions}

ValuesInv ==
    IF entering = "values"
    THEN /\ \A s \in Sessions : Busy(s) => req[s].about \in Slots /\ ValueReq(s)
         /\ \A s \in Sessions : ~Busy(s) => req[s] = Idle
         /\ \A row \in Known : row \in Rows /\ row.id <= saves
         /\ \A row, other \in Known : row.id = other.id => row.slot = other.slot
         /\ IsFiniteSet(kept)
    ELSE kept = {}

\* A save of a result, and what its trailing earnings are made of.
ResultReq(s) ==
    /\ \E r \in Inputs : r.scrip = req[s].about /\ req[s].new = {r}
    /\ req[s].alone /\ req[s].at \in {"update", "commit"} /\ ~Saved(s).consolidated =>
         req[s].covered = Standalone(req[s].about, results \cup req[s].new)

ResultsInv ==
    IF entering = "results"
    THEN \A s \in Sessions : Busy(s) => req[s].about \in Scrips /\ ResultReq(s)
    ELSE results = {} /\ \A scrip \in Scrips : epsTtm[scrip] = 0

DInv ==
    /\ Typed /\ AloneIsAlone /\ ValuesInv /\ ResultsInv
    /\ entering \in {"values", "results"}
    /\ SavedIsRead /\ EpsIsTrailing

-----------------------------------------------------------------------------
(* What steps change *)

\* The statements of requests under way that change no table.
Moves(s) ==
    \/ UpdateRows(s) \/ InsertRow(s) \/ InsertResult(s) \/ LockParent(s)
    \/ StartEarnings(s) \/ UpdateScrip(s) \/ AbortVictim(s) \/ FailSave(s)

\* A request that begins.
LEMMA Begins ==
  ASSUME Typed, NEW s \in Sessions, NEW thing, NEW at, NEW new, NEW covered,
         Begin(s, thing, at, new, covered)
  PROVE  /\ req'[s] = [at |-> at, about |-> thing, new |-> new, covered |-> covered,
                       alone |-> Others(s, thing) = {}]
         /\ \A t \in Sessions \ {s} :
              /\ req'[t].at = req[t].at /\ req'[t].about = req[t].about
              /\ req'[t].new = req[t].new /\ req'[t].covered = req[t].covered
              /\ req'[t].alone => req[t].alone /\ t \notin Others(s, thing)
              /\ ~Busy(t) => req'[t] = req[t]
              /\ \/ req'[t] = req[t] \/ req'[t] = [req[t] EXCEPT !.alone = FALSE]
         /\ ~Busy(s) /\ saves' = saves + 1
         /\ UNCHANGED <<kept, results, epsTtm, last, right, entering, forShare>>
<1>1. /\ ~Busy(s) /\ saves' = saves + 1
      /\ UNCHANGED <<kept, results, epsTtm, last, right, entering, forShare>>
      /\ req' = [t \in Sessions |->
                   IF t = s THEN [at |-> at, about |-> thing, new |-> new,
                                  covered |-> covered, alone |-> Others(s, thing) = {}]
                   ELSE IF t \in Others(s, thing) THEN [req[t] EXCEPT !.alone = FALSE]
                   ELSE req[t]]
  BY DEF Begin, tables, config
<1>2. req'[s] = [at |-> at, about |-> thing, new |-> new, covered |-> covered,
                 alone |-> Others(s, thing) = {}]
  BY <1>1
<1>3. ASSUME NEW t \in Sessions \ {s}
      PROVE  /\ req'[t].at = req[t].at /\ req'[t].about = req[t].about
             /\ req'[t].new = req[t].new /\ req'[t].covered = req[t].covered
             /\ req'[t].alone => req[t].alone /\ t \notin Others(s, thing)
             /\ ~Busy(t) => req'[t] = req[t]
             /\ \/ req'[t] = req[t] \/ req'[t] = [req[t] EXCEPT !.alone = FALSE]
  <2>1. req'[t] = IF t \in Others(s, thing) THEN [req[t] EXCEPT !.alone = FALSE]
                  ELSE req[t]
    BY <1>1
  <2>2. req[t] = [at |-> req[t].at, about |-> req[t].about, new |-> req[t].new,
                  covered |-> req[t].covered, alone |-> req[t].alone]
    BY DEF Typed
  <2>3. CASE t \in Others(s, thing)
    <3>1. req'[t] = [req[t] EXCEPT !.alone = FALSE]
      BY <2>1, <2>3
    <3>2. Busy(t)
      BY <2>3 DEF Others
    <3> QED BY <2>2, <3>1, <3>2
  <2>4. CASE t \notin Others(s, thing)
    BY <2>1, <2>4
  <2> QED BY <2>3, <2>4
<1> QED BY <1>1, <1>2, <1>3

\* A statement that changes no table: the request goes on, or is dropped.
LEMMA Moved ==
  ASSUME Typed, NEW s \in Sessions, Moves(s)
  PROVE  /\ Busy(s) /\ \A t \in Sessions \ {s} : req'[t] = req[t]
         /\ UNCHANGED <<tables, saves, config>>
         /\ \/ req'[s] = Idle
            \/ /\ req'[s].at \in Places \ {"idle"} /\ req'[s].about = req[s].about
               /\ req'[s].new = req[s].new /\ req'[s].alone = req[s].alone
               /\ \/ /\ ~StartEarnings(s) /\ req'[s].covered = req[s].covered
                     /\ req'[s] = [req[s] EXCEPT !.at = req'[s].at]
                     /\ entering = "results" /\ req'[s].at \in {"update", "commit"} =>
                          req[s].at = "update" \/ Saved(s).consolidated
                  \/ /\ StartEarnings(s)
                     /\ req'[s].covered = Standalone(req[s].about, results \cup req[s].new)
                     /\ req'[s] = [req[s] EXCEPT !.at = "update", !.covered =
                                     Standalone(req[s].about, results \cup req[s].new)]
<1> DEFINE own == Standalone(req[s].about, results \cup req[s].new)
<1> HIDE DEF own
<1>0. /\ req[s] = [at |-> req[s].at, about |-> req[s].about, new |-> req[s].new,
                   covered |-> req[s].covered, alone |-> req[s].alone]
      /\ req = [t \in Sessions |-> req[t]]
  BY DEF Typed
<1>1. ASSUME NEW at \in Places \ {"idle"}, Busy(s), ~StartEarnings(s), Goes(s, at),
             entering = "results" /\ at \in {"update", "commit"} =>
               req[s].at = "update" \/ Saved(s).consolidated
      PROVE  /\ \A t \in Sessions \ {s} : req'[t] = req[t]
             /\ UNCHANGED <<tables, saves, config>>
             /\ req'[s].at \in Places \ {"idle"} /\ req'[s].about = req[s].about
             /\ req'[s].new = req[s].new /\ req'[s].alone = req[s].alone
             /\ req'[s].covered = req[s].covered
             /\ req'[s] = [req[s] EXCEPT !.at = req'[s].at]
             /\ entering = "results" /\ req'[s].at \in {"update", "commit"} =>
                  req[s].at = "update" \/ Saved(s).consolidated
  <2>1. req' = [req EXCEPT ![s].at = at] /\ UNCHANGED <<tables, saves, config>>
    BY <1>1 DEF Goes
  <2>2. req'[s] = [req[s] EXCEPT !.at = at] /\ \A t \in Sessions \ {s} : req'[t] = req[t]
    BY <1>0, <2>1
  <2>3. req'[s].at = at /\ req'[s].about = req[s].about /\ req'[s].new = req[s].new
        /\ req'[s].alone = req[s].alone /\ req'[s].covered = req[s].covered
    BY <1>0, <2>2
  <2> QED BY <1>1, <2>1, <2>2, <2>3
<1>2. ASSUME req' = [req EXCEPT ![s] = Idle], UNCHANGED <<tables, saves, config>>
      PROVE  /\ \A t \in Sessions \ {s} : req'[t] = req[t]
             /\ req'[s] = Idle
  BY <1>0, <1>2
<1>3. CASE UpdateRows(s) \/ InsertRow(s)
  BY <1>1, <1>3 DEF UpdateRows, InsertRow, StartEarnings, Busy, Places
<1>4. CASE InsertResult(s)
  BY <1>1, <1>2, <1>4 DEF InsertResult, StartEarnings, Busy, Places
<1>5. CASE LockParent(s)
  <2>1. /\ (Goes(s, "update") /\ Saved(s).consolidated) \/ Goes(s, "earnings")
        /\ req[s].at = "parent"
    BY <1>5 DEF LockParent
  <2> QED BY <1>1, <2>1 DEF StartEarnings, Busy, Places
<1>6. CASE UpdateScrip(s)
  BY <1>1, <1>6 DEF UpdateScrip, StartEarnings, Busy, Places
<1>7. CASE StartEarnings(s)
  <2>1. /\ req' = [req EXCEPT ![s].at = "update", ![s].covered = own]
        /\ UNCHANGED <<tables, saves, config>> /\ Busy(s)
    BY <1>7 DEF StartEarnings, own, Busy
  <2>2. /\ req'[s] = [req[s] EXCEPT !.at = "update", !.covered = own]
        /\ \A t \in Sessions \ {s} : req'[t] = req[t]
    BY <1>0, <2>1
  <2>3. req'[s].at = "update" /\ req'[s].about = req[s].about /\ req'[s].new = req[s].new
        /\ req'[s].alone = req[s].alone /\ req'[s].covered = own
    BY <1>0, <2>2
  <2> QED BY <1>7, <2>1, <2>2, <2>3 DEF own, Places
<1>8. CASE AbortVictim(s)
  <2>1. Busy(s)
    <3>1. PICK D \in SUBSET Sessions : s \in D /\ Knot(D)
      BY <1>8 DEF AbortVictim
    <3>2. Blockers(s) # {}
      BY <3>1 DEF Knot
    <3>3. req[s].at # "idle"
      BY <3>2 DEF Blockers
    <3> QED BY <3>3 DEF Busy
  <2> QED BY <1>2, <1>8, <2>1 DEF AbortVictim
<1>9. CASE FailSave(s)
  BY <1>2, <1>9 DEF FailSave
<1> QED BY <1>3, <1>4, <1>5, <1>6, <1>7, <1>8, <1>9 DEF Moves

\* Every step begins a request, moves one or commits one.
LEMMA Steps ==
  ASSUME Next
  PROVE  \E s \in Sessions :
           \/ \E slot \in Slots, value \in Values : StartUpdate(s, slot, value)
           \/ \E result \in Inputs : BeginResult(s, result)
           \/ Moves(s) \/ CommitValue(s) \/ CommitResult(s)
BY DEF Next, Continue, Moves

-----------------------------------------------------------------------------
(* Types, and being alone *)

\* What a commit of a value changes.
LEMMA CommitsValue ==
  ASSUME Typed, NEW s \in Sessions, CommitValue(s)
  PROVE  /\ entering = "values" /\ req[s].at = "commit"
         /\ req'[s] = Idle /\ \A t \in Sessions \ {s} : req'[t] = req[t]
         /\ req' = [req EXCEPT ![s] = Idle]
         /\ right' = IF req[s].alone THEN right \cup {req[s].about}
                     ELSE right \ {req[s].about}
         /\ last' = [last EXCEPT ![req[s].about] = ValueOf(s)]
         /\ kept' = IF req[s].covered = {} THEN kept \cup req[s].new
                    ELSE {IF row.id \in Ids(req[s].covered)
                          THEN [row EXCEPT !.value = ValueOf(s)] ELSE row : row \in kept}
         /\ UNCHANGED <<results, epsTtm, saves, entering, forShare>>
BY DEF CommitValue, Done, config, Typed

\* What a commit of a result changes.
LEMMA CommitsResult ==
  ASSUME Typed, NEW s \in Sessions, CommitResult(s)
  PROVE  /\ entering = "results" /\ req[s].at = "commit"
         /\ req'[s] = Idle /\ \A t \in Sessions \ {s} : req'[t] = req[t]
         /\ req' = [req EXCEPT ![s] = Idle]
         /\ results' = results \cup req[s].new
         /\ Saved(s).consolidated => UNCHANGED <<epsTtm, right>>
         /\ ~Saved(s).consolidated =>
              /\ right' = IF req[s].alone THEN right \cup {req[s].about}
                          ELSE right \ {req[s].about}
              /\ epsTtm' = [epsTtm EXCEPT ![req[s].about] = Trailing(req[s].covered)]
         /\ UNCHANGED <<kept, last, saves, entering, forShare>>
BY DEF CommitResult, Done, config, Typed

\* The value of a request that saves one.
LEMMA ValueSaved ==
  ASSUME NEW s, NEW row \in Rows, req[s].new = {row}
  PROVE  ValueOf(s) = row.value /\ ValueOf(s) \in Values
BY DEF ValueOf, Rows

\* The result of a request that saves one.
LEMMA ResultSaved ==
  ASSUME NEW s, NEW r \in Inputs, req[s].new = {r}
  PROVE  Saved(s) = r
BY DEF Saved

\* Every step keeps the types.
LEMMA TypedStep ==
  ASSUME DInv, Next
  PROVE  Typed'
<1> USE DEF DInv
<1> DEFINE Request == [at : Places, about : Slots \cup Scrips \cup {NoSlot},
                       new : SUBSET (Rows \cup Inputs),
                       covered : SUBSET (Rows \cup Inputs), alone : BOOLEAN]
<1>0. /\ req \in [Sessions -> Request] /\ saves \in Nat
      /\ kept \subseteq Rows /\ results \subseteq Inputs
  BY DEF Typed
<1> HIDE DEF Request
<1>1. Idle \in Request
  BY DEF Idle, Request, Places
<1>2. ASSUME NEW s \in Sessions, NEW thing \in Slots \cup Scrips, NEW at \in Places,
             NEW new \in SUBSET (Rows \cup Inputs), NEW covered \in SUBSET (Rows \cup Inputs),
             Begin(s, thing, at, new, covered)
      PROVE  Typed'
  <2>1. \A t \in Sessions : req'[t] \in Request
    <3>1. req'[s] \in Request
      <4>1. req'[s] = [at |-> at, about |-> thing, new |-> new, covered |-> covered,
                       alone |-> Others(s, thing) = {}]
        BY <1>2, Begins
      <4>2. (Others(s, thing) = {}) \in BOOLEAN
        OBVIOUS
      <4> QED BY <4>1, <4>2 DEF Request
    <3>2. ASSUME NEW t \in Sessions \ {s} PROVE req'[t] \in Request
      <4>1. req'[t] = req[t] \/ req'[t] = [req[t] EXCEPT !.alone = FALSE]
        BY <1>2, Begins
      <4> QED BY <1>0, <4>1 DEF Request
    <3> QED BY <3>1, <3>2
  <2>2. req' = [t \in Sessions |-> req'[t]]
    <3> DEFINE F == [u \in Sessions |->
                  IF u = s THEN [at |-> at, about |-> thing, new |-> new,
                                covered |-> covered, alone |-> Others(s, thing) = {}]
                  ELSE IF u \in Others(s, thing) THEN [req[u] EXCEPT !.alone = FALSE]
                  ELSE req[u]]
    <3>1. req' = F
      BY <1>2 DEF Begin
    <3>2. F = [t \in Sessions |-> F[t]]
      OBVIOUS
    <3> HIDE DEF F
    <3> QED BY <3>1, <3>2
  <2>3. req' \in [Sessions -> Request]
    BY <2>1, <2>2
  <2> QED BY <1>0, <1>2, <2>3, Begins DEF Typed, Request
<1>3. ASSUME NEW s \in Sessions, NEW slot \in Slots, NEW value \in Values,
             StartUpdate(s, slot, value)
      PROVE  Typed'
  <2>1. PICK at \in Places : Begin(s, slot, at, {[id |-> saves + 1, slot |-> slot, value |-> value]},
                                   RowsOf(slot))
    BY <1>3 DEF StartUpdate, Places
  <2>2. [id |-> saves + 1, slot |-> slot, value |-> value] \in Rows /\ RowsOf(slot) \subseteq Rows
    BY <1>0 DEF Rows, RowsOf
  <2> QED BY <1>2, <2>1, <2>2
<1>4. ASSUME NEW s \in Sessions, NEW r \in Inputs, BeginResult(s, r)
      PROVE  Typed'
  <2>1. Begin(s, r.scrip, "insert", {r}, {}) /\ "insert" \in Places
    BY <1>4 DEF BeginResult, Places
  <2>2. r.scrip \in Scrips
    BY DataEntryAssumption
  <2> QED BY <1>2, <2>1, <2>2
<1>5. ASSUME NEW s \in Sessions, Moves(s)
      PROVE  Typed'
  <2> DEFINE own == Standalone(req[s].about, results \cup req[s].new)
  <2>1. own \in SUBSET (Rows \cup Inputs)
    BY <1>0 DEF Standalone, Request
  <2> HIDE DEF own
  <2>2. req'[s] \in Request
    <3>1. CASE req'[s] = Idle
      BY <1>1, <3>1
    <3>2. CASE req'[s] = [req[s] EXCEPT !.at = req'[s].at] /\ req'[s].at \in Places
      <4>1. PICK at \in Places : req'[s] = [req[s] EXCEPT !.at = at]
        BY <3>2
      <4> QED BY <1>0, <4>1 DEF Request
    <3>3. CASE req'[s] = [req[s] EXCEPT !.at = "update", !.covered = own]
      BY <1>0, <2>1, <3>3 DEF Request, Places
    <3> QED BY <1>5, <3>1, <3>2, <3>3, Moved DEF own
  <2>3. \A t \in Sessions : req'[t] \in Request
    BY <1>0, <1>5, <2>2, Moved
  <2>4. req' = [t \in Sessions |-> req'[t]]
    BY <1>0, <1>5 DEF Moves, UpdateRows, InsertRow, InsertResult, LockParent, StartEarnings,
       UpdateScrip, AbortVictim, FailSave, Goes
  <2>5. req' \in [Sessions -> Request]
    BY <2>3, <2>4
  <2> QED BY <1>0, <1>5, <2>5, Moved DEF Typed, Request, tables
<1>6. ASSUME NEW s \in Sessions, CommitValue(s)
      PROVE  Typed'
  <2>1. req' \in [Sessions -> Request]
    BY <1>0, <1>1, <1>6, CommitsValue
  <2>2. PICK row \in Rows : req[s].new = {row}
    BY <1>6, CommitsValue DEF ValuesInv, ValueReq, Busy
  <2>3. ValueOf(s) \in Values
    BY <2>2, ValueSaved
  <2>4. kept' \subseteq Rows
    <3>1. \A r \in kept : [r EXCEPT !.value = ValueOf(s)] \in Rows
      BY <1>0, <2>3 DEF Rows
    <3> QED BY <1>0, <1>6, <2>2, <3>1, CommitsValue
  <2> QED BY <1>0, <1>6, <2>1, <2>4, CommitsValue DEF Typed, Request
<1>7. ASSUME NEW s \in Sessions, CommitResult(s)
      PROVE  Typed'
  <2>1. req' \in [Sessions -> Request]
    BY <1>0, <1>1, <1>7, CommitsResult
  <2>2. req[s].new \subseteq Inputs
    BY <1>7, CommitsResult DEF ResultsInv, ResultReq, Busy
  <2> QED BY <1>0, <1>7, <2>1, <2>2, CommitsResult DEF Typed, Request
<1> QED BY <1>3, <1>4, <1>5, <1>6, <1>7, Steps

\* A request that is alone has been so since it began.
LEMMA AloneStep ==
  ASSUME DInv, Next
  PROVE  AloneIsAlone'
<1> USE DEF DInv
<1> SUFFICES ASSUME NEW t \in Sessions, Busy(t)', req'[t].alone, NEW u \in Sessions \ {t},
                    Busy(u)', req'[u].about = req'[t].about
             PROVE  FALSE
  BY DEF AloneIsAlone, Others
<1>1. ASSUME NEW s \in Sessions, NEW thing, NEW at, NEW new, NEW covered,
             Begin(s, thing, at, new, covered)
      PROVE  FALSE
  <2>0. /\ req'[s].alone = (Others(s, thing) = {}) /\ req'[s].about = thing
        /\ \A v \in Sessions \ {s} :
             /\ req'[v].at = req[v].at /\ req'[v].about = req[v].about
             /\ req'[v].alone => req[v].alone /\ v \notin Others(s, thing)
    <3>1. Typed
      OBVIOUS
    <3>2. req'[s] = [at |-> at, about |-> thing, new |-> new, covered |-> covered,
                     alone |-> Others(s, thing) = {}]
      BY <1>1, <3>1, Begins
    <3>3. \A v \in Sessions \ {s} :
             /\ req'[v].at = req[v].at /\ req'[v].about = req[v].about
             /\ req'[v].alone => req[v].alone /\ v \notin Others(s, thing)
      BY <1>1, <3>1, Begins
    <3> QED BY <3>2, <3>3
  <2>1. CASE s = t
    <3>1. req'[t].alone = (Others(t, thing) = {}) /\ req'[t].about = thing
          /\ req'[u].at = req[u].at /\ req'[u].about = req[u].about
      BY <2>0, <2>1
    <3> QED BY <3>1 DEF Others, Busy
  <2>2. CASE s = u
    <3>1. t \notin Others(u, thing) /\ req'[u].about = thing
          /\ req'[t].at = req[t].at /\ req'[t].about = req[t].about
      BY <2>0, <2>2
    <3> QED BY <3>1 DEF Others, Busy
  <2>3. CASE s # t /\ s # u
    <3>1. /\ req'[u].at = req[u].at /\ req'[u].about = req[u].about
          /\ req'[t].at = req[t].at /\ req'[t].about = req[t].about /\ req[t].alone
      BY <2>0, <2>3
    <3> QED BY <3>1 DEF Others, Busy, AloneIsAlone
  <2> QED BY <2>1, <2>2, <2>3
<1>2. ASSUME NEW s \in Sessions, \A v \in Sessions \ {s} : req'[v] = req[v],
             \/ req'[s] = Idle
             \/ /\ Busy(s) /\ req'[s].about = req[s].about
                /\ req'[s].alone = req[s].alone
      PROVE  FALSE
  <2>1. \A v \in Sessions : Busy(v)' => /\ Busy(v) /\ req'[v].about = req[v].about
                                       /\ req'[v].alone = req[v].alone
    BY <1>2 DEF Busy, Idle
  <2> QED BY <2>1 DEF Others, AloneIsAlone
<1>3. ASSUME NEW s \in Sessions, Moves(s)
      PROVE  FALSE
  BY <1>2, <1>3, Moved
<1>4. ASSUME NEW s \in Sessions, CommitValue(s) \/ CommitResult(s)
      PROVE  FALSE
  BY <1>2, <1>4, CommitsValue, CommitsResult
<1> QED BY <1>1, <1>3, <1>4, Steps DEF StartUpdate, BeginResult

-----------------------------------------------------------------------------
(* Values *)

\* What a commit does to the rows: those of other slots stay, and if the
\* request was alone, or there is one row afterwards, it holds its value.
LEMMA CommittedRows ==
  ASSUME DInv, NEW s \in Sessions, CommitValue(s), NEW about, about = req[s].about
  PROVE  /\ about \in Slots
         /\ \A row \in kept : \E r \in kept' : r.id = row.id /\ r.slot = row.slot
         /\ \A r \in kept' :
              \/ r \in req[s].new
              \/ \E row \in kept : row.id = r.id /\ row.slot = r.slot
         /\ \A slot : slot # about => RowsOf(slot)' = RowsOf(slot)
         /\ req[s].alone \/ Cardinality(RowsOf(about)') = 1 =>
              \A r \in RowsOf(about)' : r.value = ValueOf(s)
         /\ IsFiniteSet(kept')
<1>a. PICK ids, value, alone : ids = Ids(req[s].covered) /\ value = ValueOf(s) /\ alone = req[s].alone
  OBVIOUS
<1> USE <1>a
<1> DEFINE Changed(row) == IF row.id \in ids THEN [row EXCEPT !.value = value] ELSE row
<1>1. /\ kept' = IF req[s].covered = {} THEN kept \cup req[s].new
                 ELSE {Changed(row) : row \in kept}
      /\ entering = "values" /\ Busy(s)
  BY <1>a, CommitsValue DEF DInv, Busy
<1>2. /\ about \in Slots /\ ValueReq(s) /\ IsFiniteSet(kept) /\ kept \subseteq Rows
      /\ \A row, other \in kept : row.id = other.id => row.slot = other.slot
  BY <1>1 DEF DInv, ValuesInv, Typed, Known
<1>3. PICK new \in Rows : new.slot = about /\ req[s].new = {new} /\ new.value = value
  BY <1>2, ValueSaved DEF ValueReq
<1>4. \A row \in kept : row.id \in ids => row.slot = about
  <2> SUFFICES ASSUME NEW row \in kept, row.id \in ids PROVE row.slot = about
    OBVIOUS
  <2>1. PICK c \in req[s].covered : c.id = row.id
    BY DEF Ids
  <2>2. PICK other \in RowsOf(about) : other.id = c.id
    BY <1>2 DEF ValueReq
  <2> QED BY <1>2, <2>1, <2>2 DEF RowsOf
<1>5. \A row \in kept : /\ Changed(row).id = row.id /\ Changed(row).slot = row.slot
                        /\ row.id \in ids => Changed(row).value = value
                        /\ row.slot # about => Changed(row) = row
  BY <1>2, <1>4 DEF Rows
<1> HIDE DEF Changed
<1>6. CASE req[s].covered = {}
  <2>1. kept' = kept \cup {new}
    BY <1>1, <1>3, <1>6
  <2>2. IsFiniteSet(kept')
    BY <1>2, <2>1, FS_AddElement
  <2>3. \A r \in RowsOf(about)' : r \in RowsOf(about) \/ r = new
    BY <2>1 DEF RowsOf
  <2>4. new \in RowsOf(about)'
    BY <1>3, <2>1 DEF RowsOf
  <2>5. alone => RowsOf(about) = {}
    BY <1>2, <1>6 DEF ValueReq, Ids
  <2>6. Cardinality(RowsOf(about)') = 1 => RowsOf(about)' = {new}
    <3>1. IsFiniteSet(RowsOf(about)')
      BY <2>2, FS_Subset DEF RowsOf
    <3> QED BY <2>4, <3>1, FS_Singleton
  <2>7. alone \/ Cardinality(RowsOf(about)') = 1 =>
          \A r \in RowsOf(about)' : r.value = value
    BY <1>3, <2>3, <2>5, <2>6
  <2>8. \A x : x # about => RowsOf(x)' = RowsOf(x)
    BY <1>3, <2>1 DEF RowsOf
  <2>9. /\ \A row \in kept : \E r \in kept' : r.id = row.id /\ r.slot = row.slot
        /\ \A r \in kept' : \/ r \in req[s].new
                            \/ \E row \in kept : row.id = r.id /\ row.slot = r.slot
    BY <1>3, <2>1
  <2> QED BY <1>2, <2>2, <2>7, <2>8, <2>9
<1>7. CASE req[s].covered # {}
  <2>1. kept' = {Changed(row) : row \in kept}
    BY <1>1, <1>7
  <2>2. IsFiniteSet(kept')
    <3> DEFINE f == [row \in kept |-> Changed(row)]
    <3>1. f \in Surjection(kept, kept')
      BY <2>1 DEF Surjection
    <3> QED BY <1>2, <3>1, FS_Surjection
  <2>3. \A r \in RowsOf(about)' : \E row \in RowsOf(about) : r = Changed(row)
    BY <1>5, <2>1 DEF RowsOf
  <2>4. \E row \in RowsOf(about) : row.id \in ids
    BY <1>2, <1>7 DEF ValueReq, Ids
  <2>5. \E r \in RowsOf(about)' : r.value = value
    BY <1>5, <2>1, <2>4 DEF RowsOf
  <2>6. alone => \A row \in RowsOf(about) : row.id \in ids
    BY <1>2 DEF ValueReq
  <2>7. alone => \A r \in RowsOf(about)' : r.value = value
    BY <1>5, <2>3, <2>6 DEF RowsOf
  <2>8. Cardinality(RowsOf(about)') = 1 => \A r \in RowsOf(about)' : r.value = value
    <3>1. IsFiniteSet(RowsOf(about)')
      BY <2>2, FS_Subset DEF RowsOf
    <3> QED BY <2>5, <3>1, FS_Singleton
  <2>9. \A x : x # about => RowsOf(x)' = RowsOf(x)
    BY <1>5, <2>1 DEF RowsOf
  <2>10. /\ \A row \in kept : \E r \in kept' : r.id = row.id /\ r.slot = row.slot
         /\ \A r \in kept' : \E row \in kept : row.id = r.id /\ row.slot = r.slot
    BY <1>5, <2>1
  <2> QED BY <1>2, <2>2, <2>7, <2>8, <2>9, <2>10
<1> QED BY <1>6, <1>7

\* Every step keeps what is true of the rows and the requests that save values.
LEMMA ValuesStep ==
  ASSUME DInv, Next
  PROVE  ValuesInv'
<1> USE DEF DInv
<1>0. Typed
  OBVIOUS
<1>1. ASSUME NEW s \in Sessions, NEW slot \in Slots, NEW v \in Values,
             StartUpdate(s, slot, v)
      PROVE  ValuesInv'
  <2> DEFINE n == [id |-> saves + 1, slot |-> slot, value |-> v]
  <2>1. PICK at \in {"insert", "update"} : Begin(s, slot, at, {n}, RowsOf(slot))
    BY <1>1 DEF StartUpdate
  <2>2. /\ req'[s].at = at /\ req'[s].about = slot /\ req'[s].new = {n}
        /\ req'[s].covered = RowsOf(slot)
        /\ ~Busy(s) /\ saves' = saves + 1 /\ kept' = kept /\ entering' = entering
        /\ entering = "values"
    <3>1. entering = "values"
      BY <1>1 DEF StartUpdate
    <3>2. /\ req'[s] = [at |-> at, about |-> slot, new |-> {n}, covered |-> RowsOf(slot),
                       alone |-> Others(s, slot) = {}]
          /\ ~Busy(s) /\ saves' = saves + 1 /\ kept' = kept /\ entering' = entering
      BY <1>0, <2>1, Begins
    <3> QED BY <3>1, <3>2
  <2>3. \A t \in Sessions \ {s} :
              /\ req'[t].at = req[t].at /\ req'[t].about = req[t].about
              /\ req'[t].new = req[t].new /\ req'[t].covered = req[t].covered
              /\ req'[t].alone => req[t].alone
              /\ ~Busy(t) => req'[t] = req[t]
    BY <1>0, <2>1, Begins
  <2>4. /\ n \in Rows /\ n.id = saves + 1 /\ n.slot = slot /\ saves \in Nat
    BY <1>0 DEF Rows, Typed
  <2> HIDE DEF n
  <2>5. /\ \A t \in Sessions : Busy(t) => req[t].about \in Slots /\ ValueReq(t)
        /\ \A t \in Sessions : ~Busy(t) => req[t] = Idle
        /\ \A row \in Known : row \in Rows /\ row.id <= saves
        /\ \A row, other \in Known : row.id = other.id => row.slot = other.slot
        /\ IsFiniteSet(kept)
    BY <2>2 DEF ValuesInv
  <2>6. \A row \in Known' : row \in Known \/ row = n
    BY <2>2, <2>3 DEF Known
  <2>7. /\ \A row \in Known' : row \in Rows /\ row.id <= saves'
        /\ \A row, other \in Known' : row.id = other.id => row.slot = other.slot
    BY <2>2, <2>4, <2>5, <2>6 DEF Rows
  <2>8. ValueReq(s)'
    BY <2>2, <2>4 DEF ValueReq, RowsOf, Ids
  <2>9. \A t \in Sessions \ {s} : Busy(t) =>
           ValueReq(t)' /\ req'[t].about \in Slots
    BY <2>2, <2>3, <2>5 DEF ValueReq, RowsOf, Ids
  <2>10. \A t \in Sessions : ~Busy(t)' => req'[t] = Idle
    BY <2>2, <2>3, <2>5 DEF Busy
  <2>11. \A t \in Sessions : Busy(t)' => req'[t].about \in Slots /\ ValueReq(t)'
    BY <2>2, <2>3, <2>8, <2>9 DEF Busy
  <2> QED BY <2>2, <2>5, <2>7, <2>10, <2>11 DEF ValuesInv
<1>2. ASSUME NEW s \in Sessions, NEW r \in Inputs, BeginResult(s, r)
      PROVE  ValuesInv'
  BY <1>0, <1>2, Begins DEF BeginResult, ValuesInv
<1>3. ASSUME NEW s \in Sessions, Moves(s)
      PROVE  ValuesInv'
  <2>1. kept' = kept /\ saves' = saves /\ entering' = entering
    BY <1>0, <1>3, Moved DEF tables, config
  <2>2. CASE entering = "values"
    <3>1. /\ Busy(s) /\ \A t \in Sessions \ {s} : req'[t] = req[t]
          /\ \/ req'[s] = Idle
             \/ /\ req'[s].at # "idle" /\ req'[s].about = req[s].about
                /\ req'[s].new = req[s].new /\ req'[s].alone = req[s].alone
                /\ req'[s].covered = req[s].covered
      BY <1>0, <1>3, <2>2, Moved DEF StartEarnings
    <3>2. \A t \in Sessions : Known' \subseteq Known
      BY <2>1, <3>1 DEF Known, Idle
    <3>3. \A t \in Sessions : Busy(t)' => Busy(t) /\ req'[t].about = req[t].about
                /\ req'[t].new = req[t].new /\ req'[t].alone = req[t].alone
                /\ req'[t].covered = req[t].covered
      BY <3>1 DEF Busy, Idle
    <3>4. \A t \in Sessions : ~Busy(t)' => req'[t] = Idle
      BY <2>2, <3>1 DEF Busy, ValuesInv
    <3> QED BY <2>1, <2>2, <3>2, <3>3, <3>4 DEF ValuesInv, ValueReq, RowsOf, Ids
  <2> QED BY <2>1, <2>2 DEF ValuesInv
<1>4. ASSUME NEW s \in Sessions, CommitValue(s)
      PROVE  ValuesInv'
  <2>1. /\ entering = "values" /\ entering' = entering /\ saves' = saves /\ Busy(s)
        /\ req'[s] = Idle /\ \A t \in Sessions \ {s} : req'[t] = req[t]
    BY <1>0, <1>4, CommitsValue DEF Busy
  <2>2. /\ \A row \in kept : \E r \in kept' : r.id = row.id /\ r.slot = row.slot
        /\ \A r \in kept' : \/ r \in req[s].new
                            \/ \E row \in kept : row.id = r.id /\ row.slot = r.slot
        /\ \A slot : slot # req[s].about => RowsOf(slot)' = RowsOf(slot)
        /\ IsFiniteSet(kept')
    <3>1. PICK about : about = req[s].about
      OBVIOUS
    <3> QED BY <1>4, <3>1, CommittedRows
  <2>3. kept' \subseteq Rows
    BY TypedStep DEF Typed
  <2>4. \A r \in Known' : \E row \in Known : row.id = r.id /\ row.slot = r.slot
    BY <2>1, <2>2 DEF Known, Idle
  <2>5. \A r \in Known' : r \in Rows
    BY <2>1, <2>3 DEF Known, Idle, ValuesInv
  <2>6. \A r \in Known' : r.id <= saves'
    BY <2>1, <2>4 DEF ValuesInv
  <2>7. \A row, other \in Known' : row.id = other.id => row.slot = other.slot
    BY <2>1, <2>4 DEF ValuesInv
  <2>8. ASSUME NEW t \in Sessions, Busy(t)'
        PROVE  req'[t].about \in Slots /\ ValueReq(t)'
    <3>0. PICK about : about = req[t].about
      OBVIOUS
    <3>1. t # s /\ Busy(t) /\ req'[t] = req[t] /\ req[t].about \in Slots /\ ValueReq(t)
      BY <2>1, <2>8 DEF Busy, Idle, ValuesInv
    <3>2. \A c \in req[t].covered : \E row \in RowsOf(about)' : row.id = c.id
      BY <2>2, <3>0, <3>1 DEF ValueReq, RowsOf
    <3>3. ASSUME req[t].alone
          PROVE  \A row \in RowsOf(about)' : row.id \in Ids(req[t].covered)
      <4>1. req[s].about # req[t].about
        BY <2>1, <3>1, <3>3 DEF AloneIsAlone, Others
      <4> QED BY <2>2, <3>0, <3>1, <3>3, <4>1 DEF ValueReq
    <3> QED BY <3>0, <3>1, <3>2, <3>3 DEF ValueReq, RowsOf, Ids
  <2>9. \A t \in Sessions : ~Busy(t)' => req'[t] = Idle
    BY <2>1 DEF Busy, ValuesInv
  <2> QED BY <2>1, <2>2, <2>5, <2>6, <2>7, <2>8, <2>9 DEF ValuesInv
<1>5. ASSUME NEW s \in Sessions, CommitResult(s)
      PROVE  ValuesInv'
  BY <1>0, <1>5, CommitsResult DEF ValuesInv
<1> QED BY <1>1, <1>2, <1>3, <1>4, <1>5, Steps

\* A commit leaves what is read right, if it can be.
LEMMA ReadStep ==
  ASSUME DInv, Next
  PROVE  SavedIsRead'
<1> USE DEF DInv
<1>0. Typed
  OBVIOUS
<1>1. ASSUME UNCHANGED <<kept, last, right>>
      PROVE  SavedIsRead'
  BY <1>1 DEF SavedIsRead, RowsOf
<1>2. ASSUME NEW s \in Sessions, CommitValue(s)
      PROVE  SavedIsRead'
  <2>0. PICK about : about = req[s].about
    OBVIOUS
  <2>1. /\ right' = IF req[s].alone THEN right \cup {about}
                    ELSE right \ {about}
        /\ last' = [last EXCEPT ![about] = ValueOf(s)]
        /\ last = [slot \in Slots |-> last[slot]]
    BY <1>0, <1>2, <2>0, CommitsValue DEF Typed
  <2>2. /\ about \in Slots
        /\ \A slot : slot # about => RowsOf(slot)' = RowsOf(slot)
        /\ req[s].alone \/ Cardinality(RowsOf(about)') = 1 =>
              \A r \in RowsOf(about)' : r.value = ValueOf(s)
    BY <1>2, <2>0, CommittedRows
  <2> SUFFICES ASSUME NEW slot \in Slots,
                      slot \in right' \/ Cardinality(RowsOf(slot)') = 1,
                      NEW row \in RowsOf(slot)'
               PROVE  row.value = last'[slot]
    BY DEF SavedIsRead
  <2>3. CASE slot = about
    <3>1. last'[slot] = ValueOf(s)
      BY <2>1, <2>2, <2>3
    <3>2. slot \in right' => req[s].alone
      BY <2>1, <2>3
    <3> QED BY <2>2, <2>3, <3>1, <3>2
  <2>4. CASE slot # about
    <3>1. last'[slot] = last[slot]
      BY <2>1, <2>4
    <3>2. slot \in right' => slot \in right
      BY <2>1, <2>4
    <3>3. RowsOf(slot)' = RowsOf(slot)
      BY <2>2, <2>4
    <3> QED BY <3>1, <3>2, <3>3 DEF SavedIsRead
  <2> QED BY <2>3, <2>4
<1>3. ASSUME NEW s \in Sessions, CommitResult(s)
      PROVE  SavedIsRead'
  <2>1. kept = {} /\ kept' = {}
    BY <1>0, <1>3, CommitsResult DEF ValuesInv
  <2> QED BY <2>1 DEF SavedIsRead, RowsOf
<1> QED BY <1>0, <1>1, <1>2, <1>3, Steps, Begins, Moved DEF StartUpdate, BeginResult, tables

-----------------------------------------------------------------------------
(* Results *)

\* Without results there is nothing to sum.
LEMMA TrailingOfNone == Trailing({}) = 0
<1>1. {r \in {} : Cardinality({q \in {} : q.quarter > r.quarter}) < Trail} = {}
  OBVIOUS
<1>2. MapThenSumSet(LAMBDA r : r.eps, {}) = 0
  <2> DEFINE Sum(f) ==
        [S \in SUBSET {} |->
           IF S = {} THEN 0
           ELSE (CHOOSE x \in S : TRUE).eps + f[S \ {CHOOSE x \in S : TRUE}]]
  <2>1. \E f : f = Sum(f)
    <3> DEFINE f == [S \in SUBSET {} |-> 0]
    <3>1. f = Sum(f)
      <4>1. \A S \in SUBSET {} : S = {}
        OBVIOUS
      <4> QED BY <4>1
    <3> QED BY <3>1
  <2>2. \A f : f = Sum(f) => f[{}] = 0
    OBVIOUS
  <2>3. (CHOOSE f : f = Sum(f))[{}] = 0
    BY <2>1, <2>2
  <2> QED BY <2>3 DEF MapThenSumSet, MapThenFoldSet
<1> QED BY <1>1, <1>2 DEF Trailing

\* Every step keeps what is true of the requests that save results.
LEMMA ResultsStep ==
  ASSUME DInv, Next
  PROVE  ResultsInv'
<1> USE DEF DInv
<1>0. Typed
  OBVIOUS
<1>1. ASSUME NEW s \in Sessions, NEW slot \in Slots, NEW v \in Values,
             StartUpdate(s, slot, v)
      PROVE  ResultsInv'
  BY <1>0, <1>1, Begins DEF StartUpdate, ResultsInv
<1>2. ASSUME NEW s \in Sessions, NEW r \in Inputs, BeginResult(s, r)
      PROVE  ResultsInv'
  <2>1. PICK at \in {"insert"}, new \in {{r}}, none \in {{}} : Begin(s, r.scrip, at, new, none)
    BY <1>2 DEF BeginResult
  <2>2. /\ req'[s] = [at |-> at, about |-> r.scrip, new |-> new, covered |-> none,
                     alone |-> Others(s, r.scrip) = {}]
        /\ results' = results /\ entering' = entering /\ entering = "results"
    BY <1>0, <1>2, <2>1, Begins DEF BeginResult
  <2>3. \A t \in Sessions \ {s} :
              /\ req'[t].at = req[t].at /\ req'[t].about = req[t].about
              /\ req'[t].new = req[t].new /\ req'[t].covered = req[t].covered
              /\ req'[t].alone => req[t].alone
    BY <1>0, <2>1, Begins
  <2>4. r.scrip \in Scrips
    BY DataEntryAssumption
  <2>5. ResultReq(s)' /\ req'[s].about \in Scrips
    BY <2>2, <2>4 DEF ResultReq
  <2>6. ASSUME NEW t \in Sessions \ {s}, Busy(t)'
        PROVE  req'[t].about \in Scrips /\ ResultReq(t)'
    <3>1. req[t].about \in Scrips /\ ResultReq(t)
      BY <2>2, <2>3, <2>6 DEF ResultsInv, Busy
    <3>2. Saved(t)' = Saved(t)
      BY <2>3 DEF Saved
    <3> QED BY <2>2, <2>3, <3>1, <3>2 DEF ResultReq, Standalone
  <2> QED BY <2>2, <2>5, <2>6 DEF ResultsInv
<1>3. ASSUME NEW s \in Sessions, Moves(s)
      PROVE  ResultsInv'
  <2>1. /\ Busy(s) /\ \A t \in Sessions \ {s} : req'[t] = req[t]
        /\ UNCHANGED <<results, epsTtm, entering>>
    BY <1>0, <1>3, Moved DEF tables, config
  <2>2. CASE entering = "results"
    <3>1. ASSUME NEW t \in Sessions \ {s}, Busy(t)'
          PROVE  req'[t].about \in Scrips /\ ResultReq(t)'
      <4>1. req[t].about \in Scrips /\ ResultReq(t) /\ req'[t] = req[t]
        BY <2>1, <2>2, <3>1 DEF ResultsInv, Busy
      <4> QED BY <2>1, <4>1 DEF ResultReq, Standalone, Saved
    <3>2. ASSUME Busy(s)'
          PROVE  req'[s].about \in Scrips /\ ResultReq(s)'
      <4>1. req[s].about \in Scrips /\ ResultReq(s)
        BY <2>1, <2>2 DEF ResultsInv
      <4>2. /\ req'[s].about = req[s].about /\ req'[s].new = req[s].new
            /\ req'[s].alone = req[s].alone
            /\ \/ /\ req'[s].covered = req[s].covered
                  /\ req'[s].at \in {"update", "commit"} =>
                       req[s].at = "update" \/ Saved(s).consolidated
               \/ req'[s].covered = Standalone(req[s].about, results \cup req[s].new)
        <5>1. req'[s] # Idle
          BY <3>2 DEF Busy, Idle
        <5> QED BY <1>0, <1>3, <2>2, <5>1, Moved
      <4>3. Saved(s)' = Saved(s)
        BY <4>2 DEF Saved
      <4> QED BY <2>1, <4>1, <4>2, <4>3 DEF ResultReq, Standalone
    <3> QED BY <2>1, <2>2, <3>1, <3>2 DEF ResultsInv
  <2> QED BY <2>1, <2>2 DEF ResultsInv
<1>4. ASSUME NEW s \in Sessions, CommitValue(s)
      PROVE  ResultsInv'
  BY <1>0, <1>4, CommitsValue DEF ResultsInv
<1>5. ASSUME NEW s \in Sessions, CommitResult(s)
      PROVE  ResultsInv'
  <2>1. /\ entering = "results" /\ entering' = entering /\ Busy(s)
        /\ req'[s] = Idle /\ \A t \in Sessions \ {s} : req'[t] = req[t]
        /\ results' = results \cup req[s].new
    BY <1>0, <1>5, CommitsResult DEF Busy
  <2>2. PICK r \in Inputs : r.scrip = req[s].about /\ req[s].new = {r}
    BY <2>1 DEF ResultsInv, ResultReq
  <2>3. ASSUME NEW t \in Sessions, Busy(t)'
        PROVE  req'[t].about \in Scrips /\ ResultReq(t)'
    <3>1. t # s /\ Busy(t) /\ req'[t] = req[t] /\ req[t].about \in Scrips /\ ResultReq(t)
      BY <2>1, <2>3 DEF Busy, Idle, ResultsInv
    <3>2. Saved(t)' = Saved(t)
      BY <3>1 DEF Saved
    <3>3. req[t].alone => r.scrip # req[t].about
      BY <2>1, <2>2, <3>1 DEF AloneIsAlone, Others
    <3>4. req[t].alone => Standalone(req[t].about, (results \cup {r}) \cup req[t].new)
                            = Standalone(req[t].about, results \cup req[t].new)
      <4> DEFINE scrip == req[t].about
                 new == req[t].new
      <4> HIDE DEF scrip, new
      <4>1. r.scrip # scrip => Standalone(scrip, (results \cup {r}) \cup new)
                                 = Standalone(scrip, results \cup new)
        BY DEF Standalone
      <4> QED BY <3>3, <4>1 DEF scrip, new
    <3>5. Standalone(req[t].about, results \cup req[t].new)'
            = Standalone(req[t].about, (results \cup {r}) \cup req[t].new)
      BY <2>1, <2>2, <3>1 DEF Standalone
    <3> QED BY <3>1, <3>2, <3>4, <3>5 DEF ResultReq
  <2> QED BY <2>1, <2>3 DEF ResultsInv
<1> QED BY <1>1, <1>2, <1>3, <1>4, <1>5, Steps

\* A commit leaves the trailing earnings right, if it can be.
LEMMA EpsStep ==
  ASSUME DInv, Next
  PROVE  EpsIsTrailing'
<1> USE DEF DInv
<1>0. Typed
  OBVIOUS
<1>1. ASSUME UNCHANGED <<results, epsTtm, right>>
      PROVE  EpsIsTrailing'
  BY <1>1 DEF EpsIsTrailing, Standalone
<1>2. ASSUME NEW s \in Sessions, CommitValue(s)
      PROVE  EpsIsTrailing'
  <2>1. ~(entering' = "results") /\ ResultsInv'
    BY <1>0, <1>2, CommitsValue, ResultsStep
  <2>2. \A scrip \in Scrips : Standalone(scrip, results)' = {} /\ epsTtm'[scrip] = 0
    BY <2>1 DEF ResultsInv, Standalone
  <2>3. \A scrip \in Scrips : Trailing(Standalone(scrip, results)') = 0
    BY <2>2, TrailingOfNone
  <2> QED BY <2>2, <2>3 DEF EpsIsTrailing
<1>3. ASSUME NEW s \in Sessions, CommitResult(s)
      PROVE  EpsIsTrailing'
  <2>1. /\ entering = "results" /\ Busy(s) /\ req[s].at = "commit"
        /\ results' = results \cup req[s].new
        /\ Saved(s).consolidated => UNCHANGED <<epsTtm, right>>
        /\ ~Saved(s).consolidated =>
              /\ right' = IF req[s].alone THEN right \cup {req[s].about}
                          ELSE right \ {req[s].about}
              /\ epsTtm' = [epsTtm EXCEPT ![req[s].about] = Trailing(req[s].covered)]
        /\ epsTtm = [scrip \in Scrips |-> epsTtm[scrip]]
    BY <1>0, <1>3, CommitsResult DEF Busy, Typed
  <2>2. PICK r \in Inputs : r.scrip = req[s].about /\ req[s].new = {r} /\ Saved(s) = r
    <3>1. ResultReq(s)
      BY <2>1 DEF ResultsInv
    <3>2. PICK r \in Inputs : r.scrip = req[s].about /\ req[s].new = {r}
      BY <3>1 DEF ResultReq
    <3> QED BY <3>2, ResultSaved
  <2>3. r.consolidated \in BOOLEAN
    BY DataEntryAssumption
  <2> SUFFICES ASSUME NEW scrip \in Scrips, scrip \in right'
               PROVE  epsTtm'[scrip] = Trailing(Standalone(scrip, results'))
    BY DEF EpsIsTrailing, Standalone
  <2>4. CASE r.consolidated \/ scrip # r.scrip
    <3>1. Standalone(scrip, results') = Standalone(scrip, results)
      <4>1. results' = results \cup {r}
        BY <2>1, <2>2
      <4>2. Standalone(scrip, results \cup {r}) = Standalone(scrip, results)
        BY <2>4 DEF Standalone
      <4> QED BY <4>1, <4>2
    <3>2. epsTtm'[scrip] = epsTtm[scrip] /\ scrip \in right
      BY <2>1, <2>2, <2>3, <2>4
    <3> QED BY <3>1, <3>2 DEF EpsIsTrailing
  <2>5. CASE ~r.consolidated /\ scrip = r.scrip
    <3>1. req[s].alone /\ epsTtm'[scrip] = Trailing(req[s].covered)
      BY <2>1, <2>2, <2>5
    <3>2. req[s].covered = Standalone(scrip, results')
      BY <2>1, <2>2, <2>5, <3>1 DEF ResultsInv, ResultReq
    <3> QED BY <3>1, <3>2
  <2> QED BY <2>3, <2>4, <2>5
<1> QED BY <1>0, <1>1, <1>2, <1>3, Steps, Begins, Moved DEF StartUpdate, BeginResult, tables

-----------------------------------------------------------------------------
(* The theorems *)

LEMMA DInvInit == Init => DInv
<1> SUFFICES ASSUME Init PROVE DInv
  OBVIOUS
<1> USE DEF Init
<1>1. \A s \in Sessions : req[s] = Idle /\ ~Busy(s)
  BY DEF Idle, Busy
<1>2. Typed
  BY DEF Typed, Idle, Places
<1>3. AloneIsAlone
  BY <1>1 DEF AloneIsAlone
<1>4. ValuesInv
  <2>1. Known = {}
    BY <1>1 DEF Known, Idle
  <2> QED BY <1>1, <2>1, FS_EmptySet DEF ValuesInv
<1>5. ResultsInv
  BY <1>1 DEF ResultsInv
<1>6. SavedIsRead /\ EpsIsTrailing
  BY DEF SavedIsRead, EpsIsTrailing, RowsOf
<1> QED BY <1>2, <1>3, <1>4, <1>5, <1>6 DEF DInv

\* Nothing changes in a stuttering step.
LEMMA DInvStutters == DInv /\ UNCHANGED vars => DInv'
<1> SUFFICES ASSUME DInv, UNCHANGED vars PROVE DInv'
  OBVIOUS
<1>1. /\ kept' = kept /\ results' = results /\ epsTtm' = epsTtm /\ req' = req
      /\ saves' = saves /\ last' = last /\ right' = right /\ entering' = entering
  BY DEF vars
<1>2. Typed' /\ AloneIsAlone'
  BY <1>1 DEF DInv, Typed, AloneIsAlone, Others, Busy
<1>3. ValuesInv'
  BY <1>1 DEF DInv, ValuesInv, ValueReq, Known, RowsOf, Ids, Busy
<1>4. ResultsInv'
  BY <1>1 DEF DInv, ResultsInv, ResultReq, Saved, Standalone, Busy
<1>5. SavedIsRead' /\ EpsIsTrailing'
  BY <1>1 DEF DInv, SavedIsRead, EpsIsTrailing, RowsOf, Standalone
<1> QED BY <1>1, <1>2, <1>3, <1>4, <1>5 DEF DInv

LEMMA DInvAlways == Spec => []DInv
<1>1. DInv /\ [Next]_vars => DInv'
  <2>1. ASSUME DInv, Next PROVE DInv'
    <3>1. entering' = entering
      <4>1. Typed
        BY <2>1 DEF DInv
      <4> QED BY <2>1, <4>1, Steps, Begins, Moved, CommitsValue, CommitsResult
            DEF StartUpdate, BeginResult, config
    <3>2. entering \in {"values", "results"}
      BY <2>1 DEF DInv
    <3> QED BY <2>1, <3>1, <3>2, TypedStep, AloneStep, ValuesStep, ReadStep, ResultsStep, EpsStep
          DEF DInv
  <2> QED BY <2>1, DInvStutters
<1> QED BY <1>1, DInvInit, PTL DEF Spec

\* Every row a reader can find for a slot holds what was saved last, wherever
\* there is one row or the last save overlapped no other.
THEOREM SavedRead == Spec => []SavedIsRead
<1>1. DInv => SavedIsRead
  BY DEF DInv
<1> QED BY <1>1, DInvAlways, PTL

\* The trailing earnings are the sum over the last results, wherever the last
\* save of one overlapped no other of the scrip.
THEOREM EpsTrailing == Spec => []EpsIsTrailing
<1>1. DInv => EpsIsTrailing
  BY DEF DInv
<1> QED BY <1>1, DInvAlways, PTL
=============================================================================
