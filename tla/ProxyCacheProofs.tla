-------------------------- MODULE ProxyCacheProofs --------------------------
(***************************************************************************)
(* The accounts of ProxyCache for any threads, URLs, blocks and sizes: the *)
(* bytes accounted for cover the files on disk, and are exact as long as   *)
(* no two fetches write one file.  The invariants follow from the          *)
(* inductive one, CInv.                                                    *)
(***************************************************************************)
EXTENDS ProxyCache, SumProofs, SequenceTheorems, TLAPS

Elements(s) == {s[k] : k \in DOMAIN s}
Distinct(s) == \A j, k \in DOMAIN s : s[j] = s[k] => j = k

\* TypeOK, with no entry twice in place of the number of entries.
Typed ==
    /\ disk \in [Urls -> Nat \cup {Missing}]
    /\ table \in Seq(Urls) /\ Distinct(table)
    /\ recent \subseteq Entries
    /\ files \in Nat /\ bytes \in Int
    /\ caching \in BOOLEAN /\ size \in Sizes
    /\ fetch \in [Threads -> Fetches]
    /\ admin \in Admins
    /\ monitor \in Threads \cup {Admin, Free}
    /\ disturbed \in BOOLEAN

\* What a fetch has at a given point.
WellShaped(r) ==
    /\ r.pc # "idle" => r.url \in Urls
    /\ r.pc # "written" => r.pending = 0
    /\ r.pc \in {"idle", "decided"} => r.offset = 0

Shaped == \A t \in Threads : WellShaped(fetch[t])

\* Who evicts or cleans holds the monitor, and what it is about to delete is
\* in the table still.
Held ==
    /\ files >= Len(table)
    /\ \A t \in Threads :
         /\ fetch[t].pc \in {"evicting", "picked"} => monitor = t
         /\ fetch[t].pc = "picked" => fetch[t].victim \in Entries
    /\ admin.pc \in {"sweep", "picked"} =>
         monitor = Admin /\ admin.sweep \subseteq Entries
    /\ admin.pc = "picked" => admin.victim \in Entries \ admin.sweep

\* A thread that has a file open under its name.
Writes(t) == fetch[t].linked /\ fetch[t].pc \notin {"idle", "decided", "closed"}

\* A bound per file on its length, now or after its writers' next blocks, and
\* on what will be given back for it.
Covers(c) ==
    /\ \A u \in Urls : Length(u) <= c[u]
    /\ \A t \in Threads :
         /\ Writes(t) => fetch[t].offset <= c[fetch[t].url]
         /\ fetch[t].pc = "picked" => fetch[t].length <= c[fetch[t].victim]
    /\ admin.pc = "picked" => admin.length <= c[admin.victim]

\* The bytes accounted for cover the bounds, not the lengths alone: a file
\* that was truncated under a writer regains its length with one block.
Covered ==
    \E c \in [Urls -> Nat] :
        Covers(c) /\ bytes + Pending >= SumFunctionOnSet(c, Urls)

Opened(t) == fetch[t].pc \notin {"idle", "decided"}

\* A fetch that nobody disturbs has a file of its own, not in the table yet,
\* as long as what it has written.
Alone(t) ==
    /\ fetch[t].linked
    /\ disk[fetch[t].url] # Missing
    /\ fetch[t].url \notin Entries
    /\ fetch[t].pc # "closed" => fetch[t].offset = disk[fetch[t].url]
    /\ \A s \in Threads \ {t} : Opened(s) => fetch[s].url # fetch[t].url

\* No fetch was disturbed: what is about to be deleted has its length still.
Apart ==
    /\ \A t \in Threads :
         /\ Opened(t) => Alone(t)
         /\ fetch[t].pc = "picked" => fetch[t].length = disk[fetch[t].victim]
    /\ admin.pc = "picked" => admin.length = disk[admin.victim]
    /\ \A u \in Entries : disk[u] # Missing

Exact == bytes + Pending = OnDisk /\ files = Len(table)

CInv == Typed /\ Shaped /\ Held /\ Covered /\ (~disturbed => Apart /\ Exact)

-----------------------------------------------------------------------------
(* The table *)

\* The sequence without one of its elements.
LEMMA RemoveAtOne ==
  ASSUME NEW S, NEW s \in Seq(S), Distinct(s), NEW k \in DOMAIN s
  PROVE  /\ RemoveAt(s, k) \in Seq(S)
         /\ Len(RemoveAt(s, k)) = Len(s) - 1
         /\ Distinct(RemoveAt(s, k))
         /\ Elements(RemoveAt(s, k)) = Elements(s) \ {s[k]}
<1> DEFINE r == RemoveAt(s, k)
<1>1. Len(s) \in Nat /\ k \in 1..Len(s) /\ DOMAIN s = 1..Len(s)
      /\ \A i \in 1..Len(s) : s[i] \in S
  OBVIOUS
<1>2. /\ SubSeq(s, 1, k - 1) \in Seq(S) /\ Len(SubSeq(s, 1, k - 1)) = k - 1
      /\ \A i \in 1..(k - 1) : SubSeq(s, 1, k - 1)[i] = s[i]
  BY <1>1, SubSeqProperties
<1>3. /\ SubSeq(s, k + 1, Len(s)) \in Seq(S)
      /\ Len(SubSeq(s, k + 1, Len(s))) = Len(s) - k
      /\ \A i \in 1..(Len(s) - k) : SubSeq(s, k + 1, Len(s))[i] = s[k + i]
  BY <1>1, SubSeqProperties
<1>4. /\ r \in Seq(S) /\ Len(r) = Len(s) - 1
      /\ \A i \in 1..(Len(s) - 1) : r[i] = IF i < k THEN s[i] ELSE s[i + 1]
  <2> DEFINE a == SubSeq(s, 1, k - 1)
             b == SubSeq(s, k + 1, Len(s))
  <2>1. r = a \o b
    BY DEF RemoveAt
  <2>2. /\ a \in Seq(S) /\ Len(a) = k - 1 /\ \A i \in 1..(k - 1) : a[i] = s[i]
        /\ b \in Seq(S) /\ Len(b) = Len(s) - k
        /\ \A i \in 1..(Len(s) - k) : b[i] = s[k + i]
    BY <1>2, <1>3
  <2> HIDE DEF a, b, r
  <2>3. /\ a \o b \in Seq(S) /\ Len(a \o b) = Len(a) + Len(b)
        /\ \A i \in 1..(Len(a) + Len(b)) :
              (a \o b)[i] = IF i <= Len(a) THEN a[i] ELSE b[i - Len(a)]
    BY <2>2, ConcatProperties
  <2>4. ASSUME NEW i \in 1..(Len(s) - 1)
        PROVE  r[i] = IF i < k THEN s[i] ELSE s[i + 1]
    <3>1. CASE i < k
      BY <1>1, <2>1, <2>2, <2>3, <3>1
    <3>2. CASE i >= k
      <4>1. PICK j \in 1..(Len(s) - k) : j = i - (k - 1) /\ k + j = i + 1
        BY <1>1, <3>2
      <4>2. i \in 1..(Len(a) + Len(b)) /\ ~(i <= Len(a)) /\ i - Len(a) = j
        BY <1>1, <2>2, <3>2, <4>1
      <4>3. r[i] = b[j]
        BY <2>1, <2>3, <4>2
      <4>4. b[j] = s[i + 1]
        BY <2>2, <4>1
      <4> QED BY <1>1, <3>2, <4>3, <4>4
    <3> QED BY <1>1, <3>1, <3>2
  <2> QED BY <1>1, <2>1, <2>2, <2>3, <2>4
<1>5. DOMAIN r = 1..(Len(s) - 1)
  BY <1>4
<1> HIDE DEF r
<1>6. Distinct(r)
  BY <1>1, <1>4, <1>5 DEF Distinct
<1>7. \A i \in DOMAIN r : r[i] \in Elements(s) \ {s[k]}
  BY <1>1, <1>4, <1>5 DEF Distinct, Elements
<1>8. ASSUME NEW i \in DOMAIN s, s[i] # s[k] PROVE s[i] \in Elements(r)
  <2>1. CASE i < k
    BY <1>1, <1>4, <1>5, <2>1 DEF Elements
  <2>2. CASE i > k
    <3>1. i - 1 \in DOMAIN r /\ r[i - 1] = s[i]
      BY <1>1, <1>4, <1>5, <2>2
    <3> QED BY <3>1 DEF Elements
  <2> QED BY <1>1, <1>8, <2>1, <2>2
<1>9. Elements(r) = Elements(s) \ {s[k]}
  BY <1>7, <1>8 DEF Elements
<1> QED BY <1>4, <1>6, <1>9 DEF r

\* The table without an entry.
LEMMA WithoutEntry ==
  ASSUME Typed, NEW u \in Urls
  PROVE  /\ Without(u) \in Seq(Urls) /\ Distinct(Without(u))
         /\ Elements(Without(u)) = Entries \ {u}
         /\ u \in Entries => Len(Without(u)) = Len(table) - 1
         /\ u \notin Entries => Without(u) = table
<1>1. table \in Seq(Urls) /\ Distinct(table) /\ Entries = Elements(table)
  BY DEF Typed, Entries, Elements
<1>2. CASE u \notin Entries
  BY <1>1, <1>2 DEF Without
<1>3. CASE u \in Entries
  <2>1. Position(u) \in DOMAIN table /\ table[Position(u)] = u
    BY <1>3 DEF Entries, Position
  <2> QED BY <1>1, <1>3, <2>1, RemoveAtOne DEF Without
<1> QED BY <1>2, <1>3

\* The table with an entry put at its end, once.
LEMMA PutEntry ==
  ASSUME Typed, NEW u \in Urls
  PROVE  LET put == Append(Without(u), u)
         IN  /\ put \in Seq(Urls) /\ Distinct(put)
             /\ Elements(put) = Entries \cup {u}
             /\ Len(put) <= Len(table) + 1
             /\ u \notin Entries => Len(put) = Len(table) + 1
<1> DEFINE rest == Without(u)
           put == Append(rest, u)
<1>1. /\ rest \in Seq(Urls) /\ Distinct(rest) /\ Elements(rest) = Entries \ {u}
      /\ u \in Entries => Len(rest) = Len(table) - 1
      /\ u \notin Entries => Len(rest) = Len(table)
  BY WithoutEntry
<1>2. Len(table) \in Nat
  BY DEF Typed
<1> HIDE DEF rest
<1>3. /\ put \in Seq(Urls) /\ Len(put) = Len(rest) + 1 /\ Len(rest) \in Nat
      /\ DOMAIN rest = 1..Len(rest) /\ DOMAIN put = 1..(Len(rest) + 1)
      /\ \A i \in 1..Len(rest) : put[i] = rest[i]
      /\ put[Len(rest) + 1] = u
  BY <1>1, AppendProperties
<1> HIDE DEF put
<1>4. \A i \in 1..Len(rest) : rest[i] # u
  BY <1>1, <1>3 DEF Elements
<1>5. Distinct(put)
  BY <1>1, <1>3, <1>4 DEF Distinct
<1>6. Elements(put) = Elements(rest) \cup {u}
  BY <1>3 DEF Elements
<1>7. Elements(put) = Entries \cup {u}
  BY <1>1, <1>6
<1> QED BY <1>1, <1>2, <1>3, <1>5, <1>7 DEF put, rest

\* A table that has no entry twice has as many entries as it is long.
LEMMA TableLength ==
  Typed => Cardinality(Entries) = Len(table)
<1> SUFFICES ASSUME Typed PROVE Cardinality(Entries) = Len(table)
  OBVIOUS
<1>1. Len(table) \in Nat /\ DOMAIN table = 1..Len(table)
      /\ table \in [1..Len(table) -> Urls] /\ Distinct(table)
  BY DEF Typed
<1>2. IsFiniteSet(1..Len(table)) /\ Cardinality(1..Len(table)) = Len(table)
  BY <1>1, FS_Interval
<1>3. table \in Surjection(1..Len(table), Entries)
  BY <1>1 DEF Surjection, Entries
<1>4. table \in Injection(1..Len(table), Entries)
  BY <1>1 DEF Injection, IsInjective, Entries, Distinct
<1> QED BY <1>2, <1>3, <1>4, FS_Surjection

-----------------------------------------------------------------------------
(* The sums *)

\* What is not accounted for moves with one thread.
LEMMA PendingMoves ==
  ASSUME Typed, fetch' \in [Threads -> Fetches], NEW t \in Threads,
         \A s \in Threads : s # t => fetch'[s].pending = fetch[s].pending
  PROVE  /\ Pending \in Int
         /\ Pending' = Pending + (fetch'[t].pending - fetch[t].pending)
<1> DEFINE p == [s \in Threads |-> fetch[s].pending]
           q == [s \in Threads |-> fetch'[s].pending]
<1>1. IsFiniteSet(Threads)
  BY ProxyCacheAssumption
<1>2. \A s \in Threads : p[s] \in Int /\ q[s] \in Int
  BY DEF Typed, Fetches
<1>3. Pending = SumFunctionOnSet(p, Threads) /\ Pending' = SumFunctionOnSet(q, Threads)
  BY DEF Pending, SumFunction
<1>4. p[t] = fetch[t].pending /\ q[t] = fetch'[t].pending
      /\ \A s \in Threads \ {t} : q[s] = p[s]
  OBVIOUS
<1> HIDE DEF p, q
<1>5. SumFunctionOnSet(q, Threads) = SumFunctionOnSet(p, Threads) + (q[t] - p[t])
  BY <1>1, <1>2, <1>4, SumChange
<1>6. SumFunctionOnSet(p, Threads) \in Int
  BY <1>1, <1>2, SumType
<1> QED BY <1>3, <1>4, <1>5, <1>6

\* It stays if no thread's does.
LEMMA PendingStays ==
  ASSUME Typed, \A s \in Threads : fetch'[s].pending = fetch[s].pending
  PROVE  Pending \in Int /\ Pending' = Pending
<1> DEFINE p == [s \in Threads |-> fetch[s].pending]
           q == [s \in Threads |-> fetch'[s].pending]
<1>1. IsFiniteSet(Threads)
  BY ProxyCacheAssumption
<1>2. \A s \in Threads : p[s] \in Int
  BY DEF Typed, Fetches
<1>3. Pending = SumFunctionOnSet(p, Threads) /\ Pending' = SumFunctionOnSet(q, Threads)
  BY DEF Pending, SumFunction
<1>4. p = q
  OBVIOUS
<1> HIDE DEF p, q
<1> QED BY <1>1, <1>2, <1>3, <1>4, SumType

\* The length of a file is a natural number.
LEMMA LengthType ==
  ASSUME Typed, NEW u \in Urls
  PROVE  Length(u) \in Nat
BY DEF Typed, Length, Missing

\* What is on disk moves with one file.
LEMMA OnDiskMoves ==
  ASSUME Typed, Typed', NEW u \in Urls, \A v \in Urls : v # u => disk'[v] = disk[v]
  PROVE  OnDisk \in Int /\ OnDisk' = OnDisk + (Length(u)' - Length(u))
<1> DEFINE p == [v \in Urls |-> Length(v)]
           q == [v \in Urls |-> IF disk'[v] = Missing THEN 0 ELSE disk'[v]]
<1>1. IsFiniteSet(Urls)
  BY ProxyCacheAssumption
<1>2. \A v \in Urls : p[v] \in Int /\ q[v] \in Int
  BY DEF Typed, Length, Missing
<1>3. OnDisk = SumFunctionOnSet(p, Urls) /\ OnDisk' = SumFunctionOnSet(q, Urls)
  BY DEF OnDisk, SumFunction, Length
<1>4. p[u] = Length(u) /\ q[u] = Length(u)' /\ \A v \in Urls \ {u} : q[v] = p[v]
  BY DEF Length
<1> HIDE DEF p, q
<1>5. SumFunctionOnSet(q, Urls) = SumFunctionOnSet(p, Urls) + (q[u] - p[u])
  BY <1>1, <1>2, <1>4, SumChange
<1>6. SumFunctionOnSet(p, Urls) \in Int
  BY <1>1, <1>2, SumType
<1> QED BY <1>3, <1>4, <1>5, <1>6

-----------------------------------------------------------------------------
(* Types, and who holds the monitor *)

\* Before the first request there is nothing to account for.
LEMMA InitCache ==
  Init => CInv
<1> SUFFICES ASSUME Init PROVE CInv
  OBVIOUS
<1> USE ProxyCacheAssumption DEF Init
<1>1. \A t \in Threads : fetch[t] = Resting
  OBVIOUS
<1>2. Typed
  <2>1. Resting \in Fetches
    BY DEF Resting, Fetches, Points
  <2>2. admin \in Admins
    BY DEF Admins
  <2>3. table \in Seq(Urls) /\ Distinct(table) /\ recent \subseteq Entries
    BY DEF Distinct
  <2>4. disk \in [Urls -> Nat \cup {Missing}] /\ fetch \in [Threads -> Fetches]
    BY <2>1
  <2>5. /\ files \in Nat /\ bytes \in Int /\ size \in Sizes
        /\ monitor \in Threads \cup {Admin, Free}
    OBVIOUS
  <2>6. caching \in BOOLEAN /\ disturbed \in BOOLEAN
    BY Zenon
  <2> HIDE DEF Init
  <2> QED BY <2>2, <2>3, <2>4, <2>5, <2>6 DEF Typed
<1>3. Shaped /\ Held
  BY <1>1 DEF Shaped, WellShaped, Held, Resting
<1>4. Pending = 0
  <2> DEFINE p == [t \in Threads |-> fetch[t].pending]
  <2>1. \A t \in Threads : p[t] = 0
    BY <1>1 DEF Resting
  <2>2. Pending = SumFunctionOnSet(p, Threads)
    BY DEF Pending, SumFunction
  <2> HIDE DEF p
  <2> QED BY <2>1, <2>2, SumZero
<1>5. OnDisk = 0
  <2> DEFINE p == [u \in Urls |-> Length(u)]
  <2>1. \A u \in Urls : p[u] = 0
    BY DEF Length
  <2>2. OnDisk = SumFunctionOnSet(p, Urls)
    BY DEF OnDisk, SumFunction
  <2> HIDE DEF p
  <2> QED BY <2>1, <2>2, SumZero
<1>6. Covered
  <2> DEFINE c == [u \in Urls |-> 0]
  <2>1. c \in [Urls -> Nat] /\ \A u \in Urls : c[u] = 0
    OBVIOUS
  <2>2. Covers(c)
    BY <1>1 DEF Covers, Writes, Length, Resting
  <2> HIDE DEF c
  <2>3. SumFunctionOnSet(c, Urls) = 0
    BY <2>1, SumZero
  <2>4. bytes + Pending >= SumFunctionOnSet(c, Urls)
    BY <1>4, <2>3
  <2> QED BY <2>1, <2>2, <2>4 DEF Covered
<1>7. Apart /\ Exact
  BY <1>1, <1>4, <1>5 DEF Apart, Exact, Opened, Entries, Resting
<1> QED BY <1>2, <1>3, <1>6, <1>7 DEF CInv

\* A thread's step gives it a new record, r.  It leaves the monitor to whoever
\* else holds it, and enters or leaves it itself.
Moves(t, r) ==
    /\ fetch' = [fetch EXCEPT ![t] = r]
    /\ r \in Fetches /\ WellShaped(r)
    /\ monitor' = monitor \/ monitor \in {Free, t}
    /\ monitor' \in Threads \cup {Admin, Free}
    /\ r.pc \in {"evicting", "picked"} => monitor' = t
    /\ r.pc = "picked" => r.victim \in Entries /\ r.length = Length(r.victim)
    /\ admin' = admin

\* The others keep theirs.
LEMMA OthersStay ==
  ASSUME Typed, NEW t \in Threads, NEW r, Moves(t, r)
  PROVE  /\ fetch' \in [Threads -> Fetches]
         /\ fetch'[t] = r
         /\ \A s \in Threads : s # t => fetch'[s] = fetch[s]
BY DEF Typed, Moves

\* Fetches keep their shape, and the monitor its holder.
LEMMA MovesHold ==
  ASSUME CInv, NEW t \in Threads, NEW r, Moves(t, r),
         Entries \subseteq Entries', files' >= Len(table')
  PROVE  Shaped' /\ Held'
<1> USE ProxyCacheAssumption
<1>1. Typed /\ Shaped /\ Held
  BY DEF CInv
<1>2. fetch'[t] = r /\ \A s \in Threads : s # t => fetch'[s] = fetch[s]
  BY <1>1, OthersStay
<1>3. Shaped'
  BY <1>1, <1>2 DEF Moves, Shaped
<1>4. ASSUME NEW s \in Threads
      PROVE  /\ fetch'[s].pc \in {"evicting", "picked"} => monitor' = s
             /\ fetch'[s].pc = "picked" => fetch'[s].victim \in Entries'
  <2>1. CASE s = t
    BY <1>2, <2>1 DEF Moves
  <2>2. CASE s # t
    BY <1>1, <1>2, <2>2 DEF Moves, Held
  <2> QED BY <2>1, <2>2
<1>5. /\ admin'.pc \in {"sweep", "picked"} =>
           monitor' = Admin /\ admin'.sweep \subseteq Entries'
      /\ admin'.pc = "picked" => admin'.victim \in Entries' \ admin'.sweep
  BY <1>1 DEF Moves, Held
<1> QED BY <1>3, <1>4, <1>5 DEF Held

\* A step of a thread that leaves its file and the table alone.
Quiet(t, r) ==
    /\ Moves(t, r)
    /\ UNCHANGED <<disk, table, recent, files, caching, size, disturbed>>
    /\ bytes' \in Int /\ bytes' + r.pending = bytes + fetch[t].pending
    /\ r.pc \notin {"idle", "decided"} =>
         /\ Opened(t)
         /\ r.url = fetch[t].url /\ r.offset = fetch[t].offset
         /\ r.linked = fetch[t].linked
         /\ fetch[t].pc = "closed" => r.pc = "closed"

\* Such a step keeps the accounts.
LEMMA QuietKeeps ==
  ASSUME CInv, NEW t \in Threads, NEW r, Quiet(t, r)
  PROVE  CInv'
<1> USE ProxyCacheAssumption
<1>1. Typed /\ Shaped /\ Held /\ Moves(t, r)
  BY DEF CInv, Quiet
<1>2. /\ fetch' \in [Threads -> Fetches] /\ fetch'[t] = r
      /\ \A s \in Threads : s # t => fetch'[s] = fetch[s]
  BY <1>1, OthersStay
<1>3. Entries' = Entries /\ \A u \in Urls : Length(u)' = Length(u)
  BY DEF Quiet, Entries, Length
<1>4. Typed'
  BY <1>1, <1>2, <1>3 DEF Typed, Quiet, Moves
<1>5. Shaped' /\ Held'
  <2>1. files' >= Len(table')
    BY <1>1 DEF Quiet, Held
  <2> QED BY <1>1, <1>3, <2>1, MovesHold
<1>6. bytes' + Pending' = bytes + Pending
  <2>1. Pending \in Int /\ Pending' = Pending + (r.pending - fetch[t].pending)
    BY <1>1, <1>2, PendingMoves
  <2>2. r.pending \in Int /\ fetch[t].pending \in Int /\ bytes \in Int
    BY <1>1 DEF Moves, Typed, Fetches
  <2> QED BY <2>1, <2>2 DEF Quiet
<1>7. Covered'
  <2>1. PICK c \in [Urls -> Nat] :
          Covers(c) /\ bytes + Pending >= SumFunctionOnSet(c, Urls)
    BY DEF CInv, Covered
  <2>2. ASSUME NEW s \in Threads
        PROVE  /\ Writes(s)' => fetch'[s].offset <= c[fetch'[s].url]
               /\ fetch'[s].pc = "picked" => fetch'[s].length <= c[fetch'[s].victim]
    <3>1. CASE s = t
      <4>1. Writes(s)' => Writes(s) /\ r.offset = fetch[s].offset /\ r.url = fetch[s].url
        BY <1>2, <3>1 DEF Writes, Quiet, Opened
      <4>2. r.pc = "picked" => r.victim \in Urls /\ r.length = Length(r.victim)
        BY <1>1 DEF Moves, Typed, Entries
      <4> QED BY <1>2, <2>1, <3>1, <4>1, <4>2 DEF Covers
    <3>2. CASE s # t
      BY <1>2, <2>1, <3>2 DEF Covers, Writes
    <3> QED BY <3>1, <3>2
  <2>3. Covers(c)'
    BY <1>1, <1>3, <2>1, <2>2 DEF Covers, Moves
  <2> QED BY <1>6, <2>1, <2>3 DEF Covered
<1>8. ASSUME ~disturbed' PROVE Apart' /\ Exact'
  <2>1. Apart /\ Exact
    BY <1>8 DEF CInv, Quiet
  <2>2. \A s \in Threads : Opened(s)' => Opened(s) /\ fetch'[s].url = fetch[s].url
    BY <1>2 DEF Opened, Quiet
  <2>3. ASSUME NEW s \in Threads, Opened(s)' PROVE Alone(s)'
    <3>1. Alone(s)
      BY <2>1, <2>2, <2>3 DEF Apart
    <3>2. /\ fetch'[s].url = fetch[s].url /\ fetch'[s].offset = fetch[s].offset
          /\ fetch'[s].linked = fetch[s].linked
          /\ fetch[s].pc = "closed" => fetch'[s].pc = "closed"
      BY <1>2, <2>3 DEF Opened, Quiet
    <3> QED BY <1>3, <2>2, <3>1, <3>2 DEF Alone, Quiet
  <2>4. ASSUME NEW s \in Threads, fetch'[s].pc = "picked"
        PROVE  fetch'[s].length = disk'[fetch'[s].victim]
    <3>1. CASE s = t
      BY <1>1, <1>2, <2>1, <2>4, <3>1 DEF Moves, Quiet, Apart, Length
    <3>2. CASE s # t
      BY <1>2, <2>1, <2>4, <3>2 DEF Apart, Quiet
    <3> QED BY <3>1, <3>2
  <2>5. Apart'
    BY <1>1, <1>3, <2>1, <2>3, <2>4 DEF Apart, Quiet, Moves
  <2>6. OnDisk' = OnDisk
    BY DEF OnDisk, Length, Quiet
  <2> QED BY <1>6, <2>1, <2>5, <2>6 DEF Exact, Quiet
<1> QED BY <1>4, <1>5, <1>7, <1>8 DEF CInv

-----------------------------------------------------------------------------
(* The steps of a thread *)

\* Those that are quiet.
LEMMA QuietSteps ==
  ASSUME CInv, NEW t \in Threads,
         \/ \E u \in Urls : Decide(t, u)
         \/ CloseFile(t)
         \/ Abort(t)
         \/ Account(t)
         \/ StopEvicting(t)
         \/ PickVictim(t)
         \/ PickNothing(t)
         \/ KeepVictim(t)
  PROVE  CInv'
<1> USE ProxyCacheAssumption DEF accounts, config
<1>1. /\ fetch \in [Threads -> Fetches] /\ fetch[t] \in Fetches /\ WellShaped(fetch[t])
      /\ bytes \in Int /\ monitor \in Threads \cup {Admin, Free}
      /\ fetch[t].pc \in {"evicting", "picked"} => monitor = t
      /\ fetch[t].pending \in Nat
  BY DEF CInv, Typed, Shaped, Held, Fetches
<1>2. Resting \in Fetches /\ WellShaped(Resting)
  BY DEF Resting, Fetches, Points, WellShaped
<1>3. ASSUME NEW u \in Urls, Decide(t, u) PROVE CInv'
  <2> DEFINE r == [fetch[t] EXCEPT !.pc = "decided", !.url = u]
  <2>1. Quiet(t, r)
    BY <1>1, <1>3 DEF Decide, Quiet, Moves, WellShaped, Fetches, Points
  <2> QED BY <2>1, QuietKeeps
<1>4. CASE CloseFile(t)
  <2> DEFINE r == [fetch[t] EXCEPT !.pc = "closed"]
  <2>1. Quiet(t, r)
    BY <1>1, <1>4 DEF CloseFile, Quiet, Moves, WellShaped, Fetches, Points, Opened
  <2> QED BY <2>1, QuietKeeps
<1>5. CASE Abort(t)
  <2>1. Quiet(t, Resting)
    BY <1>1, <1>2, <1>5 DEF Abort, Quiet, Moves, WellShaped, Resting
  <2> QED BY <2>1, QuietKeeps
<1>6. CASE Account(t)
  <2>0. /\ fetch[t].pc = "written" /\ monitor = Free /\ bytes' \in Int
        /\ bytes' + 0 = bytes + fetch[t].pending
        /\ UNCHANGED <<disk, table, recent, files, caching, size, admin, disturbed>>
    BY <1>1, <1>6 DEF Account
  <2>1. CASE monitor' = t /\ fetch' = [fetch EXCEPT ![t].pc = "evicting", ![t].pending = 0]
    <3> DEFINE r == [fetch[t] EXCEPT !.pc = "evicting", !.pending = 0]
    <3>0. r \in Fetches /\ WellShaped(r)
      BY <1>1, <2>0 DEF WellShaped, Fetches, Points
    <3>1. Quiet(t, r)
      BY <1>1, <2>0, <2>1, <3>0 DEF Quiet, Moves, Fetches, Opened
    <3> QED BY <3>1, QuietKeeps
  <2>2. CASE monitor' = Free /\ fetch' = [fetch EXCEPT ![t].pc = "open", ![t].pending = 0]
    <3> DEFINE r == [fetch[t] EXCEPT !.pc = "open", !.pending = 0]
    <3>0. r \in Fetches /\ WellShaped(r)
      BY <1>1, <2>0 DEF WellShaped, Fetches, Points
    <3>1. Quiet(t, r)
      BY <1>1, <2>0, <2>2, <3>0 DEF Quiet, Moves, Fetches, Opened
    <3> QED BY <3>1, QuietKeeps
  <2> QED BY <1>6, <2>1, <2>2 DEF Account
<1>7. ASSUME fetch[t].pc \in {"evicting", "picked"}, Return(t),
             UNCHANGED <<disk, table, recent, accounts, config, admin, disturbed>>
      PROVE  CInv'
  <2> DEFINE r == [fetch[t] EXCEPT !.pc = "open", !.victim = NoUrl, !.length = 0]
  <2>1. Quiet(t, r)
    BY <1>1, <1>7 DEF Return, Quiet, Moves, WellShaped, Fetches, Points, Opened
  <2> QED BY <2>1, QuietKeeps
<1>8. CASE PickVictim(t)
  <2>1. PICK u \in Entries \ recent :
          fetch' = [fetch EXCEPT ![t].pc = "picked", ![t].victim = u, ![t].length = Length(u)]
    BY <1>8 DEF PickVictim
  <2>2. u \in Urls /\ Length(u) \in Nat
    BY LengthType DEF CInv, Typed, Entries
  <2> DEFINE r == [fetch[t] EXCEPT !.pc = "picked", !.victim = u, !.length = Length(u)]
  <2>3. r \in Fetches /\ WellShaped(r)
    BY <1>1, <1>8, <2>2 DEF PickVictim, WellShaped, Fetches, Points
  <2>4. Quiet(t, r)
    BY <1>1, <1>8, <2>1, <2>2, <2>3 DEF PickVictim, Quiet, Moves, Opened, Fetches
  <2> QED BY <2>4, QuietKeeps
<1>9. CASE PickNothing(t)
  <2>1. Quiet(t, Resting)
    BY <1>1, <1>2, <1>9 DEF PickNothing, Quiet, Moves, WellShaped, Resting
  <2> QED BY <2>1, QuietKeeps
<1> QED BY <1>3, <1>4, <1>5, <1>6, <1>7, <1>8, <1>9 DEF StopEvicting, KeepVictim

\* A new file is bounded like the one that was there; a fetch is alone with it
\* if there was none.
LEMMA OpenKeeps ==
  ASSUME CInv, NEW t \in Threads, OpenFile(t)
  PROVE  CInv'
<1> USE ProxyCacheAssumption DEF accounts, config
<1>0. /\ Typed /\ Shaped /\ Held /\ fetch[t] \in Fetches /\ fetch[t].pc = "decided"
      /\ fetch[t].url \in Urls /\ fetch[t].offset = 0 /\ fetch[t].pending = 0
  BY DEF OpenFile, CInv, Typed, Shaped, WellShaped
<1>u. PICK u \in Urls : u = fetch[t].url
  BY <1>0
<1>r. PICK r \in Fetches : r = [fetch[t] EXCEPT !.pc = "open", !.linked = TRUE]
  BY <1>0 DEF Fetches, Points
<1>1. /\ Typed /\ Shaped /\ Held /\ fetch[t].pc = "decided" /\ fetch[t].url = u
      /\ fetch[t].pending = 0
      /\ r.pc = "open" /\ r.url = u /\ r.offset = 0 /\ r.pending = 0 /\ r.linked
  BY <1>0, <1>u, <1>r DEF Fetches
<1>2. Moves(t, r)
  BY <1>1, <1>r DEF OpenFile, Moves, Typed, WellShaped
<1>3. /\ fetch' \in [Threads -> Fetches] /\ fetch'[t] = r
      /\ \A s \in Threads : s # t => fetch'[s] = fetch[s]
  BY <1>1, <1>2, OthersStay
<1>4. /\ disk' = [disk EXCEPT ![u] = 0]
      /\ \A v \in Urls : disk'[v] = IF v = u THEN 0 ELSE disk[v]
      /\ UNCHANGED <<table, recent, files, bytes, caching, size, admin, monitor>>
      /\ disturbed' = (disturbed \/ disk[u] # Missing)
  BY <1>1 DEF OpenFile, Typed
<1>5. Entries' = Entries
  BY <1>4 DEF Entries
<1>6. Typed'
  <2>1. disk' \in [Urls -> Nat \cup {Missing}]
    BY <1>1, <1>4 DEF Typed
  <2> QED BY <1>1, <1>3, <1>4, <1>5, <2>1 DEF Typed
<1>7. Shaped' /\ Held'
  BY <1>1, <1>2, <1>4, <1>5, MovesHold DEF Held
<1>8. Pending \in Int /\ Pending' = Pending
  BY <1>1, <1>3, PendingStays
<1>9. Covered'
  <2>1. PICK c \in [Urls -> Nat] :
          Covers(c) /\ bytes + Pending >= SumFunctionOnSet(c, Urls)
    BY DEF CInv, Covered
  <2>2. \A v \in Urls : Length(v)' <= c[v]
    BY <1>1, <1>4, <2>1 DEF Covers, Length, Missing
  <2>3. ASSUME NEW s \in Threads
        PROVE  /\ Writes(s)' => fetch'[s].offset <= c[fetch'[s].url]
               /\ fetch'[s].pc = "picked" => fetch'[s].length <= c[fetch'[s].victim]
    BY <1>1, <1>3, <2>1 DEF Covers, Writes, Fetches
  <2>4. Covers(c)'
    BY <1>4, <2>1, <2>2, <2>3 DEF Covers
  <2> QED BY <1>4, <1>8, <2>1, <2>4 DEF Covered
<1>10. ASSUME ~disturbed' PROVE Apart' /\ Exact'
  <2>1. Apart /\ Exact /\ disk[u] = Missing
    BY <1>4, <1>10 DEF CInv
  <2>2. u \notin Entries /\ \A s \in Threads : Opened(s) => fetch[s].url # u
    BY <2>1 DEF Apart, Alone
  <2>3. ASSUME NEW s \in Threads, Opened(s)' PROVE Alone(s)'
    <3>1. CASE s = t
      BY <1>1, <1>3, <1>4, <1>5, <2>2, <3>1 DEF Alone, Opened, Missing
    <3>2. CASE s # t
      <4>1. Opened(s) /\ fetch[s].url # u /\ fetch'[s] = fetch[s]
        BY <1>3, <2>2, <2>3, <3>2 DEF Opened
      <4>2. Alone(s) /\ fetch[s].url \in Urls
        BY <1>1, <2>1, <4>1 DEF Apart, Shaped, WellShaped, Opened
      <4>3. ASSUME NEW q \in Threads \ {s}, Opened(q)'
            PROVE  fetch'[q].url # fetch'[s].url
        <5>1. CASE q = t
          BY <1>1, <1>3, <4>1, <5>1
        <5>2. CASE q # t
          <6>1. Opened(q) /\ fetch'[q].url = fetch[q].url
            BY <1>3, <4>3, <5>2 DEF Opened
          <6> QED BY <4>1, <4>2, <6>1 DEF Alone
        <5> QED BY <5>1, <5>2
      <4> QED BY <1>4, <1>5, <4>1, <4>2, <4>3 DEF Alone
    <3> QED BY <3>1, <3>2
  <2>4. \A v \in Entries : v \in Urls /\ v # u /\ disk'[v] = disk[v]
    BY <1>1, <1>4, <2>2 DEF Typed, Entries
  <2>5. ASSUME NEW s \in Threads, fetch'[s].pc = "picked"
        PROVE  fetch'[s].length = disk'[fetch'[s].victim]
    BY <1>1, <1>3, <2>1, <2>4, <2>5 DEF Apart, Held
  <2>6. admin'.pc = "picked" => admin'.length = disk'[admin'.victim]
    BY <1>1, <1>4, <2>1, <2>4 DEF Apart, Held
  <2>7. Apart'
    BY <1>5, <2>1, <2>3, <2>4, <2>5, <2>6 DEF Apart
  <2>8. Length(u)' = Length(u)
    BY <1>4, <1>1, <2>1 DEF Length, Missing
  <2>9. OnDisk' = OnDisk
    <3>1. OnDisk \in Int /\ OnDisk' = OnDisk + (Length(u)' - Length(u))
      BY <1>1, <1>4, <1>6, OnDiskMoves
    <3>2. Length(u) \in Int
      BY <1>1, LengthType
    <3> QED BY <2>8, <3>1, <3>2
  <2> QED BY <1>4, <1>8, <2>1, <2>7, <2>9 DEF Exact
<1> QED BY <1>6, <1>7, <1>9, <1>10 DEF CInv

\* A block that is written is about to be accounted for.
LEMMA WriteKeeps ==
  ASSUME CInv, NEW t \in Threads, NEW n \in Blocks, WriteBlock(t, n)
  PROVE  CInv'
<1> USE ProxyCacheAssumption DEF accounts, config
<1>0. /\ Typed /\ Shaped /\ Held /\ fetch[t] \in Fetches /\ fetch[t].pc = "open"
      /\ fetch[t].url \in Urls /\ fetch[t].offset \in Nat /\ fetch[t].pending = 0
      /\ n \in Nat /\ fetch[t].offset + n \in Nat
  BY DEF WriteBlock, CInv, Typed, Shaped, WellShaped, Fetches
<1>u. PICK u \in Urls : u = fetch[t].url
  BY <1>0
<1>k. PICK k \in Nat : k = fetch[t].offset
  BY <1>0
<1>r. PICK r \in Fetches :
        r = [fetch[t] EXCEPT !.pc = "written", !.offset = fetch[t].offset + n, !.pending = n]
  BY <1>0 DEF Fetches, Points
<1>1. /\ Typed /\ Shaped /\ Held /\ fetch[t].pc = "open" /\ fetch[t].url = u
      /\ fetch[t].offset = k /\ fetch[t].pending = 0 /\ n \in Nat
      /\ r.pc = "written" /\ r.url = u /\ r.offset = k + n /\ r.pending = n
      /\ r.linked = fetch[t].linked
  BY <1>0, <1>u, <1>k, <1>r DEF Fetches
<1>2. Moves(t, r)
  BY <1>1, <1>r DEF WriteBlock, Moves, Typed, WellShaped
<1>3. /\ fetch' \in [Threads -> Fetches] /\ fetch'[t] = r
      /\ \A s \in Threads : s # t => fetch'[s] = fetch[s]
  BY <1>1, <1>2, OthersStay
<1>4. /\ disk' = IF fetch[t].linked THEN [disk EXCEPT ![u] = Max2(disk[u], k + n)] ELSE disk
      /\ UNCHANGED <<table, recent, files, bytes, caching, size, admin, monitor, disturbed>>
  BY <1>1 DEF WriteBlock
<1>5. /\ \A v \in Urls : v # u => disk'[v] = disk[v]
      /\ ~fetch[t].linked => disk' = disk
      /\ fetch[t].linked => disk'[u] = Max2(disk[u], k + n)
      /\ disk[u] \in Int /\ k + n \in Nat
  BY <1>1, <1>4 DEF Typed, Missing
<1>6. Entries' = Entries
  BY <1>4 DEF Entries
<1>7. Typed'
  <2>1. disk' \in [Urls -> Nat \cup {Missing}]
    BY <1>1, <1>4, <1>5 DEF Typed, Max2
  <2> QED BY <1>1, <1>3, <1>4, <1>6, <2>1 DEF Typed
<1>8. Shaped' /\ Held'
  BY <1>1, <1>2, <1>4, <1>6, MovesHold DEF Held
<1>9. Pending \in Int /\ Pending' = Pending + n
  BY <1>1, <1>3, PendingMoves
<1>10. Covered'
  <2>1. PICK c \in [Urls -> Nat] :
          Covers(c) /\ bytes + Pending >= SumFunctionOnSet(c, Urls)
    BY DEF CInv, Covered
  <2> DEFINE d == [c EXCEPT ![u] = c[u] + n]
  <2>2. d \in [Urls -> Nat] /\ c[u] \in Nat /\ d[u] = c[u] + n
        /\ \A v \in Urls \ {u} : d[v] = c[v]
    BY <1>1
  <2>3. \A v \in Urls : c[v] \in Nat /\ d[v] \in Nat /\ c[v] <= d[v]
    BY <1>1, <2>2
  <2> HIDE DEF d
  <2>4. \A v \in Urls : Length(v)' <= d[v]
    <3>1. ASSUME NEW v \in Urls, v # u PROVE Length(v)' <= d[v]
      BY <1>5, <2>1, <2>2, <3>1 DEF Covers, Length
    <3>2. CASE ~fetch[t].linked
      <4>1. Length(u)' = Length(u) /\ Length(u) <= c[u] /\ Length(u) \in Nat
        BY <1>1, <1>5, <2>1, <3>2, LengthType DEF Covers, Length
      <4> QED BY <1>1, <2>2, <3>1, <4>1
    <3>3. CASE fetch[t].linked
      <4>1. k <= c[u] /\ Length(u) <= c[u] /\ Length(u) \in Nat
        BY <1>1, <2>1, <3>3, LengthType DEF Covers, Writes
      <4>2. Length(u)' = disk'[u] /\ disk'[u] = Max2(disk[u], k + n)
        BY <1>5, <3>3 DEF Length, Missing, Max2
      <4>3. disk[u] <= c[u]
        BY <4>1, <2>2 DEF Length, Missing
      <4> QED BY <1>1, <1>5, <2>2, <3>1, <4>1, <4>2, <4>3 DEF Max2
    <3> QED BY <3>2, <3>3
  <2>5. ASSUME NEW s \in Threads
        PROVE  /\ Writes(s)' => fetch'[s].offset <= d[fetch'[s].url]
               /\ fetch'[s].pc = "picked" => fetch'[s].length <= d[fetch'[s].victim]
    <3>1. CASE s = t
      <4>1. Writes(s)' => k <= c[u]
        BY <1>1, <1>3, <2>1, <3>1 DEF Covers, Writes
      <4> QED BY <1>1, <1>3, <2>2, <3>1, <4>1
    <3>2. CASE s # t
      <4>1. fetch'[s] = fetch[s] /\ fetch[s] \in Fetches
        BY <1>1, <1>3, <3>2 DEF Typed
      <4>2. Writes(s) => /\ fetch[s].url \in Urls /\ fetch[s].offset \in Nat
                         /\ fetch[s].offset <= c[fetch[s].url]
        BY <1>1, <2>1, <4>1 DEF Covers, Writes, Shaped, WellShaped, Fetches
      <4>3. fetch[s].pc = "picked" => /\ fetch[s].victim \in Urls /\ fetch[s].length \in Nat
                                      /\ fetch[s].length <= c[fetch[s].victim]
        BY <1>1, <2>1, <4>1 DEF Covers, Held, Typed, Entries, Fetches
      <4>4. Writes(s)' = Writes(s)
        BY <4>1 DEF Writes
      <4> QED BY <2>3, <4>1, <4>2, <4>3, <4>4
    <3> QED BY <3>1, <3>2
  <2>6. admin'.pc = "picked" => admin'.length <= d[admin'.victim]
    <3>1. admin.pc = "picked" => /\ admin.victim \in Urls /\ admin.length \in Nat
                                 /\ admin.length <= c[admin.victim]
      BY <1>1, <2>1 DEF Covers, Held, Typed, Entries, Admins
    <3> QED BY <1>4, <2>3, <3>1
  <2>7. Covers(d)'
    BY <2>4, <2>5, <2>6 DEF Covers
  <2>8. SumFunctionOnSet(d, Urls) = SumFunctionOnSet(c, Urls) + (d[u] - c[u])
        /\ SumFunctionOnSet(c, Urls) \in Int
    BY <2>2, <2>3, SumChange, SumType
  <2>9. bytes \in Int /\ bytes' = bytes
    BY <1>1, <1>4 DEF Typed
  <2>10. bytes' + Pending' >= SumFunctionOnSet(d, Urls)
    BY <1>1, <1>9, <2>1, <2>2, <2>8, <2>9
  <2> QED BY <2>2, <2>7, <2>10 DEF Covered
<1>11. ASSUME ~disturbed' PROVE Apart' /\ Exact'
  <2>1. Apart /\ Exact
    BY <1>4, <1>11 DEF CInv
  <2>2. /\ Alone(t) /\ fetch[t].linked /\ u \notin Entries /\ disk[u] # Missing /\ disk[u] = k
        /\ \A s \in Threads \ {t} : Opened(s) => fetch[s].url # u
    BY <1>1, <2>1 DEF Apart, Alone, Opened
  <2>3. disk'[u] = k + n /\ k + n # Missing
    BY <1>1, <1>5, <2>2 DEF Max2, Missing
  <2>4. \A s \in Threads : /\ Opened(s)' = Opened(s)
                           /\ fetch'[s].url = fetch[s].url
                           /\ fetch'[s].linked = fetch[s].linked
                           /\ fetch'[s].pc = "closed" <=> fetch[s].pc = "closed"
    BY <1>1, <1>3 DEF Opened
  <2>5. ASSUME NEW s \in Threads, Opened(s)' PROVE Alone(s)'
    <3>1. Alone(s)
      BY <2>1, <2>4, <2>5 DEF Apart
    <3>2. \A q \in Threads \ {s} : Opened(q)' => fetch'[q].url # fetch'[s].url
      BY <2>4, <3>1 DEF Alone
    <3>3. CASE s = t
      BY <1>1, <1>3, <1>6, <2>2, <2>3, <2>4, <3>2, <3>3 DEF Alone
    <3>4. CASE s # t
      <4>1. fetch[s].url \in Urls /\ fetch[s].url # u /\ fetch'[s] = fetch[s]
        BY <1>1, <1>3, <2>2, <2>4, <2>5, <3>4 DEF Shaped, WellShaped, Opened
      <4> QED BY <1>5, <1>6, <3>1, <3>2, <4>1 DEF Alone
    <3> QED BY <3>3, <3>4
  <2>6. \A v \in Entries : v \in Urls /\ v # u /\ disk'[v] = disk[v]
    BY <1>1, <1>5, <2>2 DEF Typed, Entries
  <2>7. ASSUME NEW s \in Threads, fetch'[s].pc = "picked"
        PROVE  fetch'[s].length = disk'[fetch'[s].victim]
    BY <1>1, <1>3, <2>1, <2>6, <2>7 DEF Apart, Held
  <2>8. admin'.pc = "picked" => admin'.length = disk'[admin'.victim]
    BY <1>1, <1>4, <2>1, <2>6 DEF Apart, Held
  <2>9. Apart'
    BY <1>6, <2>1, <2>5, <2>6, <2>7, <2>8 DEF Apart
  <2>10. Length(u) = k /\ Length(u)' = k + n
    BY <2>2, <2>3 DEF Length
  <2>11. OnDisk \in Int /\ OnDisk' = OnDisk + (Length(u)' - Length(u))
    BY <1>1, <1>5, <1>7, OnDiskMoves
  <2>12. OnDisk' = OnDisk + n
    BY <1>1, <2>10, <2>11
  <2>13. bytes \in Int
    BY <1>1 DEF Typed
  <2> QED BY <1>1, <1>4, <1>9, <2>1, <2>9, <2>11, <2>12, <2>13 DEF Exact
<1> QED BY <1>7, <1>8, <1>10, <1>11 DEF CInv

\* A reply that is complete becomes an entry, and nobody's file to write.
LEMMA AddKeeps ==
  ASSUME CInv, NEW t \in Threads, AddToTable(t)
  PROVE  CInv'
<1> USE ProxyCacheAssumption DEF accounts, config
<1>0. /\ Typed /\ Shaped /\ Held /\ fetch[t] \in Fetches /\ fetch[t].pc = "closed"
      /\ fetch[t].url \in Urls
  BY DEF AddToTable, CInv, Typed, Shaped, WellShaped
<1>u. PICK u \in Urls : u = fetch[t].url
  BY <1>0
<1>1. /\ fetch[t].pending = 0 /\ Resting \in Fetches /\ WellShaped(Resting)
      /\ Resting.pc = "idle" /\ Resting.pending = 0 /\ Opened(t)
  BY <1>0 DEF Resting, Fetches, Points, WellShaped, Shaped, Opened
<1>2. Moves(t, Resting)
  BY <1>0, <1>1 DEF AddToTable, Moves, Typed
<1>3. /\ fetch' \in [Threads -> Fetches] /\ fetch'[t] = Resting
      /\ \A s \in Threads : s # t => fetch'[s] = fetch[s]
  BY <1>0, <1>2, OthersStay
<1>4. /\ table' = Append(Without(u), u) /\ recent' = recent \cup {u} /\ files' = files + 1
      /\ UNCHANGED <<disk, bytes, caching, size, admin, monitor, disturbed>>
  BY <1>u DEF AddToTable
<1>5. /\ table' \in Seq(Urls) /\ Distinct(table') /\ Entries' = Entries \cup {u}
      /\ Len(table') <= Len(table) + 1
      /\ u \notin Entries => Len(table') = Len(table) + 1
  <2>1. Entries' = Elements(table')
    BY DEF Entries, Elements
  <2> QED BY <1>0, <1>4, <2>1, PutEntry
<1>6. Len(table) \in Nat /\ Len(table') \in Nat /\ files \in Nat /\ files >= Len(table)
  BY <1>0, <1>5 DEF Typed, Held
<1>7. Typed'
  BY <1>0, <1>3, <1>4, <1>5 DEF Typed
<1>8. Shaped' /\ Held'
  <2>1. files' >= Len(table')
    BY <1>4, <1>5, <1>6
  <2> QED BY <1>2, <1>5, <2>1, MovesHold
<1>9. Pending \in Int /\ Pending' = Pending
  BY <1>0, <1>1, <1>3, PendingStays
<1>10. Covered'
  <2>1. PICK c \in [Urls -> Nat] :
          Covers(c) /\ bytes + Pending >= SumFunctionOnSet(c, Urls)
    BY DEF CInv, Covered
  <2>2. ASSUME NEW s \in Threads
        PROVE  /\ Writes(s)' => fetch'[s].offset <= c[fetch'[s].url]
               /\ fetch'[s].pc = "picked" => fetch'[s].length <= c[fetch'[s].victim]
    BY <1>1, <1>3, <2>1 DEF Covers, Writes
  <2>3. \A v \in Urls : Length(v)' <= c[v]
    BY <1>4, <2>1 DEF Covers, Length
  <2>4. Covers(c)'
    BY <1>4, <2>1, <2>2, <2>3 DEF Covers
  <2> QED BY <1>4, <1>9, <2>1, <2>4 DEF Covered
<1>11. ASSUME ~disturbed' PROVE Apart' /\ Exact'
  <2>1. Apart /\ Exact
    BY <1>4, <1>11 DEF CInv
  <2>2. Alone(t) /\ u \notin Entries /\ disk[u] # Missing
    BY <1>1, <1>u, <2>1 DEF Apart, Alone
  <2>3. ASSUME NEW s \in Threads, Opened(s)' PROVE Alone(s)'
    <3>1. s # t /\ Opened(s) /\ fetch'[s] = fetch[s]
      BY <1>1, <1>3, <2>3 DEF Opened
    <3>2. Alone(s) /\ fetch[s].url # u
      BY <1>u, <2>1, <2>2, <3>1 DEF Apart, Alone
    <3>3. \A q \in Threads \ {s} : Opened(q)' => fetch'[q].url # fetch'[s].url
      BY <1>1, <1>3, <3>1, <3>2 DEF Alone, Opened
    <3> QED BY <1>4, <1>5, <3>1, <3>2, <3>3 DEF Alone
  <2>4. ASSUME NEW s \in Threads, fetch'[s].pc = "picked"
        PROVE  fetch'[s].length = disk'[fetch'[s].victim]
    BY <1>1, <1>3, <1>4, <2>1, <2>4 DEF Apart
  <2>5. \A v \in Entries' : disk'[v] # Missing
    BY <1>4, <1>5, <2>1, <2>2 DEF Apart
  <2>6. Apart'
    BY <1>4, <2>1, <2>3, <2>4, <2>5 DEF Apart
  <2>7. OnDisk' = OnDisk
    BY <1>4 DEF OnDisk, Length
  <2> QED BY <1>4, <1>5, <1>6, <1>9, <2>1, <2>2, <2>6, <2>7 DEF Exact
<1> QED BY <1>7, <1>8, <1>10, <1>11 DEF CInv

-----------------------------------------------------------------------------
(* Deleting a file *)

\* Who deletes file u is done with it, and its writers have no name any more.
Unlinks(u) ==
    /\ fetch' \in [Threads -> Fetches]
    /\ \A s \in Threads :
         /\ fetch'[s].url = fetch[s].url /\ fetch'[s].offset = fetch[s].offset
         /\ fetch'[s].pending = fetch[s].pending
         /\ fetch'[s].linked <=> fetch[s].linked /\ s \notin Writers(u)
         /\ \/ fetch'[s].pc = fetch[s].pc
            \/ fetch[s].pc = "picked" /\ fetch'[s].pc = "evicting"
         /\ fetch'[s].pc # "picked"
         /\ fetch'[s].pc = "evicting" => monitor' = s
    /\ admin' \in Admins /\ admin'.pc # "picked"
    /\ admin'.pc = "sweep" => monitor' = Admin /\ admin'.sweep \subseteq Entries \ {u}

\* What is given back for an entry is covered by its bound, and is its length
\* if nobody wrote to it.
LEMMA DeleteKeeps ==
  ASSUME CInv, NEW u \in Entries, NEW length \in Nat, Delete(u, length), Unlinks(u),
         \A c \in [Urls -> Nat] : Covers(c) => length <= c[u],
         ~disturbed => length = disk[u],
         UNCHANGED <<caching, size, monitor>>
  PROVE  CInv'
<1> USE ProxyCacheAssumption
<1>1. /\ Typed /\ Shaped /\ Held /\ u \in Urls /\ disk[u] # Missing
      /\ bytes \in Int
  BY DEF CInv, Typed, Entries, Delete, Deletable
<1>2. /\ disk' = [disk EXCEPT ![u] = Missing]
      /\ \A v \in Urls : disk'[v] = IF v = u THEN Missing ELSE disk[v]
      /\ table' = Without(u) /\ recent' = recent \ {u} /\ files' = files - 1
      /\ bytes' = bytes - length
      /\ disturbed' = (disturbed \/ Writers(u) # {})
  BY <1>1 DEF Delete, Typed
<1>3. /\ table' \in Seq(Urls) /\ Distinct(table') /\ Entries' = Entries \ {u}
      /\ Len(table') = Len(table) - 1
  <2>1. Entries' = Elements(table')
    BY DEF Entries, Elements
  <2> QED BY <1>1, <1>2, <2>1, WithoutEntry
<1>4. /\ Len(table) \in Nat /\ Len(table') \in Nat
      /\ files \in Int /\ files >= Len(table)
  BY <1>1, <1>3 DEF Typed, Held
<1>5. files' \in Nat /\ files' >= Len(table')
  BY <1>2, <1>3, <1>4
<1>6. Typed'
  <2>1. disk' \in [Urls -> Nat \cup {Missing}]
    BY <1>1, <1>2 DEF Typed
  <2>2. disturbed' \in BOOLEAN
    <3>1. CASE disturbed \/ Writers(u) # {}
      <4>1. disturbed' = TRUE
        BY <1>2, <3>1
      <4> QED BY <4>1
    <3>2. CASE ~(disturbed \/ Writers(u) # {})
      <4>1. disturbed' = FALSE
        BY <1>2, <3>2
      <4> QED BY <4>1
    <3> QED BY <3>1, <3>2
  <2>3. recent' \subseteq Entries'
    BY <1>1, <1>2, <1>3 DEF Typed
  <2>4. bytes' \in Int
    BY <1>1, <1>2
  <2> QED BY <1>1, <1>3, <1>5, <2>1, <2>2, <2>3, <2>4 DEF Typed, Unlinks
<1>7. Shaped'
  BY <1>1 DEF Shaped, WellShaped, Unlinks
<1>8. Held'
  BY <1>3, <1>5 DEF Held, Unlinks
<1>9. Pending \in Int /\ Pending' = Pending
  BY <1>1, PendingStays DEF Unlinks
<1>10. \A s \in Threads : Writes(s)' => /\ Writes(s) /\ fetch[s].url \in Urls
                                       /\ fetch[s].url # u
  BY <1>1 DEF Writes, Unlinks, Writers, Shaped, WellShaped
<1>11. Covered'
  <2>1. PICK c \in [Urls -> Nat] :
          Covers(c) /\ bytes + Pending >= SumFunctionOnSet(c, Urls)
    BY DEF CInv, Covered
  <2> DEFINE d == [c EXCEPT ![u] = 0]
  <2>2. /\ d \in [Urls -> Nat] /\ c[u] \in Nat /\ d[u] = 0
        /\ \A v \in Urls \ {u} : d[v] = c[v]
    BY <1>1
  <2>3. \A v \in Urls : c[v] \in Int /\ d[v] \in Int
    BY <2>2
  <2> HIDE DEF d
  <2>4. \A v \in Urls : Length(v)' <= d[v]
    BY <1>1, <1>2, <2>1, <2>2 DEF Covers, Length
  <2>5. \A s \in Threads : Writes(s)' => fetch'[s].offset <= d[fetch'[s].url]
    BY <1>10, <2>1, <2>2 DEF Covers, Unlinks
  <2>6. Covers(d)'
    BY <2>4, <2>5 DEF Covers, Unlinks
  <2>7. SumFunctionOnSet(d, Urls) = SumFunctionOnSet(c, Urls) + (d[u] - c[u])
        /\ SumFunctionOnSet(c, Urls) \in Int
    BY <1>1, <2>2, <2>3, SumChange, SumType
  <2>8. length <= c[u]
    BY <2>1
  <2>9. bytes' + Pending' >= SumFunctionOnSet(d, Urls)
    BY <1>1, <1>2, <1>9, <2>1, <2>2, <2>7, <2>8
  <2> QED BY <2>2, <2>6, <2>9 DEF Covered
<1>12. ASSUME ~disturbed' PROVE Apart' /\ Exact'
  <2>1. Apart /\ Exact /\ length = disk[u]
    BY <1>2, <1>12 DEF CInv
  <2>2. \A s \in Threads : Opened(s)' <=> Opened(s)
    BY DEF Opened, Unlinks
  <2>3. ASSUME NEW s \in Threads, Opened(s)' PROVE Alone(s)'
    <3>1. Alone(s)
      BY <2>1, <2>2, <2>3 DEF Apart
    <3>2. fetch[s].url \in Urls /\ fetch[s].url # u
      BY <1>1, <2>2, <2>3, <3>1 DEF Alone, Shaped, WellShaped, Opened
    <3>3. fetch'[s].linked
      BY <3>1, <3>2 DEF Alone, Unlinks, Writers
    <3>4. \A q \in Threads \ {s} : Opened(q)' => fetch'[q].url # fetch'[s].url
      BY <2>2, <3>1 DEF Alone, Unlinks
    <3>5. disk'[fetch'[s].url] = disk[fetch[s].url]
      BY <1>2, <3>2 DEF Unlinks
    <3>6. fetch'[s].pc # "closed" => fetch[s].pc # "closed"
      BY DEF Unlinks
    <3> QED BY <1>3, <3>1, <3>3, <3>4, <3>5, <3>6 DEF Alone, Unlinks
  <2>4. \A v \in Entries' : disk'[v] # Missing
    <3>1. Entries \subseteq Urls
      BY <1>1 DEF Typed, Entries
    <3>2. \A v \in Entries : disk[v] # Missing
      BY <2>1 DEF Apart
    <3> QED BY <1>2, <1>3, <3>1, <3>2
  <2>5. Apart'
    BY <2>3, <2>4 DEF Apart, Unlinks
  <2>6. Length(u) = disk[u] /\ Length(u)' = 0
    BY <1>1, <1>2 DEF Length
  <2>7. OnDisk \in Int /\ OnDisk' = OnDisk + (Length(u)' - Length(u))
    BY <1>1, <1>2, <1>6, OnDiskMoves
  <2> QED BY <1>1, <1>2, <1>3, <1>4, <1>9, <2>1, <2>5, <2>6, <2>7 DEF Exact
<1> QED BY <1>6, <1>7, <1>8, <1>11, <1>12 DEF CInv

\* An eviction deletes its victim.
LEMMA VictimKeeps ==
  ASSUME CInv, NEW t \in Threads, DeleteVictim(t)
  PROVE  CInv'
<1> USE ProxyCacheAssumption DEF config
<1>1. /\ Typed /\ Shaped /\ Held /\ fetch[t] \in Fetches /\ fetch[t].pc = "picked"
      /\ fetch[t].victim \in Entries /\ fetch[t].length \in Nat /\ monitor = t
  BY DEF DeleteVictim, CInv, Typed, Held, Fetches
<1>u. PICK u \in Entries : u = fetch[t].victim
  BY <1>1
<1>l. PICK length \in Nat : length = fetch[t].length
  BY <1>1
<1>2. /\ Delete(u, length)
      /\ fetch' = [Unlinked(u) EXCEPT ![t].pc = "evicting", ![t].victim = NoUrl,
                                      ![t].length = 0]
      /\ UNCHANGED <<caching, size, admin, monitor>>
  BY <1>u, <1>l DEF DeleteVictim
<1>3. Unlinks(u)
  <2>1. \A s \in Threads :
          /\ Unlinked(u)[s] \in Fetches
          /\ Unlinked(u)[s].url = fetch[s].url /\ Unlinked(u)[s].offset = fetch[s].offset
          /\ Unlinked(u)[s].pending = fetch[s].pending
          /\ Unlinked(u)[s].linked <=> fetch[s].linked /\ s \notin Writers(u)
          /\ Unlinked(u)[s].pc = fetch[s].pc
    BY <1>1 DEF Unlinked, Typed, Fetches
  <2>2. Unlinked(u) \in [Threads -> Fetches]
    BY <2>1 DEF Unlinked
  <2>f. PICK f \in [Threads -> Fetches] : f = Unlinked(u)
    BY <2>2
  <2>r. PICK r \in Fetches : r = [f[t] EXCEPT !.pc = "evicting", !.victim = NoUrl, !.length = 0]
    <3>1. f[t] \in Fetches
      OBVIOUS
    <3> QED BY <3>1 DEF Fetches, Points
  <2>3. /\ fetch' \in [Threads -> Fetches] /\ fetch'[t] = r
        /\ \A s \in Threads : s # t => fetch'[s] = f[s]
        /\ r.url = f[t].url /\ r.offset = f[t].offset /\ r.pending = f[t].pending
        /\ r.linked = f[t].linked /\ r.pc = "evicting"
    <3>1. fetch' = [f EXCEPT ![t] = r]
      BY <1>2, <2>f, <2>r
    <3>2. f[t] \in Fetches
      OBVIOUS
    <3> QED BY <2>r, <3>1, <3>2 DEF Fetches
  <2>4. \A s \in Threads \ {t} : fetch[s].pc \notin {"evicting", "picked"}
    BY <1>1 DEF Held
  <2>5. admin' \in Admins /\ admin'.pc \notin {"sweep", "picked"}
    BY <1>1, <1>2 DEF Held, Typed
  <2> QED BY <1>1, <1>2, <2>1, <2>f, <2>3, <2>4, <2>5 DEF Unlinks
<1>4. \A c \in [Urls -> Nat] : Covers(c) => length <= c[u]
  BY <1>1, <1>u, <1>l DEF Covers
<1>5. ~disturbed => length = disk[u]
  BY <1>1, <1>u, <1>l DEF CInv, Apart
<1> QED BY <1>2, <1>3, <1>4, <1>5, DeleteKeeps

-----------------------------------------------------------------------------
(* The administrator's steps *)

\* A step of the administrator that deletes nothing, and any other step that
\* leaves the files and the fetches alone.
LEMMA AdminKeeps ==
  ASSUME CInv,
         UNCHANGED <<disk, table, files, bytes, fetch, disturbed>>,
         recent' \subseteq Entries, caching' \in BOOLEAN, size' \in Sizes,
         admin' \in Admins, monitor' \in Threads \cup {Admin, Free},
         monitor' = monitor \/ monitor \in {Free, Admin},
         admin'.pc \in {"sweep", "picked"} =>
           monitor' = Admin /\ admin'.sweep \subseteq Entries,
         admin'.pc = "picked" =>
           /\ admin'.victim \in Entries \ admin'.sweep
           /\ \/ admin'.length = Length(admin'.victim)
              \/ admin' = admin
  PROVE  CInv'
<1> USE ProxyCacheAssumption
<1>1. Typed /\ Shaped /\ Held
  BY DEF CInv
<1>2. Entries' = Entries /\ \A u \in Urls : Length(u)' = Length(u)
  BY DEF Entries, Length
<1>3. Typed'
  BY <1>1, <1>2 DEF Typed
<1>4. Shaped'
  BY <1>1 DEF Shaped, WellShaped
<1>5. Held'
  BY <1>1, <1>2 DEF Held
<1>6. Pending' = Pending
  BY DEF Pending
<1>7. Covered'
  <2>1. PICK c \in [Urls -> Nat] :
          Covers(c) /\ bytes + Pending >= SumFunctionOnSet(c, Urls)
    BY DEF CInv, Covered
  <2>2. admin'.pc = "picked" => admin'.length <= c[admin'.victim]
    BY <1>1, <2>1 DEF Covers, Typed, Entries
  <2>3. Covers(c)'
    BY <1>2, <2>1, <2>2 DEF Covers, Writes
  <2> QED BY <1>6, <2>1, <2>3 DEF Covered
<1>8. ASSUME ~disturbed' PROVE Apart' /\ Exact'
  <2>1. Apart /\ Exact
    BY <1>8 DEF CInv
  <2>2. admin'.pc = "picked" => admin'.length = disk'[admin'.victim]
    BY <2>1 DEF Apart, Length
  <2>3. Apart'
    BY <1>2, <2>1, <2>2 DEF Apart, Alone, Opened
  <2>4. OnDisk' = OnDisk
    BY DEF OnDisk, Length
  <2> QED BY <1>6, <2>1, <2>3, <2>4 DEF Exact
<1> QED BY <1>3, <1>4, <1>5, <1>7, <1>8 DEF CInv

\* What is left of the sweep is in the table still when a file is deleted.
LEMMA SweepKeeps ==
  ASSUME CInv, DeleteFile
  PROVE  CInv'
<1> USE ProxyCacheAssumption DEF config, accounts
<1>1. /\ Typed /\ Shaped /\ Held /\ admin.pc = "picked" /\ monitor = Admin
      /\ admin \in Admins /\ admin.victim \in Entries \ admin.sweep
      /\ admin.sweep \subseteq Entries /\ admin.length \in Nat
  BY DEF DeleteFile, CInv, Typed, Held, Admins
<1>2. /\ admin' \in Admins /\ admin'.pc = "sweep" /\ admin'.sweep = admin.sweep
      /\ UNCHANGED <<caching, size, monitor>>
  BY <1>1 DEF DeleteFile, Admins
<1>3. CASE ~Deletable(admin.victim) /\ UNCHANGED <<disk, table, recent, accounts, fetch, disturbed>>
  BY <1>1, <1>2, <1>3, AdminKeeps DEF Typed
<1>4. CASE Delete(admin.victim, admin.length) /\ fetch' = Unlinked(admin.victim)
  <2>u. PICK u \in Entries : u = admin.victim
    BY <1>1
  <2>l. PICK length \in Nat : length = admin.length
    BY <1>1
  <2>1. Delete(u, length) /\ fetch' = Unlinked(u) /\ u \notin admin.sweep
    BY <1>1, <1>4, <2>u, <2>l
  <2>2. Unlinks(u)
    <3>1. \A s \in Threads :
            /\ Unlinked(u)[s] \in Fetches
            /\ Unlinked(u)[s].url = fetch[s].url /\ Unlinked(u)[s].offset = fetch[s].offset
            /\ Unlinked(u)[s].pending = fetch[s].pending
            /\ Unlinked(u)[s].linked <=> fetch[s].linked /\ s \notin Writers(u)
            /\ Unlinked(u)[s].pc = fetch[s].pc
      BY <1>1 DEF Unlinked, Typed, Fetches
    <3>2. Unlinked(u) \in [Threads -> Fetches]
      BY <3>1 DEF Unlinked
    <3>3. \A s \in Threads : fetch[s].pc \notin {"evicting", "picked"}
      BY <1>1 DEF Held
    <3> QED BY <1>1, <1>2, <2>1, <3>1, <3>2, <3>3 DEF Unlinks
  <2>3. \A c \in [Urls -> Nat] : Covers(c) => length <= c[u]
    BY <1>1, <2>u, <2>l DEF Covers
  <2>4. ~disturbed => length = disk[u]
    BY <1>1, <2>u, <2>l DEF CInv, Apart
  <2> QED BY <1>2, <2>1, <2>2, <2>3, <2>4, DeleteKeeps
<1> QED BY <1>3, <1>4 DEF DeleteFile

\* The other steps.
LEMMA AdminSteps ==
  ASSUME CInv,
         \/ Administrator
         \/ PickFile
         \/ EndClean
         \/ Tick
         \/ UNCHANGED vars
  PROVE  CInv'
<1> USE ProxyCacheAssumption DEF config, accounts
<1>1. /\ recent \subseteq Entries /\ caching \in BOOLEAN /\ size \in Sizes
      /\ admin \in Admins /\ monitor \in Threads \cup {Admin, Free}
      /\ Entries \subseteq Urls
      /\ admin.pc \in {"sweep", "picked"} =>
           monitor = Admin /\ admin.sweep \subseteq Entries
      /\ admin.pc = "picked" => admin.victim \in Entries \ admin.sweep
  BY DEF CInv, Typed, Held, Entries
<1>2. ASSUME NEW on \in BOOLEAN, ParseCaching(on) PROVE CInv'
  <2>1. admin' \in Admins /\ admin'.pc = "parsing"
    BY <1>1, <1>2 DEF ParseCaching, Admins
  <2> QED BY <1>1, <1>2, <2>1, AdminKeeps DEF ParseCaching
<1>3. ASSUME NEW n \in Sizes, NEW cleanCache \in BOOLEAN, ParseSize(n, cleanCache) PROVE CInv'
  <2>1. admin' \in Admins /\ admin'.pc \in {"clean", "ready"}
    BY <1>1, <1>3 DEF ParseSize, Admins
  <2> QED BY <1>1, <1>3, <2>1, AdminKeeps DEF ParseSize
<1>4. CASE ParseFails
  <2>1. admin' \in Admins /\ admin'.pc = "ready"
    BY <1>1, <1>4 DEF ParseFails, Admins
  <2> QED BY <1>1, <1>4, <2>1, AdminKeeps DEF ParseFails
<1>5. CASE BeginClean
  <2>1. admin' \in Admins /\ admin'.pc = "sweep" /\ admin'.sweep = Entries
    BY <1>1, <1>5 DEF BeginClean, Admins
  <2> QED BY <1>1, <1>5, <2>1, AdminKeeps DEF BeginClean
<1>6. CASE PickFile
  <2>1. PICK u \in admin.sweep :
          admin' = [pc |-> "picked", sweep |-> admin.sweep \ {u}, victim |-> u,
                    length |-> Length(u)]
    BY <1>6 DEF PickFile
  <2>2. u \in Entries /\ u \in Urls /\ monitor = Admin /\ admin.sweep \subseteq Entries
    BY <1>1, <1>6 DEF PickFile
  <2>3. Length(u) \in Nat
    BY <2>2, LengthType DEF CInv
  <2>4. /\ admin' \in Admins /\ admin'.pc = "picked" /\ admin'.sweep = admin.sweep \ {u}
        /\ admin'.victim = u /\ admin'.length = Length(u)
    BY <1>1, <2>1, <2>2, <2>3 DEF Admins
  <2> QED BY <1>1, <1>6, <2>2, <2>4, AdminKeeps DEF PickFile
<1>7. CASE EndClean
  <2>1. admin' \in Admins /\ admin'.pc = "ready" /\ monitor = Admin
    BY <1>1, <1>7 DEF EndClean, Admins
  <2> QED BY <1>1, <1>7, <2>1, AdminKeeps DEF EndClean
<1>8. CASE Tick
  BY <1>1, <1>8, AdminKeeps DEF Tick
<1>9. CASE UNCHANGED vars
  BY <1>1, <1>9, AdminKeeps DEF vars
<1> QED BY <1>2, <1>3, <1>4, <1>5, <1>6, <1>7, <1>8, <1>9 DEF Administrator

-----------------------------------------------------------------------------
(* The theorems *)

\* Every step keeps the invariant.
LEMMA CacheStep ==
  CInv /\ [Next]_vars => CInv'
<1> SUFFICES ASSUME CInv, [Next]_vars PROVE CInv'
  OBVIOUS
<1>1. ASSUME NEW t \in Threads, Proxy(t) PROVE CInv'
  BY <1>1, QuietSteps, OpenKeeps, WriteKeeps, AddKeeps DEF Proxy
<1>2. CASE Inside
  BY <1>2, QuietSteps, VictimKeeps, SweepKeeps, AdminSteps DEF Inside
<1>3. CASE Administrator \/ Tick \/ UNCHANGED vars
  BY <1>3, AdminSteps
<1> QED BY <1>1, <1>2, <1>3 DEF Next

\* The invariant holds in every reachable state.
LEMMA CacheInvariance == Spec => []CInv
BY InitCache, CacheStep, PTL DEF Spec

\* The variables have their types, and no entry is twice in the table.
THEOREM CacheTypes == Spec => []TypeOK
<1>1. CInv => TypeOK
  BY TableLength DEF CInv, Typed, TypeOK
<1> QED BY <1>1, CacheInvariance, PTL

\* The bytes accounted for, with those about to be, cover the files on disk.
THEOREM AccountsCover == Spec => []NeverUndercounts
<1>1. CInv => NeverUndercounts
  <2> SUFFICES ASSUME CInv PROVE bytes + Pending >= OnDisk
    BY DEF NeverUndercounts
  <2>1. Typed /\ IsFiniteSet(Urls) /\ bytes \in Int
    BY ProxyCacheAssumption DEF CInv, Typed
  <2>2. PICK c \in [Urls -> Nat] :
          Covers(c) /\ bytes + Pending >= SumFunctionOnSet(c, Urls)
    BY DEF CInv, Covered
  <2> DEFINE p == [u \in Urls |-> Length(u)]
  <2>3. \A u \in Urls : p[u] \in Int /\ c[u] \in Int /\ p[u] <= c[u]
    BY <2>1, <2>2, LengthType DEF Covers
  <2>4. OnDisk = SumFunctionOnSet(p, Urls)
    BY DEF OnDisk, SumFunction
  <2> HIDE DEF p
  <2>5. SumFunctionOnSet(p, Urls) <= SumFunctionOnSet(c, Urls)
    BY <2>1, <2>3, SumLeq
  <2>6. SumFunctionOnSet(p, Urls) \in Int /\ SumFunctionOnSet(c, Urls) \in Int
    BY <2>1, <2>3, SumType
  <2>7. Pending \in Int
    <3> DEFINE q == [s \in Threads |-> fetch[s].pending]
    <3>1. IsFiniteSet(Threads) /\ \A s \in Threads : q[s] \in Int
      BY <2>1, ProxyCacheAssumption DEF Typed, Fetches
    <3>2. Pending = SumFunctionOnSet(q, Threads)
      BY DEF Pending, SumFunction
    <3> HIDE DEF q
    <3> QED BY <3>1, <3>2, SumType
  <2> QED BY <2>1, <2>2, <2>4, <2>5, <2>6, <2>7
<1> QED BY <1>1, CacheInvariance, PTL

\* As long as no file was written by two fetches, and none was deleted under
\* its writer, the accounts are exact.
THEOREM AccountsExact == Spec => []AccountingExact
<1>1. CInv => AccountingExact
  BY DEF CInv, Exact, AccountingExact
<1> QED BY <1>1, CacheInvariance, PTL

\* And every entry has its file.
THEOREM EntriesKeepFiles == Spec => []EntriesHaveFiles
<1>1. CInv => EntriesHaveFiles
  BY DEF CInv, Apart, EntriesHaveFiles
<1> QED BY <1>1, CacheInvariance, PTL
=============================================================================
