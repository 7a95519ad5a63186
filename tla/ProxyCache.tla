----------------------------- MODULE ProxyCache -----------------------------
(***************************************************************************)
(* The reply cache of the HTTP proxy (org.portal.proxy): one Proxy thread  *)
(* per request writes the reply to a file and accounts for every block     *)
(* with Cache.DecrementFreeSpace, which evicts files when space runs out;  *)
(* the Admin thread changes the configuration and cleans the cache.        *)
(* Cache's synchronized methods hold the monitor of the one Cache object;  *)
(* opening, writing, closing and deleting a file take effect outside it,   *)
(* between any two steps of the others.  IsCached always answers no, so    *)
(* every request fetches, and the path that serves a file is never taken.  *)
(***************************************************************************)
EXTENDS Integers, Sequences, SequencesExt, FiniteSets, Functions

CONSTANTS
    Threads,    \* the proxy threads
    Urls,       \* URLs the cache can make a file name of
    Rank,       \* their order in the enumeration of the hash table
    Blocks,     \* sizes of what a thread writes at a time
    Sizes,      \* cache sizes the administrator sets
    MinFree,    \* MinFreeSpace: 15000 in the code
    DeleteOpen, \* whether the system deletes files that are open
    MaxLength,  \* bound on the length of a reply
    MaxBytes,   \* bound on bytesCached when a fetch begins
    MaxFiles,   \* bound on filesCached when a fetch begins
    Admin,      \* the admin thread
    Free,       \* the monitor's holder when nobody is
    NoUrl

ASSUME ProxyCacheAssumption ==
    /\ IsFiniteSet(Threads) /\ IsFiniteSet(Urls)
    /\ Rank \in [Urls -> Nat]
    /\ \A u, v \in Urls : Rank[u] = Rank[v] => u = v
    /\ Blocks \subseteq Nat \ {0} /\ Sizes \subseteq Nat \ {0} /\ Sizes # {}
    /\ MinFree \in Nat
    /\ DeleteOpen \in BOOLEAN
    /\ MaxLength \in Nat /\ MaxBytes \in Nat /\ MaxFiles \in Nat
    /\ Admin \notin Threads /\ Free \notin Threads \cup {Admin}
    /\ NoUrl \notin Urls

VARIABLES
    disk,       \* the length of the file of each URL, -1 if there is none
    table,      \* Cache.htable: the URLs in order of their dates, oldest first
    recent,     \* the URLs whose date is the current millisecond
    files,      \* Config.filesCached
    bytes,      \* Config.bytesCached
    caching,    \* Config.isCaching
    size,       \* Config.cacheSize
    fetch,      \* what each proxy thread is doing
    admin,      \* what the admin thread is doing
    monitor,    \* the thread inside the cache's synchronized methods
    disturbed   \* history: a file was written by two fetches, or lost its writer

vars == <<disk, table, recent, files, bytes, caching, size, fetch, admin,
          monitor, disturbed>>
accounts == <<files, bytes>>
config == <<caching, size>>

-----------------------------------------------------------------------------
(* Threads and files *)

Missing == -1

\* Where a fetch can be: decided, open, written (a block that is not accounted
\* for), evicting, picked (a file whose length has been read), closed.
Points == {"idle", "decided", "open", "written", "evicting", "picked", "closed"}

\* offset is what the thread has written, pending what it has not accounted
\* for, linked whether its file is still under its name.
Fetches == [pc : Points, url : Urls \cup {NoUrl}, offset : Nat, pending : Nat,
            linked : BOOLEAN, victim : Urls \cup {NoUrl}, length : Nat]

\* sweep holds the entries the clean-up has yet to enumerate.
Admins == [pc : {"ready", "parsing", "clean", "sweep", "picked"},
           sweep : SUBSET Urls, victim : Urls \cup {NoUrl}, length : Nat]

Resting == [pc |-> "idle", url |-> NoUrl, offset |-> 0, pending |-> 0,
            linked |-> FALSE, victim |-> NoUrl, length |-> 0]

Entries == {table[k] : k \in DOMAIN table}
Position(u) == CHOOSE k \in DOMAIN table : table[k] = u
Without(u) == IF u \in Entries THEN RemoveAt(table, Position(u)) ELSE table

\* The threads that have the file under this name open.
Writers(u) == {t \in Threads : fetch[t].url = u /\ fetch[t].linked
                  /\ fetch[t].pc \notin {"idle", "decided", "closed"}}

BytesFree == size - bytes

\* File.length(), 0 for a file that does not exist.
Length(u) == IF disk[u] = Missing THEN 0 ELSE disk[u]

Max2(a, b) == IF a > b THEN a ELSE b

\* File.delete() succeeds on a file that exists and may be deleted.
Deletable(u) == disk[u] # Missing /\ (DeleteOpen \/ Writers(u) = {})

-----------------------------------------------------------------------------
\* The constructor of Cache deletes all files; caching is off until the
\* administrator turns it on.
Init ==
    /\ disk = [u \in Urls |-> Missing]
    /\ table = <<>>
    /\ recent = {}
    /\ files = 0
    /\ bytes = 0
    /\ caching = FALSE
    /\ size \in Sizes
    /\ fetch = [t \in Threads |-> Resting]
    /\ admin = [pc |-> "ready", sweep |-> {}, victim |-> NoUrl, length |-> 0]
    /\ monitor = Free
    /\ disturbed = FALSE

-----------------------------------------------------------------------------
(* Proxy.run *)

\* Caching is on, the URL may be cached and so may the reply.
Decide(t, u) ==
    /\ fetch[t].pc = "idle"
    /\ caching
    /\ bytes < MaxBytes /\ files < MaxFiles
    /\ fetch' = [fetch EXCEPT ![t].pc = "decided", ![t].url = u]
    /\ UNCHANGED <<disk, table, recent, accounts, config, admin, monitor,
                   disturbed>>

\* getFileOutputStream creates the file, or truncates the one that is there;
\* its bytes stay accounted for.
OpenFile(t) ==
    /\ fetch[t].pc = "decided"
    /\ disk' = [disk EXCEPT ![fetch[t].url] = 0]
    /\ fetch' = [fetch EXCEPT ![t].pc = "open", ![t].linked = TRUE]
    /\ disturbed' = (disturbed \/ disk[fetch[t].url] # Missing)
    /\ UNCHANGED <<table, recent, accounts, config, admin, monitor>>

\* A block goes to the file at the thread's own offset; if another thread has
\* truncated the file, the gap counts in its length.
WriteBlock(t, n) ==
    /\ fetch[t].pc = "open"
    /\ fetch[t].offset + n <= MaxLength
    /\ disk' = IF fetch[t].linked
               THEN [disk EXCEPT ![fetch[t].url] = Max2(@, fetch[t].offset + n)]
               ELSE disk
    /\ fetch' = [fetch EXCEPT ![t].pc = "written", ![t].offset = @ + n,
                              ![t].pending = n]
    /\ UNCHANGED <<table, recent, accounts, config, admin, monitor, disturbed>>

\* The reply ended, and the thread closes its file.
CloseFile(t) ==
    /\ fetch[t].pc = "open"
    /\ fetch' = [fetch EXCEPT ![t].pc = "closed"]
    /\ UNCHANGED <<disk, table, recent, accounts, config, admin, monitor,
                   disturbed>>

\* Reading from the server or writing to the client failed: the file is closed
\* and left behind, accounted for and in no table.
Abort(t) ==
    /\ fetch[t].pc \in {"decided", "open"}
    /\ fetch' = [fetch EXCEPT ![t] = Resting]
    /\ UNCHANGED <<disk, table, recent, accounts, config, admin, monitor,
                   disturbed>>

-----------------------------------------------------------------------------
(* Cache.DecrementFreeSpace and Cache.MakeFreeSpace, under the monitor *)

\* The block is counted; space is made if too little is left.
Account(t) ==
    /\ fetch[t].pc = "written"
    /\ monitor = Free
    /\ bytes' = bytes + fetch[t].pending
    /\ \/ /\ size - bytes' <= MinFree
          /\ monitor' = t
          /\ fetch' = [fetch EXCEPT ![t].pc = "evicting", ![t].pending = 0]
       \/ /\ size - bytes' > MinFree
          /\ monitor' = Free
          /\ fetch' = [fetch EXCEPT ![t].pc = "open", ![t].pending = 0]
    /\ UNCHANGED <<disk, table, recent, files, config, admin, disturbed>>

Return(t) ==
    /\ monitor' = Free
    /\ fetch' = [fetch EXCEPT ![t].pc = "open", ![t].victim = NoUrl,
                              ![t].length = 0]

\* There is space enough, or nothing left to evict.
StopEvicting(t) ==
    /\ fetch[t].pc = "evicting"
    /\ BytesFree >= MinFree \/ table = <<>>
    /\ Return(t)
    /\ UNCHANGED <<disk, table, recent, accounts, config, admin, disturbed>>

\* The scan keeps the last entry it enumerates that is older than the scan.
PickVictim(t) ==
    /\ fetch[t].pc = "evicting"
    /\ BytesFree < MinFree /\ table # <<>>
    /\ \E u \in Entries \ recent :
         /\ \A v \in Entries \ recent : Rank[v] <= Rank[u]
         /\ fetch' = [fetch EXCEPT ![t].pc = "picked", ![t].victim = u,
                                   ![t].length = Length(u)]
    /\ UNCHANGED <<disk, table, recent, accounts, config, admin, monitor,
                   disturbed>>

\* No entry is: the null file name throws, which ends the request.
PickNothing(t) ==
    /\ fetch[t].pc = "evicting"
    /\ BytesFree < MinFree /\ table # <<>>
    /\ Entries \subseteq recent
    /\ monitor' = Free
    /\ fetch' = [fetch EXCEPT ![t] = Resting]
    /\ UNCHANGED <<disk, table, recent, accounts, config, admin, disturbed>>

\* Mutant: the space is given back by the eviction and by its caller.
DeleteTwice(u, length) ==
    /\ Deletable(u)
    /\ disk' = [disk EXCEPT ![u] = Missing]
    /\ table' = Without(u)
    /\ recent' = recent \ {u}
    /\ files' = files - 1
    /\ bytes' = bytes - 2 * length
    /\ disturbed' = (disturbed \/ Writers(u) # {})

\* Mutant: the entry's file is gone, the space is not given back.
DeleteUncounted(u, length) ==
    /\ Deletable(u)
    /\ disk' = [disk EXCEPT ![u] = Missing]
    /\ table' = Without(u)
    /\ recent' = recent \ {u}
    /\ files' = files - 1
    /\ disturbed' = (disturbed \/ Writers(u) # {})
    /\ UNCHANGED bytes

\* Mutant: the entry stays in the table.
DeleteFileOnly(u, length) ==
    /\ Deletable(u)
    /\ disk' = [disk EXCEPT ![u] = Missing]
    /\ bytes' = bytes - length
    /\ disturbed' = (disturbed \/ Writers(u) # {})
    /\ UNCHANGED <<table, recent, files>>

\* The file of entry u is deleted and its length, as it was read, given back.
Delete(u, length) ==
    /\ Deletable(u)
    /\ disk' = [disk EXCEPT ![u] = Missing]
    /\ table' = Without(u)
    /\ recent' = recent \ {u}
    /\ files' = files - 1
    /\ bytes' = bytes - length
    /\ disturbed' = (disturbed \/ Writers(u) # {})

\* The fetches after file u was deleted: its writers write to no name.
Unlinked(u) ==
    [w \in Threads |-> IF w \in Writers(u)
                       THEN [fetch[w] EXCEPT !.linked = FALSE] ELSE fetch[w]]

DeleteVictim(t) ==
    /\ fetch[t].pc = "picked"
    /\ Delete(fetch[t].victim, fetch[t].length)
    /\ fetch' = [Unlinked(fetch[t].victim) EXCEPT
                   ![t].pc = "evicting", ![t].victim = NoUrl, ![t].length = 0]
    /\ UNCHANGED <<config, admin, monitor>>

\* Mutant: a file that cannot be deleted does not end the eviction.
RetryVictim(t) ==
    /\ fetch[t].pc = "picked"
    /\ ~Deletable(fetch[t].victim)
    /\ fetch' = [fetch EXCEPT ![t].pc = "evicting", ![t].victim = NoUrl,
                              ![t].length = 0]
    /\ UNCHANGED <<disk, table, recent, accounts, config, admin, monitor,
                   disturbed>>

\* A file that cannot be deleted ends the eviction.
KeepVictim(t) ==
    /\ fetch[t].pc = "picked"
    /\ ~Deletable(fetch[t].victim)
    /\ Return(t)
    /\ UNCHANGED <<disk, table, recent, accounts, config, admin, disturbed>>

\* Mutant: the table is a list, and a URL is put in it once more.
AddTwice(t) ==
    /\ fetch[t].pc = "closed"
    /\ monitor = Free
    /\ table' = Append(table, fetch[t].url)
    /\ recent' = recent \cup {fetch[t].url}
    /\ files' = files + 1
    /\ fetch' = [fetch EXCEPT ![t] = Resting]
    /\ UNCHANGED <<disk, bytes, config, admin, monitor, disturbed>>

\* Cache.AddToTable: the entry is put, or put again, and counted either way.
AddToTable(t) ==
    /\ fetch[t].pc = "closed"
    /\ monitor = Free
    /\ table' = Append(Without(fetch[t].url), fetch[t].url)
    /\ recent' = recent \cup {fetch[t].url}
    /\ files' = files + 1
    /\ fetch' = [fetch EXCEPT ![t] = Resting]
    /\ UNCHANGED <<disk, bytes, config, admin, monitor, disturbed>>

\* The clock moves on.  MakeFreeSpace compares with the time it was called.
Tick ==
    /\ monitor = Free
    /\ recent # {}
    /\ recent' = {}
    /\ UNCHANGED <<disk, table, accounts, config, fetch, admin, monitor,
                   disturbed>>

-----------------------------------------------------------------------------
(* Admin.run: Config.parse, then Cache.clean if the administrator wants it *)

ParseCaching(on) ==
    /\ admin.pc = "ready"
    /\ caching' = on
    /\ admin' = [admin EXCEPT !.pc = "parsing"]
    /\ UNCHANGED <<disk, table, recent, accounts, size, fetch, monitor, disturbed>>

\* The rest of the line; a number that is none keeps the old size and ends the
\* connection.
ParseSize(n, cleanCache) ==
    /\ admin.pc = "parsing"
    /\ size' = n
    /\ admin' = [admin EXCEPT !.pc = IF cleanCache THEN "clean" ELSE "ready"]
    /\ UNCHANGED <<disk, table, recent, accounts, caching, fetch, monitor,
                   disturbed>>

ParseFails ==
    /\ admin.pc = "parsing"
    /\ admin' = [admin EXCEPT !.pc = "ready"]
    /\ UNCHANGED <<disk, table, recent, accounts, config, fetch, monitor,
                   disturbed>>

BeginClean ==
    /\ admin.pc = "clean"
    /\ monitor = Free
    /\ monitor' = Admin
    /\ admin' = [admin EXCEPT !.pc = "sweep", !.sweep = Entries]
    /\ UNCHANGED <<disk, table, recent, accounts, config, fetch, disturbed>>

PickFile ==
    /\ admin.pc = "sweep"
    /\ \E u \in admin.sweep :
         /\ \A v \in admin.sweep : Rank[u] <= Rank[v]
         /\ admin' = [pc |-> "picked", sweep |-> admin.sweep \ {u},
                      victim |-> u, length |-> Length(u)]
    /\ UNCHANGED <<disk, table, recent, accounts, config, fetch, monitor,
                   disturbed>>

DeleteFile ==
    /\ admin.pc = "picked"
    /\ \/ /\ Delete(admin.victim, admin.length)
          /\ fetch' = Unlinked(admin.victim)
       \/ /\ ~Deletable(admin.victim)
          /\ UNCHANGED <<disk, table, recent, accounts, fetch, disturbed>>
    /\ admin' = [admin EXCEPT !.pc = "sweep", !.victim = NoUrl, !.length = 0]
    /\ UNCHANGED <<config, monitor>>

EndClean ==
    /\ admin.pc = "sweep"
    /\ admin.sweep = {}
    /\ monitor' = Free
    /\ admin' = [admin EXCEPT !.pc = "ready"]
    /\ UNCHANGED <<disk, table, recent, accounts, config, fetch, disturbed>>

-----------------------------------------------------------------------------
\* The next step of an eviction or of a clean-up, inside the monitor.
Inside ==
    \/ \E t \in Threads : StopEvicting(t) \/ PickVictim(t) \/ PickNothing(t)
                            \/ DeleteVictim(t) \/ KeepVictim(t)
    \/ PickFile \/ DeleteFile \/ EndClean

Proxy(t) ==
    \/ \E u \in Urls : Decide(t, u)
    \/ \E n \in Blocks : WriteBlock(t, n)
    \/ OpenFile(t) \/ Account(t) \/ CloseFile(t) \/ Abort(t) \/ AddToTable(t)

Administrator ==
    \/ \E on \in BOOLEAN : ParseCaching(on)
    \/ \E n \in Sizes, cleanCache \in BOOLEAN : ParseSize(n, cleanCache)
    \/ ParseFails \/ BeginClean

Next == Inside \/ Administrator \/ Tick \/ \E t \in Threads : Proxy(t)

Spec == Init /\ [][Next]_vars

\* A thread inside the monitor keeps running: nothing there waits for another
\* thread or for the network.
FairSpec == Spec /\ WF_vars(Inside)

-----------------------------------------------------------------------------
(* What must be true of the cache *)

TypeOK ==
    /\ disk \in [Urls -> Nat \cup {Missing}]
    /\ table \in Seq(Urls) /\ Cardinality(Entries) = Len(table)
    /\ recent \subseteq Entries
    /\ files \in Nat /\ bytes \in Int
    /\ caching \in BOOLEAN /\ size \in Sizes
    /\ fetch \in [Threads -> Fetches]
    /\ admin \in Admins
    /\ monitor \in Threads \cup {Admin, Free}
    /\ disturbed \in BOOLEAN

Pending == SumFunction([t \in Threads |-> fetch[t].pending])
OnDisk == SumFunction([u \in Urls |-> Length(u)])

\* Whatever is refetched, aborted, evicted or cleaned at whatever moment, the
\* bytes accounted for, with those about to be, cover the files on disk: the
\* cache can run out of its own space too early, never of the disk's.
NeverUndercounts == bytes + Pending >= OnDisk

\* As long as no file was written by two fetches, and none was deleted under
\* its writer, the counters shown to the administrator are exact (an aborted
\* fetch leaves its bytes on the disk and in the count).
AccountingExact ==
    ~disturbed => bytes + Pending = OnDisk /\ files = Len(table)

\* And every entry has its file, so that evicting it gives space back.
EntriesHaveFiles ==
    ~disturbed => \A u \in Entries : disk[u] # Missing

\* An eviction and a clean-up end, and let the other fetches go on, even when
\* files cannot be deleted and the configured size is below MinFreeSpace.
MonitorReleased == monitor # Free ~> monitor = Free

\* "throw LRU file until free space is above min level": the victim is the
\* entry with the oldest date.
EvictsOldest ==
    \A t \in Threads : fetch[t].pc = "picked" => fetch[t].victim = Head(table)
=============================================================================
