----------------------------- MODULE ChartReport -----------------------------
(***************************************************************************)
(* Requests for charts that go through a CSV file.  The servlet calls a    *)
(* generator of DataDao, which truncates the file, writes it through a     *)
(* buffer, and returns its name, also after an exception, when the buffer  *)
(* is neither flushed nor closed.  The servlet then opens the file and     *)
(* copies it to the browser.  Nothing keeps two requests from using one    *)
(* file at a time.                                                         *)
(*                                                                         *)
(* A file is a sequence of blocks of the size of the writer's buffer.  A   *)
(* block is identified by the report it is from and its place there.       *)
(***************************************************************************)
EXTENDS Naturals, Sequences, FiniteSets, Charts

CONSTANTS
    Sessions,   \* server threads
    Values,     \* values of request parameters
    Requests,   \* what browsers ask for: a chart and its parameters
    MaxBlocks,  \* bound on the length of a report
    MaxAsked,   \* bound on the number of requests
    Hole        \* a block that was never written, zeros on the disk

VARIABLES
    file,       \* the files by name; one that does not exist is empty here
    sess,       \* the request of each thread
    asked,      \* number of requests so far
    alone       \* history: threads nobody interfered with since they opened
                \* their file

vars == <<file, sess, asked, alone>>

ASSUME ChartReportAssumption ==
    /\ Requests \subseteq [chart : AllCharts, args : [Params -> Values]]
    /\ Requests # {}
    /\ MaxBlocks \in Nat \ {0}
    /\ MaxAsked \in Nat

-----------------------------------------------------------------------------
FileOf(r) == [stem |-> r.chart.stem,
              values |-> [p \in r.chart.named |-> r.args[p]]]

ReportOf(r) == [report |-> r.chart.report,
                values |-> [p \in r.chart.read |-> r.args[p]]]

Block(r, i) == [of |-> ReportOf(r), at |-> i]

Blocks == {Block(r, i) : r \in Requests, i \in 1..MaxBlocks} \cup {Hole}

ASSUME HoleAssumption ==
    \A r \in Requests, i \in 1..MaxBlocks : Hole # Block(r, i)

\* length is the number of blocks the queries return rows for, written the
\* number of blocks that have left the buffer, got what the browser received.
Threads == [pc : {"idle", "naming", "writing", "reading", "answered"},
            req : Requests, length : 1..MaxBlocks, written : 0..MaxBlocks,
            got : Seq(Blocks), opened : BOOLEAN, failed : BOOLEAN]

\* A thread at point pc of request r, before anything else is known.
Thread(pc, r) == [pc |-> pc, req |-> r, length |-> 1, written |-> 0,
                  got |-> << >>, opened |-> FALSE, failed |-> FALSE]

\* Other threads between opening the file of s and sending all of it.
Sharing(s) ==
    {t \in Sessions \ {s} : /\ sess[t].pc \in {"writing", "reading"}
                            /\ FileOf(sess[t].req) = FileOf(sess[s].req)}

\* Writing block c behind the first n: a file shorter than n grows a hole.
Put(f, n, c) ==
    [i \in 1..(IF n < Len(f) THEN Len(f) ELSE n + 1) |->
        IF i = n + 1 THEN c ELSE IF i <= Len(f) THEN f[i] ELSE Hole]

-----------------------------------------------------------------------------
Init ==
    /\ file = [f \in {FileOf(r) : r \in Requests} |-> << >>]
    /\ sess = [s \in Sessions |-> Thread("idle", CHOOSE r \in Requests : TRUE)]
    /\ asked = 0
    /\ alone = {}

Ask(s, r) ==
    /\ sess[s].pc \in {"idle", "answered"}
    /\ asked < MaxAsked
    /\ asked' = asked + 1
    /\ sess' = [sess EXCEPT ![s] = Thread("naming", r)]
    /\ alone' = alone \ {s}
    /\ UNCHANGED file

\* The date cannot be parsed and the name stays without its end: there is no
\* such file, and the answer is empty.
NameFails(s) ==
    /\ sess[s].pc = "naming"
    /\ sess[s].req.chart.dated
    /\ sess' = [sess EXCEPT ![s].pc = "answered", ![s].failed = TRUE]
    /\ UNCHANGED <<file, asked, alone>>

\* The file cannot be opened, or a query before that fails: what is in the
\* file of that name is sent.
OpenFails(s) ==
    /\ sess[s].pc = "naming"
    /\ sess' = [sess EXCEPT ![s].pc = "reading", ![s].failed = TRUE]
    /\ UNCHANGED <<file, asked, alone>>

\* Mutant: rows are appended to what is there.
OpenToAppend(s) ==
    /\ sess[s].pc = "naming"
    /\ \E n \in 1..MaxBlocks :
         sess' = [sess EXCEPT ![s].pc = "writing", ![s].length = n,
                              ![s].opened = TRUE]
    /\ alone' = (alone \ Sharing(s)) \cup {s}
    /\ UNCHANGED <<file, asked>>

\* new FileWriter truncates the file, whoever is writing or reading it.
OpenFile(s) ==
    /\ sess[s].pc = "naming"
    /\ \E n \in 1..MaxBlocks :
         sess' = [sess EXCEPT ![s].pc = "writing", ![s].length = n,
                              ![s].opened = TRUE]
    /\ file' = [file EXCEPT ![FileOf(sess[s].req)] = << >>]
    /\ alone' = (alone \ Sharing(s)) \cup {s}
    /\ UNCHANGED asked

\* Mutant: the end of the report is noticed a block late.
WriteBlockLate(s) ==
    /\ sess[s].pc = "writing"
    /\ LET n == sess[s].written
           f == FileOf(sess[s].req)
       IN  /\ file' = [file EXCEPT ![f] = Put(@, n, Block(sess[s].req, n + 1))]
           /\ sess' = [sess EXCEPT ![s].written = n + 1,
                                   ![s].pc = IF n = sess[s].length
                                             THEN "reading" ELSE "writing"]
    /\ alone' = alone \ Sharing(s)
    /\ UNCHANGED asked

\* The buffer is full, or flushed by close(): its block goes where this writer
\* is in the file.
WriteBlock(s) ==
    /\ sess[s].pc = "writing"
    /\ LET n == sess[s].written
           f == FileOf(sess[s].req)
       IN  /\ file' = [file EXCEPT ![f] = Put(@, n, Block(sess[s].req, n + 1))]
           /\ sess' = [sess EXCEPT ![s].written = n + 1,
                                   ![s].pc = IF n + 1 = sess[s].length
                                             THEN "reading" ELSE "writing"]
    /\ alone' = alone \ Sharing(s)
    /\ UNCHANGED asked

\* An exception, a null column for one: what is in the buffer is lost.
FailWriting(s) ==
    /\ sess[s].pc = "writing"
    /\ sess' = [sess EXCEPT ![s].pc = "reading", ![s].failed = TRUE]
    /\ UNCHANGED <<file, asked, alone>>

\* Mutant: the first block is sent over and over.
ReadFirstBlock(s) ==
    /\ sess[s].pc = "reading"
    /\ LET f == file[FileOf(sess[s].req)]
       IN  /\ Len(f) > 0
           /\ sess' = [sess EXCEPT ![s].got = <<f[1]>>]
    /\ UNCHANGED <<file, asked, alone>>

\* The servlet copies the next block.
ReadBlock(s) ==
    /\ sess[s].pc = "reading"
    /\ LET k == Len(sess[s].got)
           f == file[FileOf(sess[s].req)]
       IN  /\ k < Len(f)
           /\ sess' = [sess EXCEPT ![s].got = Append(@, f[k + 1])]
    /\ UNCHANGED <<file, asked, alone>>

EndOfFile(s) ==
    /\ sess[s].pc = "reading"
    /\ Len(sess[s].got) >= Len(file[FileOf(sess[s].req)])
    /\ sess' = [sess EXCEPT ![s].pc = "answered"]
    /\ UNCHANGED <<file, asked, alone>>

Continue(s) ==
    \/ NameFails(s) \/ OpenFails(s) \/ OpenFile(s)
    \/ WriteBlock(s) \/ FailWriting(s)
    \/ ReadBlock(s) \/ EndOfFile(s)

Next == \E s \in Sessions : Continue(s) \/ \E r \in Requests : Ask(s, r)

Spec == Init /\ [][Next]_vars

\* The server runs every thread on; browsers need not ask.
FairSpec == Spec /\ \A s \in Sessions : WF_vars(Continue(s))

-----------------------------------------------------------------------------
(* What must be true of the answers *)

TypeOK ==
    /\ file \in [{FileOf(r) : r \in Requests} -> Seq(Blocks)]
    /\ sess \in [Sessions -> Threads]
    /\ asked \in 0..MaxAsked
    /\ alone \subseteq Sessions

\* A request that had its file for itself gets its own rows in their order:
\* all of them, or after an exception the ones that were written.
AloneIsExact ==
    \A s \in alone : sess[s].pc = "answered" =>
        LET me == sess[s] IN
        /\ \A i \in DOMAIN me.got : me.got[i] = Block(me.req, i)
        /\ IF me.failed THEN Len(me.got) < me.length
                        ELSE Len(me.got) = me.length

\* Charts with all their parameters in the file's name never show rows of
\* another request, whatever other requests do and however they fail.
FullyNamedIsOwn ==
    \A s \in Sessions : sess[s].req.chart \in {ATMMovementRawData, OptionOI} =>
        \A i \in DOMAIN sess[s].got :
            \/ sess[s].got[i] = Hole
            \/ sess[s].got[i].of = ReportOf(sess[s].req)

\* No chart ever shows rows of another index, instrument, scrip or option than
\* the one asked for, though some may show another day's.
SubjectIsRight ==
    \A s \in Sessions : \A i \in DOMAIN sess[s].got :
        \/ sess[s].got[i] = Hole
        \/ \A p \in Subjects \cap sess[s].req.chart.read :
             /\ p \in DOMAIN sess[s].got[i].of.values
             /\ sess[s].got[i].of.values[p] = sess[s].req.args[p]

\* Every request is answered, even while others keep the file growing.
EveryRequestAnswered ==
    \A s \in Sessions : sess[s].pc # "idle" ~> sess[s].pc = "answered"
=============================================================================
