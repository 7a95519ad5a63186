---------------------------- MODULE ReportProofs ----------------------------
(***************************************************************************)
(* Proofs about the CSV reports.                                           *)
(*                                                                         *)
(* ChartReport: whose rows a chart can show, for any numbers of threads,   *)
(* requests and blocks.  What is in a file was put there by a request for  *)
(* a file of that name (Kept), and the name tells enough about the request *)
(* (SameFileSameSubject, SameFileSameReport).  The inductive invariant is  *)
(* IInv.                                                                   *)
(*                                                                         *)
(* OptionPnL: the rows of one report, for any day, any prices and any      *)
(* algorithms.  An order is not lost on the way from running to exited,    *)
(* and a total is the sum over the orders of the day.  The inductive       *)
(* invariant is OInv.                                                      *)
(***************************************************************************)
EXTENDS ChartReport, OptionPnL, SumProofs, SequenceTheorems, TLAPS

-----------------------------------------------------------------------------
(* Whose rows a chart shows: the invariant *)

\* A block that a request for file f has written, or a hole.
From(f, b) ==
    \/ b = Hole
    \/ \E r \in Requests : FileOf(r) = f /\ b.of = ReportOf(r)

FilesKept ==
    \A r \in Requests : \A i \in DOMAIN file[FileOf(r)] :
        From(FileOf(r), file[FileOf(r)][i])

AnswersKept ==
    \A s \in Sessions : \A i \in DOMAIN sess[s].got :
        From(FileOf(sess[s].req), sess[s].got[i])

Kept == FilesKept /\ AnswersKept

\* How far a thread has written.
Progress ==
    \A s \in Sessions :
        /\ sess[s].pc = "naming" => /\ sess[s].written = 0 /\ ~sess[s].failed
                                    /\ sess[s].got = << >>
        /\ sess[s].pc = "writing" => /\ sess[s].written < sess[s].length
                                     /\ sess[s].got = << >>

\* q is the first n blocks of the report of r.
Starts(r, q, n) == Len(q) = n /\ \A i \in 1..n : q[i] = Block(r, i)

\* What there is to send of a request: all, or less after an exception.
Ends(me) == IF me.failed THEN me.written < me.length
                         ELSE me.written = me.length

\* A thread nobody interferes with finds in its file what it has written, and
\* has sent the beginning of it.
Undisturbed(me, f) ==
    \/ me.pc = "writing" /\ ~me.failed /\ Starts(me.req, f, me.written)
    \/ /\ me.pc = "reading" /\ Ends(me) /\ Starts(me.req, f, me.written)
       /\ Len(me.got) <= me.written /\ Starts(me.req, me.got, Len(me.got))
    \/ me.pc = "answered" /\ Ends(me) /\ Starts(me.req, me.got, me.written)

Exact == \A s \in alone : Undisturbed(sess[s], file[FileOf(sess[s].req)])

IInv == TypeOK /\ Progress /\ Kept /\ Exact

-----------------------------------------------------------------------------
(* The table of charts *)

\* A chart's subject is in the name of its file.
LEMMA SubjectsNamed ==
  ASSUME NEW c \in AllCharts
  PROVE  /\ Subjects \cap c.read \subseteq c.named
         /\ Subjects \cap c.named \subseteq c.read
BY DEF AllCharts, Chart, Subjects, OISpike, PremiumDecay, DOMSummary,
       CePeIVRatio, TimeValue, VegaValue, ATMMovement, ATMMovementRawData,
       GreeksMovement, GreeksPerMinute, PandLOfOrder, Greeks, Spike,
       PriceDisparity, MaxOIWorth, OptimalStrike, GreeksRateOfChange,
       OIDiscrepancy, PriceRateOfChange, OIRateOfChange, TrendDeciding, OptionOI

\* Two charts name all they read, and no other chart's file begins like theirs.
LEMMA NamedApart ==
  ASSUME NEW c \in AllCharts, NEW d \in {ATMMovementRawData, OptionOI},
         c.stem = d.stem
  PROVE  c = d /\ d.read \subseteq d.named
<1>1. d.read \subseteq d.named
  BY DEF ATMMovementRawData, OptionOI, Chart
<1>2. \A x \in AllCharts \ {ATMMovementRawData, OptionOI} :
        x.stem \notin {"OptionATMMovementRawDataAnalysis", "OI"}
  BY DEF AllCharts, Chart, OISpike, PremiumDecay, DOMSummary,
         CePeIVRatio, TimeValue, VegaValue, ATMMovement,
         GreeksMovement, GreeksPerMinute, PandLOfOrder, Greeks, Spike,
         PriceDisparity, MaxOIWorth, OptimalStrike, GreeksRateOfChange,
         OIDiscrepancy, PriceRateOfChange, OIRateOfChange, TrendDeciding
<1>3. /\ ATMMovementRawData.stem = "OptionATMMovementRawDataAnalysis"
      /\ OptionOI.stem = "OI"
  BY DEF ATMMovementRawData, OptionOI, Chart
<1>4. c \in {ATMMovementRawData, OptionOI}
  BY <1>2, <1>3
<1> QED BY <1>1, <1>3, <1>4

\* Requests for one file agree on the parameters in its name.
LEMMA SameFile ==
  ASSUME NEW r \in Requests, NEW q \in Requests, FileOf(r) = FileOf(q)
  PROVE  /\ r.chart.stem = q.chart.stem
         /\ r.chart.named = q.chart.named
         /\ \A p \in q.chart.named : r.args[p] = q.args[p]
<1> DEFINE given(x) == [p \in x.chart.named |-> x.args[p]]
<1>1. r.chart.stem = q.chart.stem /\ given(r) = given(q)
  BY DEF FileOf
<1>2. DOMAIN given(r) = DOMAIN given(q)
  BY <1>1
<1>3. r.chart.named = q.chart.named
  BY <1>2
<1>4. \A p \in q.chart.named : given(r)[p] = r.args[p] /\ given(q)[p] = q.args[p]
  BY <1>3
<1> QED BY <1>1, <1>3, <1>4

\* Requests for one file are about the same subject.
LEMMA SameFileSameSubject ==
  ASSUME NEW r \in Requests, NEW q \in Requests, FileOf(r) = FileOf(q),
         NEW p \in Subjects \cap q.chart.read
  PROVE  /\ p \in DOMAIN ReportOf(r).values
         /\ ReportOf(r).values[p] = q.args[p]
<1>1. r.chart \in AllCharts /\ q.chart \in AllCharts
  BY ChartReportAssumption
<1>2. p \in q.chart.named
  BY <1>1, SubjectsNamed
<1>3. p \in r.chart.named /\ r.args[p] = q.args[p]
  BY <1>2, SameFile
<1>4. p \in r.chart.read
  BY <1>1, <1>3, SubjectsNamed
<1> QED BY <1>3, <1>4 DEF ReportOf

\* Requests for one file of a fully named chart are for the same report.
LEMMA SameFileSameReport ==
  ASSUME NEW r \in Requests, NEW q \in Requests, FileOf(r) = FileOf(q),
         q.chart \in {ATMMovementRawData, OptionOI}
  PROVE  ReportOf(r) = ReportOf(q)
<1>1. r.chart = q.chart /\ q.chart.read \subseteq q.chart.named
  BY SameFile, NamedApart, ChartReportAssumption
<1>2. \A p \in q.chart.read : r.args[p] = q.args[p]
  BY <1>1, SameFile
<1> QED BY <1>1, <1>2 DEF ReportOf

-----------------------------------------------------------------------------
(* Files *)

\* Writing a block keeps a file a sequence of blocks: the old ones, the new
\* one, and holes.
LEMMA PutProperties ==
  ASSUME NEW f \in Seq(Blocks), NEW n \in Nat, NEW c \in Blocks
  PROVE  /\ Put(f, n, c) \in Seq(Blocks)
         /\ n + 1 \in DOMAIN Put(f, n, c)
         /\ Put(f, n, c)[n + 1] = c
         /\ \A i \in DOMAIN Put(f, n, c) :
              \/ i = n + 1
              \/ i \in DOMAIN f /\ Put(f, n, c)[i] = f[i]
              \/ Put(f, n, c)[i] = Hole
<1> DEFINE m == IF n < Len(f) THEN Len(f) ELSE n + 1
           g == [i \in 1..m |->
                   IF i = n + 1 THEN c ELSE IF i <= Len(f) THEN f[i] ELSE Hole]
<1>1. m \in Nat /\ n + 1 \in 1..m
  BY LenProperties
<1>2. Put(f, n, c) = g
  BY DEF Put
<1>3. Hole \in Blocks
  BY DEF Blocks
<1>4. DOMAIN f = 1..Len(f) /\ Len(f) \in Nat /\ \A i \in 1..Len(f) : f[i] \in Blocks
  BY LenProperties, ElementOfSeq
<1>5. g \in [1..m -> Blocks]
  BY <1>3, <1>4
<1>6. g \in Seq(Blocks)
  BY <1>1, <1>5, SeqDef
<1>7. \A i \in 1..m : \/ i = n + 1
                      \/ i \in DOMAIN f /\ g[i] = f[i]
                      \/ g[i] = Hole
  BY <1>4
<1> HIDE DEF g, m
<1>8. DOMAIN g = 1..m /\ g[n + 1] = c
  BY <1>1 DEF g
<1> QED BY <1>1, <1>2, <1>6, <1>7, <1>8

-----------------------------------------------------------------------------
(* The invariant is inductive *)

LEMMA InitInv == Init => IInv
<1> SUFFICES ASSUME Init PROVE IInv
  OBVIOUS
<1>1. PICK r \in Requests : sess = [s \in Sessions |-> Thread("idle", r)]
  BY ChartReportAssumption DEF Init
<1>2. << >> \in Seq(Blocks)
  BY EmptySeq
<1>3. Thread("idle", r) \in Threads
  BY <1>2, ChartReportAssumption DEF Thread, Threads
<1>4. \A r1 \in Requests : file[FileOf(r1)] = << >>
  BY DEF Init
<1>5. TypeOK
  BY <1>1, <1>2, <1>3, ChartReportAssumption DEF Init, TypeOK
<1>6. \A s \in Sessions : sess[s].got = << >> /\ sess[s].pc = "idle"
  BY <1>1 DEF Thread
<1>7. Progress /\ Kept
  BY <1>4, <1>6 DEF Progress, Kept, FilesKept, AnswersKept
<1>8. Exact
  BY DEF Init, Exact
<1> QED BY <1>5, <1>7, <1>8 DEF IInv

\* A received request.
LEMMA NamingThread ==
  ASSUME NEW r \in Requests
  PROVE  Thread("naming", r) \in Threads
BY EmptySeq, ChartReportAssumption DEF Thread, Threads

\* Every step keeps the types and the order of writing.
LEMMA TypeStep ==
  IInv /\ [Next]_vars => TypeOK' /\ Progress'
<1> SUFFICES ASSUME IInv, [Next]_vars PROVE TypeOK' /\ Progress'
  OBVIOUS
<1> USE DEF IInv, TypeOK
<1>1. CASE UNCHANGED vars
  BY <1>1 DEF vars, Progress
<1>2. ASSUME NEW s \in Sessions, NEW r \in Requests, Ask(s, r)
      PROVE  TypeOK' /\ Progress'
  <2>1. asked' \in 0..MaxAsked
    BY <1>2, ChartReportAssumption DEF Ask
  <2>2. sess' \in [Sessions -> Threads]
    BY <1>2, NamingThread DEF Ask
  <2>3. Progress'
    BY <1>2 DEF Ask, Progress, Thread
  <2> QED BY <1>2, <2>1, <2>2, <2>3 DEF Ask
<1>3. ASSUME NEW s \in Sessions, Continue(s)
      PROVE  TypeOK' /\ Progress'
  <2>0. sess[s] \in Threads
    OBVIOUS
  <2>1. CASE NameFails(s)
    BY <2>0, <2>1 DEF NameFails, Progress, Threads
  <2>2. CASE OpenFails(s)
    BY <2>0, <2>2 DEF OpenFails, Progress, Threads
  <2>3. CASE OpenFile(s)
    <3>1. << >> \in Seq(Blocks)
      BY EmptySeq
    <3>2. PICK n \in 1..MaxBlocks :
             sess' = [sess EXCEPT ![s].pc = "writing", ![s].length = n,
                                  ![s].opened = TRUE]
      BY <2>3 DEF OpenFile
    <3>3. sess' \in [Sessions -> Threads]
      BY <2>0, <3>2 DEF Threads
    <3>4. Progress'
      BY <2>0, <2>3, <3>2 DEF OpenFile, Progress, Threads
    <3>5. /\ file' \in [{FileOf(r) : r \in Requests} -> Seq(Blocks)]
          /\ alone' \subseteq Sessions /\ asked' \in 0..MaxAsked
      BY <2>3, <3>1 DEF OpenFile
    <3> QED BY <3>3, <3>4, <3>5
  <2>4. CASE WriteBlock(s)
    <3> DEFINE n == sess[s].written
               f == FileOf(sess[s].req)
               b == Block(sess[s].req, n + 1)
    <3>1. /\ n \in 0..MaxBlocks /\ n < sess[s].length
          /\ sess[s].length \in 1..MaxBlocks /\ sess[s].req \in Requests
          /\ sess[s].got = << >> /\ MaxBlocks \in Nat
      BY <2>0, <2>4, ChartReportAssumption DEF WriteBlock, Progress, Threads
    <3>2. b \in Blocks
      BY <3>1 DEF Blocks
    <3>3. file[f] \in Seq(Blocks)
      BY <3>1
    <3>4. Put(file[f], n, b) \in Seq(Blocks)
      <4>1. n \in Nat
        BY <3>1
      <4> HIDE DEF n, f, b
      <4> QED BY <3>2, <3>3, <4>1, PutProperties
    <3>5. file' \in [{FileOf(r) : r \in Requests} -> Seq(Blocks)]
      BY <2>4, <3>4 DEF WriteBlock
    <3>6. n + 1 \in 0..MaxBlocks /\ (n + 1 # sess[s].length => n + 1 < sess[s].length)
      BY <3>1
    <3>7. sess' = [sess EXCEPT ![s].written = n + 1,
                               ![s].pc = IF n + 1 = sess[s].length
                                         THEN "reading" ELSE "writing"]
      BY <2>4 DEF WriteBlock
    <3>8. sess' \in [Sessions -> Threads]
      BY <2>0, <3>6, <3>7 DEF Threads
    <3>9. Progress'
      BY <2>0, <3>1, <3>6, <3>7 DEF Progress, Threads
    <3> QED BY <2>4, <3>5, <3>8, <3>9 DEF WriteBlock
  <2>5. CASE FailWriting(s)
    BY <2>0, <2>5 DEF FailWriting, Progress, Threads
  <2>6. CASE ReadBlock(s)
    <3> DEFINE f == file[FileOf(sess[s].req)]
               k == Len(sess[s].got)
    <3>1. sess[s].got \in Seq(Blocks) /\ f \in Seq(Blocks)
      BY <2>0 DEF Threads
    <3>2. k + 1 \in 1..Len(f)
      BY <2>6, <3>1, LenProperties DEF ReadBlock
    <3>3. Append(sess[s].got, f[k + 1]) \in Seq(Blocks)
      BY <3>1, <3>2, ElementOfSeq, AppendProperties
    <3>4. sess' = [sess EXCEPT ![s].got = Append(@, f[k + 1])]
      BY <2>6 DEF ReadBlock
    <3>5. sess' \in [Sessions -> Threads]
      BY <2>0, <3>3, <3>4 DEF Threads
    <3> QED BY <2>6, <3>4, <3>5 DEF ReadBlock, Progress
  <2>7. CASE EndOfFile(s)
    BY <2>0, <2>7 DEF EndOfFile, Progress, Threads
  <2> QED BY <1>3, <2>1, <2>2, <2>3, <2>4, <2>5, <2>6, <2>7 DEF Continue
<1> QED BY <1>1, <1>2, <1>3 DEF Next

\* Every step keeps files and answers to what requests for the file wrote.
LEMMA KeptStep ==
  IInv /\ [Next]_vars => Kept'
<1> SUFFICES ASSUME IInv, [Next]_vars PROVE Kept'
  OBVIOUS
<1> USE DEF IInv, TypeOK, Kept
<1>1. CASE UNCHANGED vars
  BY <1>1 DEF vars, FilesKept, AnswersKept
<1>2. ASSUME NEW s \in Sessions, NEW r \in Requests, Ask(s, r)
      PROVE  Kept'
  BY <1>2 DEF Ask, Thread, FilesKept, AnswersKept
<1>3. ASSUME NEW s \in Sessions, Continue(s)
      PROVE  Kept'
  <2>0. sess[s] \in Threads
    OBVIOUS
  <2>1. CASE NameFails(s)
    BY <2>0, <2>1 DEF NameFails, FilesKept, AnswersKept, Threads
  <2>2. CASE OpenFails(s)
    BY <2>0, <2>2 DEF OpenFails, FilesKept, AnswersKept, Threads
  <2>3. CASE OpenFile(s)
    <3>1. AnswersKept'
      <4>1. PICK n \in 1..MaxBlocks :
               sess' = [sess EXCEPT ![s].pc = "writing", ![s].length = n,
                                    ![s].opened = TRUE]
        BY <2>3 DEF OpenFile
      <4>2. \A u \in Sessions : /\ sess'[u].got = sess[u].got
                                /\ sess'[u].req = sess[u].req
        BY <2>0, <4>1 DEF Threads
      <4> QED BY <4>2 DEF AnswersKept
    <3>2. FilesKept'
      BY <2>3 DEF OpenFile, FilesKept
    <3> QED BY <3>1, <3>2
  <2>4. CASE WriteBlock(s)
    <3> DEFINE n == sess[s].written
               f == FileOf(sess[s].req)
               b == Block(sess[s].req, n + 1)
    <3>1. /\ n \in Nat /\ n + 1 \in 1..MaxBlocks /\ sess[s].req \in Requests
          /\ file[f] \in Seq(Blocks)
      BY <2>0, <2>4, ChartReportAssumption DEF WriteBlock, Progress, Threads
    <3>2. b \in Blocks /\ b.of = ReportOf(sess[s].req)
      BY <3>1 DEF Blocks, Block
    <3>3. \A u \in Sessions : /\ sess'[u].got = sess[u].got
                              /\ sess'[u].req = sess[u].req
      BY <2>0, <2>4 DEF WriteBlock, Threads
    <3>4. AnswersKept'
      BY <3>3 DEF AnswersKept
    <3>5. file' = [file EXCEPT ![f] = Put(file[f], n, b)]
      BY <2>4 DEF WriteBlock
    <3>6. From(f, b)
      BY <3>1, <3>2 DEF From
    <3>7. \A i \in DOMAIN file[f] : From(f, file[f][i])
      BY <3>1 DEF FilesKept
    <3> HIDE DEF n, f, b
    <3>8. \A i \in DOMAIN Put(file[f], n, b) : From(f, Put(file[f], n, b)[i])
      <4>1. From(f, Hole)
        BY DEF From
      <4>2. /\ Put(file[f], n, b)[n + 1] = b
            /\ \A i \in DOMAIN Put(file[f], n, b) :
                 \/ i = n + 1
                 \/ i \in DOMAIN file[f] /\ Put(file[f], n, b)[i] = file[f][i]
                 \/ Put(file[f], n, b)[i] = Hole
        BY ONLY <3>1, <3>2, PutProperties
      <4>3. TAKE i \in DOMAIN Put(file[f], n, b)
      <4>4. CASE i = n + 1
        BY <3>6, <4>2, <4>4
      <4>5. CASE i \in DOMAIN file[f] /\ Put(file[f], n, b)[i] = file[f][i]
        BY <3>7, <4>5
      <4>6. CASE Put(file[f], n, b)[i] = Hole
        BY <4>1, <4>6
      <4> QED BY <4>2, <4>4, <4>5, <4>6
    <3>9. FilesKept'
      BY <3>5, <3>8 DEF FilesKept
    <3> QED BY <3>4, <3>9
  <2>5. CASE FailWriting(s)
    BY <2>0, <2>5 DEF FailWriting, FilesKept, AnswersKept, Threads
  <2>6. CASE ReadBlock(s)
    <3> DEFINE f == FileOf(sess[s].req)
               got == sess[s].got
               k == Len(got)
    <3>1. got \in Seq(Blocks) /\ file[f] \in Seq(Blocks) /\ sess[s].req \in Requests
      BY <2>0 DEF Threads
    <3>2. k \in Nat /\ k + 1 \in DOMAIN file[f] /\ file[f][k + 1] \in Blocks
      BY <2>6, <3>1, LenProperties, ElementOfSeq DEF ReadBlock
    <3>3. sess' = [sess EXCEPT ![s].got = Append(got, file[f][k + 1])]
          /\ UNCHANGED file
      BY <2>6 DEF ReadBlock
    <3>4. From(f, file[f][k + 1])
      BY <3>1, <3>2 DEF FilesKept
    <3>5. \A i \in DOMAIN got : From(f, got[i])
      BY DEF AnswersKept
    <3>6. DOMAIN got = 1..k
      BY <3>1, LenProperties
    <3>7. \A i \in DOMAIN Append(got, file[f][k + 1]) :
            From(f, Append(got, file[f][k + 1])[i])
      <4>1. DOMAIN Append(got, file[f][k + 1]) = 1..(k + 1)
        BY <3>1, <3>2, AppendProperties, LenProperties
      <4> QED BY <3>1, <3>2, <3>4, <3>5, <3>6, <4>1, AppendProperties
    <3>8. /\ sess'[s].got = Append(got, file[f][k + 1])
          /\ \A u \in Sessions : sess'[u].req = sess[u].req
          /\ \A u \in Sessions \ {s} : sess'[u].got = sess[u].got
      BY <2>0, <3>3 DEF Threads
    <3>9. AnswersKept'
      BY <3>7, <3>8 DEF AnswersKept
    <3> QED BY <3>3, <3>9 DEF FilesKept
  <2>7. CASE EndOfFile(s)
    BY <2>0, <2>7 DEF EndOfFile, FilesKept, AnswersKept, Threads
  <2> QED BY <1>3, <2>1, <2>2, <2>3, <2>4, <2>5, <2>6, <2>7 DEF Continue
<1> QED BY <1>1, <1>2, <1>3 DEF Next

\* A step of another thread leaves an undisturbed one undisturbed.
LEMMA OthersStep ==
  ASSUME IInv, NEW u \in Sessions, NEW s \in alone', s # u,
         Continue(u) \/ \E r \in Requests : Ask(u, r)
  PROVE  Undisturbed(sess[s], file[FileOf(sess[s].req)])'
<1>1. s \in alone /\ s \in Sessions /\ sess'[s] = sess[s]
  BY DEF IInv, TypeOK, Ask, Continue, NameFails, OpenFails, OpenFile, WriteBlock,
         FailWriting, ReadBlock, EndOfFile
<1>2. Undisturbed(sess[s], file[FileOf(sess[s].req)])
  BY <1>1 DEF IInv, Exact
<1>3. CASE sess[s].pc = "answered"
  BY <1>1, <1>2, <1>3 DEF Undisturbed
<1>4. CASE sess[s].pc # "answered"
  <2>1. sess[s].pc \in {"writing", "reading"}
    BY <1>2, <1>4 DEF Undisturbed
  <2>2. CASE OpenFile(u) \/ WriteBlock(u)
    <3>1. s \notin Sharing(u)
      BY <2>2 DEF OpenFile, WriteBlock
    <3>2. FileOf(sess[s].req) # FileOf(sess[u].req)
      BY <1>1, <2>1, <3>1 DEF Sharing
    <3>3. PICK q : file' = [file EXCEPT ![FileOf(sess[u].req)] = q]
      BY <2>2 DEF OpenFile, WriteBlock
    <3>4. FileOf(sess[s].req) \in DOMAIN file
      BY <1>1 DEF IInv, TypeOK, Threads
    <3>5. file'[FileOf(sess[s].req)] = file[FileOf(sess[s].req)]
      BY <3>2, <3>3, <3>4
    <3> QED BY <1>1, <1>2, <3>5
  <2>3. CASE ~(OpenFile(u) \/ WriteBlock(u))
    <3>1. UNCHANGED file
      BY <2>3 DEF Ask, Continue, NameFails, OpenFails, FailWriting, ReadBlock, EndOfFile
    <3> QED BY <1>1, <1>2, <3>1
  <2> QED BY <2>2, <2>3
<1> QED BY <1>3, <1>4

\* Writing at the end of a file adds the next block.
LEMMA PutAtEnd ==
  ASSUME NEW r, NEW q \in Seq(Blocks), NEW n \in Nat, Starts(r, q, n)
  PROVE  Starts(r, Put(q, n, Block(r, n + 1)), n + 1)
<1> DEFINE g == [i \in 1..(n + 1) |->
                   IF i = n + 1 THEN Block(r, n + 1)
                   ELSE IF i <= Len(q) THEN q[i] ELSE Hole]
<1>1. Len(q) = n /\ \A i \in 1..n : q[i] = Block(r, i)
  BY DEF Starts
<1>2. Put(q, n, Block(r, n + 1)) = g
  BY <1>1 DEF Put
<1>3. \A i \in 1..(n + 1) : g[i] = Block(r, i)
  BY <1>1
<1>4. Len(g) = n + 1
  OBVIOUS
<1> QED BY <1>2, <1>3, <1>4 DEF Starts

\* A thread's own step leaves it undisturbed.
LEMMA OwnStep ==
  ASSUME IInv, NEW s \in Sessions, s \in alone', Continue(s)
  PROVE  Undisturbed(sess[s], file[FileOf(sess[s].req)])'
<1> DEFINE f == FileOf(sess[s].req)
<1>0. /\ sess[s] \in Threads /\ file[f] \in Seq(Blocks)
      /\ sess \in [Sessions -> Threads]
      /\ file \in [{FileOf(r) : r \in Requests} -> Seq(Blocks)]
      /\ f \in {FileOf(r) : r \in Requests}
      /\ s \in alone => Undisturbed(sess[s], file[f])
  BY DEF IInv, TypeOK, Exact, Threads
<1>1. CASE NameFails(s) \/ OpenFails(s)
  BY <1>0, <1>1 DEF NameFails, OpenFails, Undisturbed
<1>2. CASE OpenFile(s)
  <2>1. sess[s].pc = "naming" /\ sess[s].written = 0
    BY <1>2 DEF OpenFile, IInv, Progress
  <2>2. /\ sess'[s].req = sess[s].req /\ sess'[s].written = 0
        /\ sess'[s].failed = sess[s].failed /\ sess'[s].pc = "writing"
    BY <1>0, <1>2, <2>1 DEF OpenFile, Threads
  <2>3. file'[f] = << >>
    BY <1>0, <1>2 DEF OpenFile
  <2>4. ~sess[s].failed
    BY <2>1 DEF IInv, Progress
  <2> QED BY <2>2, <2>3, <2>4 DEF Undisturbed, Starts
<1>3. CASE WriteBlock(s)
  <2> DEFINE n == sess[s].written
             r == sess[s].req
  <2>1. /\ s \in alone /\ sess[s].pc = "writing"
        /\ n \in Nat /\ n < sess[s].length /\ sess[s].got = << >>
    BY <1>0, <1>3 DEF WriteBlock, Threads, IInv, Progress
  <2>2. ~sess[s].failed /\ Starts(r, file[f], n)
    BY <1>0, <2>1 DEF Undisturbed
  <2>3. Starts(r, Put(file[f], n, Block(r, n + 1)), n + 1)
    <3> HIDE DEF n, r, f
    <3> QED BY <1>0, <2>1, <2>2, PutAtEnd
  <2>4. /\ sess'[s].req = r /\ sess'[s].written = n + 1
        /\ sess'[s].failed = sess[s].failed /\ sess'[s].got = << >>
        /\ sess'[s].length = sess[s].length
        /\ sess'[s].pc = IF n + 1 = sess[s].length THEN "reading" ELSE "writing"
    BY <1>0, <1>3, <2>1 DEF WriteBlock, Threads
  <2>5. file'[f] = Put(file[f], n, Block(r, n + 1))
    BY <1>0, <1>3 DEF WriteBlock
  <2>6. Len(<< >>) = 0 /\ Starts(r, << >>, 0)
    BY DEF Starts
  <2>7. Starts(r, file'[f], n + 1)
    BY <2>3, <2>5
  <2> QED BY <2>1, <2>2, <2>4, <2>6, <2>7 DEF Undisturbed, Ends
<1>4. CASE FailWriting(s)
  <2>1. /\ s \in alone /\ sess[s].pc = "writing" /\ UNCHANGED file
        /\ sess[s].written \in Nat
        /\ sess[s].written < sess[s].length /\ sess[s].got = << >>
    BY <1>0, <1>4 DEF FailWriting, Threads, IInv, Progress
  <2>2. /\ sess'[s].req = sess[s].req /\ sess'[s].written = sess[s].written
        /\ sess'[s].failed /\ sess'[s].got = << >>
        /\ sess'[s].length = sess[s].length /\ sess'[s].pc = "reading"
    BY <1>0, <1>4, <2>1 DEF FailWriting, Threads
  <2>3. Len(<< >>) = 0 /\ Starts(sess[s].req, << >>, 0)
    BY DEF Starts
  <2> QED BY <1>0, <2>1, <2>2, <2>3 DEF Undisturbed, Ends
<1>5. CASE ReadBlock(s)
  <2> DEFINE got == sess[s].got
             k == Len(got)
             b == file[f][k + 1]
  <2>1. /\ s \in alone /\ sess[s].pc = "reading" /\ UNCHANGED file
        /\ got \in Seq(Blocks) /\ k \in Nat /\ k < Len(file[f])
        /\ sess[s].written \in Nat
    BY <1>0, <1>5, LenProperties DEF ReadBlock, Threads
  <2>2. /\ Ends(sess[s]) /\ Starts(sess[s].req, file[f], sess[s].written)
        /\ Starts(sess[s].req, got, k)
    BY <1>0, <2>1 DEF Undisturbed
  <2>3. k + 1 \in 1..sess[s].written /\ b = Block(sess[s].req, k + 1)
    BY <2>1, <2>2 DEF Starts
  <2>4. b \in Blocks
    BY <1>0, <2>1, ElementOfSeq
  <2>5. sess' = [sess EXCEPT ![s].got = Append(got, b)]
    BY <1>5 DEF ReadBlock
  <2>6. /\ sess'[s].req = sess[s].req /\ sess'[s].written = sess[s].written
        /\ sess'[s].failed = sess[s].failed /\ sess'[s].got = Append(got, b)
        /\ sess'[s].length = sess[s].length /\ sess'[s].pc = "reading"
    BY <1>0, <2>1, <2>5 DEF Threads
  <2>7. Len(Append(got, b)) = k + 1 /\ Starts(sess[s].req, Append(got, b), k + 1)
    BY <2>1, <2>2, <2>3, <2>4, AppendProperties DEF Starts
  <2> HIDE DEF k, b, got
  <2>8. k + 1 <= sess[s].written
    BY <2>1, <2>3
  <2> QED BY <2>1, <2>2, <2>6, <2>7, <2>8 DEF Undisturbed, Ends
<1>6. CASE EndOfFile(s)
  <2>1. /\ s \in alone /\ sess[s].pc = "reading"
        /\ Len(sess[s].got) \in Nat /\ sess[s].written \in Nat
        /\ Len(sess[s].got) >= Len(file[f])
    BY <1>0, <1>6, LenProperties DEF EndOfFile, Threads
  <2>2. Ends(sess[s]) /\ Starts(sess[s].req, sess[s].got, sess[s].written)
    BY <1>0, <2>1 DEF Undisturbed, Starts
  <2>3. /\ sess'[s].req = sess[s].req /\ sess'[s].written = sess[s].written
        /\ sess'[s].failed = sess[s].failed /\ sess'[s].got = sess[s].got
        /\ sess'[s].length = sess[s].length /\ sess'[s].pc = "answered"
    BY <1>0, <1>6 DEF EndOfFile, Threads
  <2> QED BY <2>2, <2>3 DEF Undisturbed, Ends
<1> QED BY <1>1, <1>2, <1>3, <1>4, <1>5, <1>6 DEF Continue

\* Every step keeps what undisturbed threads find and send.
LEMMA ExactStep ==
  IInv /\ [Next]_vars => Exact'
<1> SUFFICES ASSUME IInv, [Next]_vars, NEW s \in alone'
             PROVE  Undisturbed(sess[s], file[FileOf(sess[s].req)])'
  BY DEF Exact
<1>1. CASE UNCHANGED vars
  BY <1>1 DEF vars, IInv, Exact
<1>2. ASSUME NEW u \in Sessions, Continue(u) \/ \E r \in Requests : Ask(u, r)
      PROVE  Undisturbed(sess[s], file[FileOf(sess[s].req)])'
  <2>1. CASE s # u
    BY <1>2, <2>1, OthersStep
  <2>2. CASE s = u /\ Continue(u)
    BY <1>2, <2>2, OwnStep
  <2>3. CASE s = u /\ \E r \in Requests : Ask(u, r)
    BY <2>3 DEF Ask
  <2> QED BY <1>2, <2>1, <2>2, <2>3
<1> QED BY <1>1, <1>2 DEF Next

-----------------------------------------------------------------------------
(* Theorems *)

\* IInv holds in every reachable state.
LEMMA Invariance == Spec => []IInv
<1>1. IInv /\ [Next]_vars => IInv'
  BY TypeStep, KeptStep, ExactStep DEF IInv
<1> QED BY InitInv, <1>1, PTL DEF Spec

\* Every variable keeps its type; in particular no request writes more blocks
\* than its report has.
THEOREM TypeCorrect == Spec => []TypeOK
<1>1. IInv => TypeOK
  BY DEF IInv
<1> QED BY <1>1, Invariance, PTL

\* However many requests overlap and fail: a chart with all its parameters in
\* the name of its file shows no rows of another request.
THEOREM NamedChartsOwn == Spec => []FullyNamedIsOwn
<1>1. IInv => FullyNamedIsOwn
  <2> SUFFICES ASSUME IInv, NEW s \in Sessions,
                      sess[s].req.chart \in {ATMMovementRawData, OptionOI},
                      NEW i \in DOMAIN sess[s].got, sess[s].got[i] # Hole
               PROVE  sess[s].got[i].of = ReportOf(sess[s].req)
    BY DEF FullyNamedIsOwn
  <2>1. PICK r \in Requests : /\ FileOf(r) = FileOf(sess[s].req)
                              /\ sess[s].got[i].of = ReportOf(r)
    BY DEF IInv, Kept, AnswersKept, From
  <2>2. sess[s].req \in Requests
    BY DEF IInv, TypeOK, Threads
  <2> QED BY <2>1, <2>2, SameFileSameReport
<1> QED BY <1>1, Invariance, PTL

\* However many requests overlap and fail: no chart shows another index,
\* instrument, scrip or option than the one asked for.
THEOREM SubjectsRight == Spec => []SubjectIsRight
<1>1. IInv => SubjectIsRight
  <2> SUFFICES ASSUME IInv, NEW s \in Sessions,
                      NEW i \in DOMAIN sess[s].got, sess[s].got[i] # Hole,
                      NEW p \in Subjects \cap sess[s].req.chart.read
               PROVE  /\ p \in DOMAIN sess[s].got[i].of.values
                      /\ sess[s].got[i].of.values[p] = sess[s].req.args[p]
    BY DEF SubjectIsRight
  <2>1. PICK r \in Requests : /\ FileOf(r) = FileOf(sess[s].req)
                              /\ sess[s].got[i].of = ReportOf(r)
    BY DEF IInv, Kept, AnswersKept, From
  <2>2. sess[s].req \in Requests
    BY DEF IInv, TypeOK, Threads
  <2> QED BY <2>1, <2>2, SameFileSameSubject
<1> QED BY <1>1, Invariance, PTL

\* Nobody else writing to its file between opening it and sending it, a chart is
\* answered with its own rows, in order, and all of them if nothing fails.
THEOREM AloneExact == Spec => []AloneIsExact
<1>1. IInv => AloneIsExact
  <2> SUFFICES ASSUME IInv, NEW s \in alone, sess[s].pc = "answered"
               PROVE  /\ \A i \in DOMAIN sess[s].got :
                           sess[s].got[i] = Block(sess[s].req, i)
                      /\ IF sess[s].failed THEN Len(sess[s].got) < sess[s].length
                                           ELSE Len(sess[s].got) = sess[s].length
    BY DEF AloneIsExact
  <2>1. Ends(sess[s]) /\ Starts(sess[s].req, sess[s].got, sess[s].written)
    BY DEF IInv, Exact, Undisturbed
  <2>2. sess[s].got \in Seq(Blocks)
    BY DEF IInv, TypeOK, Threads
  <2>3. DOMAIN sess[s].got = 1..sess[s].written
    BY <2>1, <2>2, LenProperties DEF Starts
  <2> QED BY <2>1, <2>3 DEF Starts, Ends
<1> QED BY <1>1, Invariance, PTL

-----------------------------------------------------------------------------
(* The rows of a day's orders: the invariant *)

\* The orders of the day are somewhere, from the first step to the last.
DayKept == running \cup exited \in Days

\* The orders of a row are divided as of its time, and it is theirs.
RowIsCurrent ==
    IF t = Open
    THEN exited = {} /\ row = NoRow
    ELSE /\ t > Open
         /\ exited = {o \in running \cup exited : Exited(o, t - 2)}
         /\ row = Row({o \in running : Runs(o, t - 2)}, exited, price)

OInv == ReplayTypeOK /\ DayKept /\ RowIsCurrent

-----------------------------------------------------------------------------
(* The orders of a day *)

\* A day has finitely many orders: no two have the same id.
LEMMA DayFinite ==
  ASSUME NEW day \in Days
  PROVE  IsFiniteSet(day) /\ day \subseteq Orders
<1> USE OptionPnLAssumption
<1> DEFINE I == {i \in Ids : \E o \in day : o.id = i}
           f == [i \in I |-> CHOOSE o \in day : o.id = i]
<1>1. day \subseteq Orders
  OBVIOUS
<1>2. IsFiniteSet(I)
  BY FS_Subset
<1>3. f \in Surjection(I, day)
  <2>1. ASSUME NEW o \in day PROVE o.id \in I /\ f[o.id] = o
    <3>1. o.id \in I
      BY <1>1 DEF Orders
    <3>2. f[o.id] \in day /\ f[o.id].id = o.id
      BY <3>1
    <3> QED BY <3>1, <3>2
  <2>2. f \in [I -> day]
    OBVIOUS
  <2> HIDE DEF f, I
  <2> QED BY <2>1, <2>2 DEF Surjection
<1> HIDE DEF f, I
<1>4. IsFiniteSet(day)
  BY <1>2, <1>3, FS_Surjection
<1> QED BY <1>1, <1>4

\* An order cannot both have exited and be running.
LEMMA ExitedOrRuns ==
  ASSUME NEW o \in Orders, NEW time \in Int
  PROVE  ~(Exited(o, time) /\ Runs(o, time))
BY DEF Exited, Runs, Orders

\* A row's profits are integers, one per algorithm, and so is its total.
LEMMA RowType ==
  ASSUME NEW live, NEW gone, live \subseteq Orders, gone \subseteq Orders,
         IsFiniteSet(live), IsFiniteSet(gone), NEW p \in [Options -> Int]
  PROVE  /\ Row(live, gone, p).profit \in [DOMAIN AlgoIds -> Int]
         /\ Row(live, gone, p).total \in Int
         /\ Row(live, gone, p).counted = live \cup gone
<1> USE OptionPnLAssumption
<1> DEFINE profit == [o \in live \cup gone |->
                        o.sell - IF o \in live THEN p[o.option] ELSE o.buy]
           part(k) == {o \in live \cup gone : o.algo = AlgoIds[k]}
           ofAlgo == [k \in DOMAIN AlgoIds |-> Total(profit, part(k))]
<1>1. \A o \in live \cup gone : profit[o] \in Int
  BY DEF Orders
<1>2. IsFiniteSet(live \cup gone)
  BY FS_Union
<1>3. ASSUME NEW k \in DOMAIN AlgoIds PROVE Total(profit, part(k)) \in Int
  <2>1. IsFiniteSet(part(k)) /\ \A o \in part(k) : profit[o] \in Int
    BY <1>1, <1>2, FS_Subset
  <2> HIDE DEF profit, part
  <2> QED BY <2>1, SumType DEF Total
<1>4. ofAlgo \in [DOMAIN AlgoIds -> Int]
  BY <1>3
<1>5. IsFiniteSet(DOMAIN AlgoIds)
  BY FS_Interval
<1>6. SumFunction(ofAlgo) \in Int
  <2> HIDE DEF ofAlgo
  <2> QED BY <1>4, <1>5, SumType DEF SumFunction
<1>7. Row(live, gone, p) = [profit |-> ofAlgo, total |-> SumFunction(ofAlgo),
                            counted |-> live \cup gone]
  BY DEF Row
<1> HIDE DEF ofAlgo
<1> QED BY <1>4, <1>6, <1>7

-----------------------------------------------------------------------------
(* The invariant *)

\* It holds at 09:16.
LEMMA InitOrders ==
  ReplayInit => OInv
<1> SUFFICES ASSUME ReplayInit PROVE OInv
  OBVIOUS
<1> USE OptionPnLAssumption DEF ReplayInit
<1>1. running \subseteq Orders
  OBVIOUS
<1>2. ReplayTypeOK
  BY <1>1 DEF ReplayTypeOK, NoRow
<1>3. DayKept
  <2>1. running \cup exited = running
    OBVIOUS
  <2> QED BY <2>1 DEF DayKept
<1> QED BY <1>2, <1>3 DEF OInv, RowIsCurrent

\* A pass of the loop divides the same orders as of its own time.
LEMMA PassKeeps ==
  ASSUME OInv, WriteRow
  PROVE  OInv'
<1> USE OptionPnLAssumption
<1> DEFINE left == {o \in running : Exited(o, t)}
           live == {o \in running : Runs(o, t)}
<1>1. PICK p \in [Options -> Prices] :
        /\ price' = p
        /\ exited' = exited \cup left
        /\ running' = running \ left
        /\ row' = Row(live, exited \cup left, p)
  BY DEF WriteRow
<1>2. t \in Nat /\ t' = t + 2 /\ t' - 2 = t /\ t >= Open
  BY DEF WriteRow, OInv, ReplayTypeOK, RowIsCurrent
<1>3. running \subseteq Orders /\ exited \subseteq Orders /\ running \cap exited = {}
  BY DEF OInv, ReplayTypeOK
<1>4. running' \cup exited' = running \cup exited
  BY <1>1
<1>5. IsFiniteSet(running \cup exited)
  BY DayFinite DEF OInv, DayKept
<1>6. IsFiniteSet(live) /\ IsFiniteSet(exited \cup left)
  BY <1>5, FS_Subset
<1>7. \A o \in live : ~Exited(o, t)
  BY <1>2, <1>3, ExitedOrRuns
<1>8. ReplayTypeOK'
  <2>1. p \in [Options -> Int]
    OBVIOUS
  <2>2. /\ row'.profit \in [DOMAIN AlgoIds -> Int] /\ row'.total \in Int
        /\ row'.counted = live \cup (exited \cup left)
    <3>1. live \subseteq Orders /\ exited \cup left \subseteq Orders
      BY <1>3
    <3> HIDE DEF live, left
    <3> QED BY <1>1, <1>6, <2>1, <3>1, RowType
  <2>3. row'.counted \subseteq running' \cup exited'
    BY <1>4, <2>2
  <2>4. report' \in {"writing", "complete", "failed"}
    BY DEF WriteRow
  <2>5. running' \subseteq Orders /\ exited' \subseteq Orders /\ running' \cap exited' = {}
    BY <1>1, <1>3
  <2>6. price' \in [Options -> Prices \cup {0}]
    BY <1>1
  <2> QED BY <1>2, <2>2, <2>3, <2>4, <2>5, <2>6 DEF ReplayTypeOK
<1>9. DayKept'
  BY <1>4 DEF OInv, DayKept
<1>10. RowIsCurrent'
  <2>1. exited' = {o \in running' \cup exited' : Exited(o, t)}
    <3>1. ASSUME NEW o \in exited PROVE Exited(o, t)
      <4>1. t # Open /\ Exited(o, t - 2)
        BY <3>1 DEF OInv, RowIsCurrent
      <4> QED BY <1>2, <1>3, <4>1 DEF Exited, Orders
    <3> QED BY <1>1, <1>4, <3>1
  <2>2. live = {o \in running' : Runs(o, t)}
    BY <1>1, <1>7
  <2>3. t' # Open /\ t' > Open
    BY <1>2
  <2>4. row' = Row({o \in running' : Runs(o, t)}, exited', price')
    BY <1>1, <2>2
  <2>5. exited' = {o \in running' \cup exited' : Exited(o, t' - 2)}
    BY <1>2, <2>1
  <2>6. row' = Row({o \in running' : Runs(o, t' - 2)}, exited', price')
    BY <1>2, <2>4
  <2> QED BY <2>3, <2>5, <2>6 DEF RowIsCurrent
<1> QED BY <1>8, <1>9, <1>10 DEF OInv

\* The exception, like a step that does nothing, leaves the orders alone.
LEMMA OrdersStep ==
  OInv /\ [ReplayNext]_replayVars => OInv'
<1> SUFFICES ASSUME OInv, [ReplayNext]_replayVars PROVE OInv'
  OBVIOUS
<1>1. CASE WriteRow
  BY <1>1, PassKeeps
<1>2. CASE Fail
  BY <1>2 DEF Fail, OInv, ReplayTypeOK, DayKept, RowIsCurrent
<1>3. CASE UNCHANGED replayVars
  BY <1>3 DEF replayVars, OInv, ReplayTypeOK, DayKept, RowIsCurrent
<1> QED BY <1>1, <1>2, <1>3 DEF ReplayNext

\* In every reachable state the orders are divided as of the last row.
LEMMA OrdersInvariance == ReplaySpec => []OInv
BY InitOrders, OrdersStep, PTL DEF ReplaySpec

\* The variables have their types.
THEOREM ReportTypes == ReplaySpec => []ReplayTypeOK
<1>1. OInv => ReplayTypeOK
  BY DEF OInv
<1> QED BY <1>1, OrdersInvariance, PTL

-----------------------------------------------------------------------------
(* Orders stay in the report *)

\* What the next row leaves out of those in this one exits at its time.
LEMMA CountedStay ==
  ASSUME OInv, WriteRow, NEW o \in row.counted
  PROVE  o \in row'.counted \/ o.exit = t
<1> USE OptionPnLAssumption
<1> DEFINE left == {q \in running : Exited(q, t)}
           live == {q \in running : Runs(q, t)}
<1>1. PICK p \in [Options -> Prices] : row' = Row(live, exited \cup left, p)
  BY DEF WriteRow
<1>2. row'.counted = live \cup (exited \cup left)
  BY <1>1 DEF Row
<1>3. t # Open /\ row.counted = {q \in running : Runs(q, t - 2)} \cup exited
  BY DEF OInv, RowIsCurrent, NoRow, Row
<1>4. CASE o \in exited
  BY <1>2, <1>4
<1>5. CASE o \in running /\ Runs(o, t - 2)
  <2>1. t \in Nat /\ o \in Orders
    BY <1>5 DEF OInv, ReplayTypeOK
  <2>2. o.exit < t \/ o.exit = t \/ o.exit > t
    BY <1>5, <2>1 DEF Runs, Orders
  <2>3. Exited(o, t) \/ o.exit = t \/ Runs(o, t)
    BY <1>5, <2>1, <2>2 DEF Runs, Exited, Orders
  <2> QED BY <1>2, <1>5, <2>3
<1> QED BY <1>3, <1>4, <1>5

\* An order that is in one row is in the next, unless the next row's time is
\* its exit time.
THEOREM OrdersStay == ReplaySpec => OrdersStayInReport
<1>1. OInv /\ [ReplayNext]_replayVars => [\A o \in row.counted : o \in row'.counted \/ o.exit = t]_replayVars
  <2> SUFFICES ASSUME OInv, ReplayNext
               PROVE  (\A o \in row.counted : o \in row'.counted \/ o.exit = t) \/ UNCHANGED replayVars
    OBVIOUS
  <2>1. CASE WriteRow
    BY <2>1, CountedStay
  <2>2. CASE Fail
    BY <2>2 DEF Fail
  <2> QED BY <2>1, <2>2 DEF ReplayNext
<1> QED BY <1>1, OrdersInvariance, PTL DEF ReplaySpec, OrdersStayInReport

-----------------------------------------------------------------------------
(* A total is the sum over the orders of the day *)

\* The profits of the algorithms add up to those of the orders if no algorithm
\* stands twice in the list.
LEMMA AlgorithmsAddUp ==
  ASSUME NEW S, IsFiniteSet(S), S \subseteq Orders, IsInjective(AlgoIds),
         NEW profit, \A o \in S : profit[o] \in Int
  PROVE  SumFunction([k \in DOMAIN AlgoIds |->
                        Total(profit, {o \in S : o.algo = AlgoIds[k]})])
           = SumFunctionOnSet(profit, S)
<1> USE OptionPnLAssumption
<1> DEFINE K == DOMAIN AlgoIds
           part == [k \in K |-> {o \in S : o.algo = AlgoIds[k]}]
           h == [k \in K |-> Total(profit, {o \in S : o.algo = AlgoIds[k]})]
<1>1. IsFiniteSet(K)
  BY FS_Interval
<1>2. ASSUME NEW k \in K
      PROVE  /\ IsFiniteSet(part[k])
             /\ \A x \in part[k] : profit[x] \in Int
             /\ h[k] = SumFunctionOnSet(profit, part[k])
  BY FS_Subset DEF Total
<1>3. \A k, l \in K : k # l => part[k] \cap part[l] = {}
  BY DEF IsInjective
<1>4. UNION {part[k] : k \in K} = S
  <2>1. \A o \in S : \E k \in K : o.algo = AlgoIds[k]
    BY DEF Orders, Algos
  <2> QED BY <2>1
<1>5. DOMAIN h = K
  OBVIOUS
<1>6. SumFunction(h) = SumFunctionOnSet(h, K)
  BY <1>5 DEF SumFunction
<1>7. SumFunctionOnSet(h, K) = SumFunctionOnSet(profit, UNION {part[k] : k \in K})
  <2> HIDE DEF h, part, K
  <2> QED BY <1>1, <1>2, <1>3, SumPartition
<1> QED BY <1>4, <1>6, <1>7

\* The total of a row, if no algorithm was asked for twice, is the sum of what
\* each order of the day contributes at the row's time.
LEMMA TotalAddsUp ==
  OInv => TotalIsSumOfOrders
<1> SUFFICES ASSUME OInv, t > Open, IsInjective(AlgoIds)
             PROVE  row.total = SumFunction([o \in running \cup exited |->
                                               Contribution(o, t - 2)])
  BY DEF TotalIsSumOfOrders
<1> USE OptionPnLAssumption
<1> DEFINE day == running \cup exited
           live == {o \in running : Runs(o, t - 2)}
           S == live \cup exited
           profit == [o \in S |-> o.sell - IF o \in live THEN price[o.option] ELSE o.buy]
           share == [o \in day |-> Contribution(o, t - 2)]
<1>1. /\ t \in Nat /\ running \cap exited = {} /\ day \subseteq Orders
      /\ \A option \in Options : price[option] \in Int
  <2>1. price \in [Options -> Prices \cup {0}] /\ Prices \cup {0} \subseteq Int
    BY DEF OInv, ReplayTypeOK
  <2>2. \A option \in Options : price[option] \in Int
    BY <2>1
  <2>3. t \in Nat /\ running \cap exited = {} /\ day \subseteq Orders
    BY DEF OInv, ReplayTypeOK
  <2> QED BY <2>2, <2>3
<1>2. /\ exited = {o \in day : Exited(o, t - 2)}
      /\ row = Row(live, exited, price)
  BY <1>1 DEF OInv, RowIsCurrent
<1>3. IsFiniteSet(day)
  BY DayFinite DEF OInv, DayKept
<1>4. /\ S \subseteq day /\ day = S \cup (day \ S)
      /\ IsFiniteSet(S) /\ IsFiniteSet(day \ S)
  BY <1>3, FS_Subset
<1>5. \A o \in S : profit[o] \in Int
  <2> SUFFICES ASSUME NEW o \in S PROVE profit[o] \in Int
    OBVIOUS
  <2>1. o \in Orders
    BY <1>1
  <2>2. o.option \in Options /\ o.sell \in Int /\ o.buy \in Int
    BY <2>1 DEF Orders
  <2>3. price[o.option] \in Int
    BY <1>1, <2>2
  <2> QED BY <2>2, <2>3
<1>6. \A o \in S : share[o] = profit[o]
  <2>1. ASSUME NEW o \in live PROVE share[o] = profit[o]
    <3>1. Runs(o, t - 2) /\ ~Exited(o, t - 2)
      BY <1>1, ExitedOrRuns
    <3> QED BY <3>1 DEF Contribution
  <2>2. ASSUME NEW o \in exited PROVE share[o] = profit[o]
    <3>1. Exited(o, t - 2) /\ o \notin live
      BY <1>1, <1>2
    <3> QED BY <3>1, <1>1, ExitedOrRuns DEF Contribution
  <2> QED BY <2>1, <2>2
<1>7. \A o \in day \ S : share[o] = 0
  <2> SUFFICES ASSUME NEW o \in day \ S PROVE share[o] = 0
    OBVIOUS
  <2>1. ~Exited(o, t - 2) /\ ~Runs(o, t - 2)
    BY <1>2
  <2> QED BY <2>1 DEF Contribution
<1>8. row.total = SumFunctionOnSet(profit, S)
  <2>1. row.total = SumFunction([k \in DOMAIN AlgoIds |->
                                   Total(profit, {o \in S : o.algo = AlgoIds[k]})])
    BY <1>2 DEF Row
  <2>2. S \subseteq Orders
    BY <1>1, <1>4
  <2> HIDE DEF profit, S
  <2> QED BY <1>4, <1>5, <2>1, <2>2, AlgorithmsAddUp
<1>9. SumFunction(share) = SumFunctionOnSet(share, day)
  BY DEF SumFunction
<1> HIDE DEF day, live, S, profit, share
<1>10. SumFunctionOnSet(share, S) = SumFunctionOnSet(profit, S)
  BY <1>4, <1>6, SumSame
<1>11. SumFunctionOnSet(share, day \ S) = 0
  BY <1>4, <1>7, SumZero
<1>12. SumFunctionOnSet(share, day) = SumFunctionOnSet(share, S) + 0
  <2>1. S \cap (day \ S) = {}
    OBVIOUS
  <2>2. \A o \in S \cup (day \ S) : share[o] \in Int
    BY <1>5, <1>6, <1>7
  <2> QED BY <1>4, <1>11, <2>1, <2>2, SumUnion
<1>13. SumFunctionOnSet(profit, S) \in Int
  BY <1>4, <1>5, SumType
<1> QED BY <1>8, <1>9, <1>10, <1>12, <1>13 DEF share, day

\* Whatever steps the orders were moved in before, the total of every row is
\* the sum over the orders of the day.
THEOREM TotalsAddUp == ReplaySpec => []TotalIsSumOfOrders
BY TotalAddsUp, OrdersInvariance, PTL
=============================================================================
