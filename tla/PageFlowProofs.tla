--------------------------- MODULE PageFlowProofs ---------------------------
(***************************************************************************)
(* What a window shows, for any pages, searches, urls and habits, and      *)
(* however answers cross: after a login nothing older counts as loaded,    *)
(* and a shared div shows what was last asked of it.  The invariants       *)
(* follow from the inductive one, PInv, which is made of one statement     *)
(* for each div.                                                           *)
(***************************************************************************)
EXTENDS PageFlow, SequenceTheorems, TLAPS

\* What must not be older than the last login answered here.
Refreshed(w, d) == d = "toolbar" \/ (d \in Pages \ NeverReset /\ w.flag[d])

\* What must show what was last asked of it.
Shared(w, d) == d \in {"misc", "toolbar", "table", "row"} \/ (d = "popup" /\ w.open)

\* Unless answers can cross, at most one is due; and unless there was an error
\* since, div d shows, or will show, what it should.  A row is only waited for
\* while the table it is in is shown.
DivInv(w, d) ==
    d \notin w.overlapped =>
        /\ Len(w.pending[d]) <= 1
        /\ d \notin w.failed /\ w.pending[d] = <<>> =>
             /\ Refreshed(w, d) => w.body[d].by.n >= w.login
             /\ Shared(w, d) => w.body[d].what \in AnswersTo(w.wanted[d])
             /\ d = "row" /\ w.body["row"] # Blank =>
                  w.body["row"].what = w.body["table"].what
        /\ d \notin w.failed /\ w.pending[d] # <<>> =>
             /\ Refreshed(w, d) /\ w.pending[d][1].answer # Blank =>
                  w.pending[d][1].answer.by.n >= w.login
             /\ Shared(w, d) => w.pending[d][1].what = w.wanted[d]
             /\ d = "row" => /\ w.body["table"] # Blank
                             /\ w.pending["row"][1].what = w.body["table"].what

\* What request r for div d can be answered with, as long as the session is s.
Answerable(d, r, s) ==
    r.answer # Blank =>
        /\ r.answer.what \in AnswersTo(r.what)
        /\ d # "popup" => r.what # "submit"
        /\ r.answer.by.n <= s.n

WindowInv(w, s) ==
    /\ w \in Windows
    /\ w.login <= s.n
    /\ w.collapsed => w.body["row"] # Blank
    /\ \A d \in Divs : \A k \in DOMAIN w.pending[d] : Answerable(d, w.pending[d][k], s)

PInv ==
    /\ session \in Sessions /\ habit \in Habits
    /\ WindowInv(win, session)
    /\ \A d \in Divs : DivInv(win, d)

-----------------------------------------------------------------------------
(* Windows *)

\* No page has the name of another div.
LEMMA PagesApart ==
  /\ Pages \cap {"misc", "toolbar", "popup", "table", "row"} = {}
  /\ Pages \subseteq Divs /\ Pages \subseteq Texts
  /\ "DashboardPage" \in Pages /\ "PublicHomePage" \in Pages
BY PageFlowAssumption DEF AllPages, Divs, Texts

LEMMA BlankContent ==
  /\ Blank \in Contents /\ Blank.what = "" /\ Blank.by.n = 1
BY DEF Contents, Blank

\* The state of a div that DivInv is about.
LEMMA DivSame ==
  ASSUME NEW w \in Windows, NEW v \in Windows, NEW d \in Divs, DivInv(w, d),
         v.body[d] = w.body[d], v.pending[d] = w.pending[d],
         v.wanted[d] = w.wanted[d], v.login = w.login,
         d \in w.overlapped => d \in v.overlapped,
         d \in w.failed => d \in v.failed,
         d \in Pages /\ v.flag[d] => w.flag[d],
         d = "popup" /\ v.open => w.open,
         d = "row" => v.body["table"] = w.body["table"]
  PROVE  DivInv(v, d)
BY PagesApart DEF DivInv, Refreshed, Shared, Divs

-----------------------------------------------------------------------------
(* Requests *)

LEMMA AskFields ==
  ASSUME NEW w \in Windows, NEW d \in Divs, NEW what \in Texts,
         NEW v, v = Ask(w, d, what)
  PROVE  /\ v \in Windows
         /\ v.flag = w.flag /\ v.shown = w.shown /\ v.body = w.body
         /\ v.open = w.open /\ v.timer = w.timer /\ v.collapsed = w.collapsed
         /\ v.login = w.login
         /\ v.wanted[d] = what
         /\ w.pending[d] = <<>> => v.overlapped = w.overlapped \ {d}
         /\ w.pending[d] # <<>> => v.overlapped = w.overlapped \cup {d}
         /\ v.failed = w.failed \ {d}
         /\ Len(v.pending[d]) = Len(w.pending[d]) + 1
         /\ v.pending[d][Len(w.pending[d]) + 1].what = what
         /\ v.pending[d][Len(w.pending[d]) + 1].answer = Blank
         /\ \A i \in 1..Len(w.pending[d]) : v.pending[d][i] = w.pending[d][i]
         /\ \A e \in Divs \ {d} : v.pending[e] = w.pending[e] /\ v.wanted[e] = w.wanted[e]
<1>1. /\ w.pending \in [Divs -> Seq(Requests)]
      /\ w.wanted \in [Divs -> Texts \cup {""}]
      /\ w.overlapped \in SUBSET Divs /\ w.failed \in SUBSET Divs
  BY DEF Windows
<1>2. PICK r : r = [what |-> what, answer |-> Blank]
  OBVIOUS
<1>3. PICK q : q = Append(w.pending[d], r)
  OBVIOUS
<1>4. PICK p : p = [w.pending EXCEPT ![d] = q]
  OBVIOUS
<1>5. PICK a : a = [w.wanted EXCEPT ![d] = what]
  OBVIOUS
<1>6. PICK o : o = IF w.pending[d] = <<>> THEN w.overlapped \ {d} ELSE w.overlapped \cup {d}
  OBVIOUS
<1>7. PICK f : f = w.failed \ {d}
  OBVIOUS
<1>8. v = [w EXCEPT !.pending = p, !.wanted = a, !.overlapped = o, !.failed = f]
  BY <1>2, <1>3, <1>4, <1>5, <1>6, <1>7 DEF Ask, Windows
<1>9. r \in Requests
  BY <1>2, BlankContent DEF Requests
<1>10. w.pending[d] \in Seq(Requests)
  BY <1>1
<1>11. /\ q \in Seq(Requests) /\ Len(q) = Len(w.pending[d]) + 1
       /\ q[Len(w.pending[d]) + 1] = r
       /\ \A i \in 1..Len(w.pending[d]) : q[i] = w.pending[d][i]
  BY <1>3, <1>9, <1>10, AppendProperties
<1>12. p \in [Divs -> Seq(Requests)] /\ p[d] = q
  BY <1>1, <1>4, <1>11
<1>13. a \in [Divs -> Texts \cup {""}] /\ a[d] = what
  BY <1>1, <1>5
<1>14. o \in SUBSET Divs /\ f \in SUBSET Divs
  BY <1>1, <1>6, <1>7
<1>15. /\ v \in Windows
       /\ v.pending = p /\ v.wanted = a /\ v.overlapped = o /\ v.failed = f
       /\ v.flag = w.flag /\ v.shown = w.shown /\ v.body = w.body
       /\ v.open = w.open /\ v.timer = w.timer /\ v.collapsed = w.collapsed
       /\ v.login = w.login
  BY <1>8, <1>12, <1>13, <1>14 DEF Windows
<1>16. \A e \in Divs \ {d} : p[e] = w.pending[e] /\ a[e] = w.wanted[e]
  BY <1>1, <1>4, <1>5
<1>17. /\ w.pending[d] = <<>> => o = w.overlapped \ {d}
       /\ w.pending[d] # <<>> => o = w.overlapped \cup {d}
  BY <1>6
<1>18. r.what = what /\ r.answer = Blank
  BY <1>2
<1> QED BY <1>7, <1>11, <1>12, <1>13, <1>15, <1>16, <1>17, <1>18

LEMMA PendingType ==
  ASSUME NEW w \in Windows, NEW d \in Divs
  PROVE  /\ w.pending[d] \in Seq(Requests)
         /\ Len(w.pending[d]) \in Nat /\ DOMAIN w.pending[d] = 1..Len(w.pending[d])
         /\ w.pending[d] = <<>> <=> Len(w.pending[d]) = 0
<1>1. w.pending[d] \in Seq(Requests)
  <2>1. w.pending \in [Divs -> Seq(Requests)]
    BY DEF Windows
  <2> QED BY <2>1
<1>2. Len(w.pending[d]) \in Nat /\ DOMAIN w.pending[d] = 1..Len(w.pending[d])
  BY <1>1, LenProperties
<1>3. w.pending[d] = <<>> <=> Len(w.pending[d]) = 0
  BY <1>1, EmptySeq
<1> QED BY <1>1, <1>2, <1>3

\* Whatever was due for a div, what is asked for now is what it waits for.
LEMMA AskHere ==
  ASSUME NEW w \in Windows, NEW d \in Divs, NEW what \in Texts,
         d = "row" => w.body["table"] # Blank /\ what = w.body["table"].what
  PROVE  DivInv(Ask(w, d, what), d)
<1>1. PICK v : v = Ask(w, d, what)
  OBVIOUS
<1>2. CASE w.pending[d] = <<>>
  <2>1. /\ Len(v.pending[d]) = 1
        /\ v.pending[d][1].what = what /\ v.pending[d][1].answer = Blank
        /\ v.wanted[d] = what /\ v.body = w.body
    <3>1. Len(w.pending[d]) = 0
      BY <1>2, PendingType
    <3>2. /\ Len(v.pending[d]) = Len(w.pending[d]) + 1
          /\ v.pending[d][Len(w.pending[d]) + 1].what = what
          /\ v.pending[d][Len(w.pending[d]) + 1].answer = Blank
          /\ v.wanted[d] = what /\ v.body = w.body
      BY <1>1, AskFields
    <3> QED BY <3>1, <3>2
  <2>2. v.pending[d] # <<>>
    BY <2>1
  <2> QED BY <1>1, <2>1, <2>2 DEF DivInv
<1>3. CASE w.pending[d] # <<>>
  <2>1. d \in v.overlapped
    BY <1>1, <1>3, AskFields
  <2> QED BY <1>1, <2>1 DEF DivInv
<1> QED BY <1>2, <1>3

LEMMA AskDue ==
  ASSUME NEW w \in Windows, NEW d \in Divs, NEW what \in Texts,
         NEW v, v = Ask(w, d, what), d \notin v.overlapped
  PROVE  Len(v.pending[d]) = 1 /\ v.pending[d][1].answer = Blank
<1>1. CASE w.pending[d] = <<>>
  <2>1. Len(w.pending[d]) = 0
    BY <1>1, PendingType
  <2>2. /\ Len(v.pending[d]) = Len(w.pending[d]) + 1
        /\ v.pending[d][Len(w.pending[d]) + 1].answer = Blank
    BY AskFields
  <2> QED BY <2>1, <2>2
<1>2. CASE w.pending[d] # <<>>
  BY <1>2, AskFields
<1> QED BY <1>1, <1>2

LEMMA AskElsewhere ==
  ASSUME NEW w \in Windows, NEW d \in Divs, NEW what \in Texts,
         NEW e \in Divs \ {d}, DivInv(w, e)
  PROVE  DivInv(Ask(w, d, what), e)
<1>1. PICK v : v = Ask(w, d, what)
  OBVIOUS
<1>2. /\ v \in Windows /\ v.body = w.body /\ v.pending[e] = w.pending[e]
      /\ v.wanted[e] = w.wanted[e] /\ v.login = w.login /\ v.flag = w.flag
      /\ v.open = w.open
      /\ v.failed = w.failed \ {d}
  BY <1>1, AskFields
<1>3. e \in w.overlapped => e \in v.overlapped
  <2>1. /\ w.pending[d] = <<>> => v.overlapped = w.overlapped \ {d}
        /\ w.pending[d] # <<>> => v.overlapped = w.overlapped \cup {d}
    BY <1>1, AskFields
  <2> QED BY <2>1
<1> QED BY <1>1, <1>2, <1>3, DivSame

LEMMA AskWindow ==
  ASSUME NEW w, NEW s \in Sessions, WindowInv(w, s),
         NEW d \in Divs, NEW what \in Texts
  PROVE  WindowInv(Ask(w, d, what), s)
<1>1. PICK v : v = Ask(w, d, what)
  OBVIOUS
<1>2. w \in Windows /\ v \in Windows
  BY <1>1, AskFields DEF WindowInv
<1>3. ASSUME NEW e \in Divs, NEW k \in DOMAIN v.pending[e]
      PROVE  Answerable(e, v.pending[e][k], s)
  <2>1. CASE e = d /\ k = Len(w.pending[d]) + 1
    <3>1. v.pending[e][k].answer = Blank
      BY <1>1, <1>2, <2>1, AskFields
    <3> QED BY <3>1 DEF Answerable
  <2>2. CASE ~(e = d /\ k = Len(w.pending[d]) + 1)
    <3>1. k \in DOMAIN w.pending[e] /\ v.pending[e][k] = w.pending[e][k]
      <4>1. CASE e = d
        <5>1. /\ Len(v.pending[d]) = Len(w.pending[d]) + 1
              /\ \A i \in 1..Len(w.pending[d]) : v.pending[d][i] = w.pending[d][i]
          BY <1>1, <1>2, AskFields
        <5>2. /\ DOMAIN v.pending[d] = 1..Len(v.pending[d])
              /\ DOMAIN w.pending[d] = 1..Len(w.pending[d]) /\ Len(w.pending[d]) \in Nat
          BY <1>2, PendingType
        <5> QED BY <1>3, <2>2, <4>1, <5>1, <5>2
      <4>2. CASE e # d
        BY <1>1, <1>2, <2>2, <4>2, AskFields, PendingType
      <4> QED BY <4>1, <4>2
    <3> QED BY <3>1 DEF WindowInv
  <2> QED BY <2>1, <2>2
<1> QED BY <1>1, <1>2, <1>3, AskFields DEF WindowInv

\* What an unanswered request keeps true of a window does not depend on the
\* other fields.
LEMMA WindowSame ==
  ASSUME NEW w, NEW s \in Sessions, WindowInv(w, s), NEW v \in Windows,
         v.pending = w.pending, v.login <= s.n,
         v.collapsed => v.body["row"] # Blank
  PROVE  WindowInv(v, s)
BY DEF WindowInv

-----------------------------------------------------------------------------
(* Pages *)

LEMMA LoadPageKeeps ==
  ASSUME NEW w, NEW s \in Sessions, WindowInv(w, s), NEW p \in Pages
  PROVE  /\ WindowInv(LoadPage(w, p), s)
         /\ \A e \in Divs : DivInv(w, e) => DivInv(LoadPage(w, p), e)
<1>1. w \in Windows /\ p \in Divs /\ p \in Texts /\ p # "row" /\ p # "popup"
  BY PagesApart DEF WindowInv
<1>2. PICK v : v = [w EXCEPT !.shown = p]
  OBVIOUS
<1>3. /\ v \in Windows /\ v.flag = w.flag /\ v.body = w.body /\ v.pending = w.pending
      /\ v.open = w.open /\ v.collapsed = w.collapsed /\ v.login = w.login
      /\ v.wanted = w.wanted /\ v.overlapped = w.overlapped /\ v.failed = w.failed
  BY <1>1, <1>2 DEF Windows
<1>4. WindowInv(v, s)
  BY <1>3, WindowSame DEF WindowInv
<1>5. ASSUME NEW e \in Divs, DivInv(w, e) PROVE DivInv(v, e)
  BY <1>1, <1>3, <1>5, DivSame
<1>6. PICK u : u = [w EXCEPT !.shown = p, !.flag[p] = TRUE]
  OBVIOUS
<1>7. /\ u \in Windows /\ u.body = w.body /\ u.pending = w.pending
      /\ u.open = w.open /\ u.collapsed = w.collapsed /\ u.login = w.login
      /\ u.wanted = w.wanted /\ u.overlapped = w.overlapped /\ u.failed = w.failed
      /\ \A q \in Pages \ {p} : u.flag[q] = w.flag[q]
  BY <1>1, <1>6 DEF Windows
<1>8. WindowInv(u, s)
  BY <1>7, WindowSame DEF WindowInv
<1>9. ASSUME NEW e \in Divs \ {p}, DivInv(w, e) PROVE DivInv(u, e)
  BY <1>1, <1>7, <1>9, DivSame
<1>10. CASE LoadPage(w, p) = v
  BY <1>4, <1>5, <1>10
<1>11. ASSUME NEW x, x = v \/ x = u, LoadPage(w, p) = Ask(x, p, p)
       PROVE  /\ WindowInv(LoadPage(w, p), s)
              /\ \A e \in Divs : DivInv(w, e) => DivInv(LoadPage(w, p), e)
  <2>1. WindowInv(Ask(x, p, p), s)
    BY <1>1, <1>4, <1>8, <1>11, AskWindow
  <2>2. DivInv(Ask(x, p, p), p)
    BY <1>1, <1>3, <1>7, <1>11, AskHere
  <2>3. ASSUME NEW e \in Divs \ {p}, DivInv(w, e) PROVE DivInv(Ask(x, p, p), e)
    BY <1>1, <1>3, <1>5, <1>7, <1>9, <1>11, <2>3, AskElsewhere
  <2> QED BY <1>11, <2>1, <2>2, <2>3
<1>12. LoadPage(w, p) \in {v, Ask(v, p, p), Ask(u, p, p)}
  BY <1>2, <1>6 DEF LoadPage
<1> QED BY <1>10, <1>11, <1>12

LEMMA NewWindowSound ==
  ASSUME NEW s \in Sessions, NEW p \in Pages
  PROVE  /\ WindowInv(NewWindow(p, s), s)
         /\ \A d \in Divs : DivInv(NewWindow(p, s), d)
<1> DEFINE new == [flag |-> [q \in Pages |-> FALSE],
                   shown |-> p,
                   body |-> [d \in Divs |-> IF d = "toolbar"
                                            THEN [what |-> "menu", by |-> s]
                                            ELSE Blank],
                   pending |-> [d \in Divs |-> <<>>],
                   open |-> FALSE,
                   timer |-> FALSE,
                   collapsed |-> FALSE,
                   login |-> 1,
                   wanted |-> [d \in Divs |-> IF d = "toolbar" THEN "menu" ELSE ""],
                   overlapped |-> {},
                   failed |-> {}]
<1>8. NewWindow(p, s) = LoadPage(new, p)
  BY DEF NewWindow
<1>1. PICK w : w = new
  OBVIOUS
<1>2. /\ [what |-> "menu", by |-> s] \in Contents /\ "menu" \in Texts
      /\ 1 \in 1..MaxSessions /\ 1 <= s.n
  BY PageFlowAssumption DEF Contents, Texts, Sessions
<1>3. w.body \in [Divs -> Contents] /\ w.wanted \in [Divs -> Texts \cup {""}]
  BY <1>1, <1>2, BlankContent
<1>4. w.pending \in [Divs -> Seq(Requests)] /\ \A d \in Divs : w.pending[d] = <<>>
  BY <1>1, EmptySeq
<1>5. w \in Windows
  BY <1>1, <1>2, <1>3, <1>4 DEF Windows
<1>6. WindowInv(w, s)
  <2>1. w.login = 1 /\ w.collapsed = FALSE
    BY <1>1
  <2>2. \A d \in Divs : DOMAIN w.pending[d] = {}
    BY <1>4
  <2> QED BY <1>2, <1>5, <2>1, <2>2 DEF WindowInv
<1>7. ASSUME NEW d \in Divs PROVE DivInv(w, d)
  <2>1. w.login = 1 /\ w.open = FALSE /\ w.pending[d] = <<>> /\ Len(w.pending[d]) = 0
    BY <1>1, <1>4, EmptySeq
  <2>2. d \in Pages => ~w.flag[d]
    BY <1>1
  <2>3. CASE d = "toolbar"
    <3>1. w.body[d].what = "menu" /\ w.body[d].by = s /\ w.wanted[d] = "menu"
      BY <1>1, <2>3
    <3> QED BY <1>2, <2>1, <2>3, <3>1 DEF DivInv, AnswersTo
  <2>4. CASE d # "toolbar"
    <3>1. w.body[d] = Blank /\ w.wanted[d] = ""
      BY <1>1, <2>4
    <3>2. ~Refreshed(w, d)
      BY <2>2, <2>4 DEF Refreshed
    <3>3. Blank.what \in AnswersTo("")
      BY BlankContent DEF AnswersTo
    <3>4. d = "row" => w.body["row"] = Blank
      BY <3>1
    <3>5. w.body[d].what \in AnswersTo(w.wanted[d])
      BY <3>1, <3>3
    <3>6. ~(d = "row" /\ w.body["row"] # Blank)
      BY <3>4
    <3>7. Len(w.pending[d]) <= 1
      BY <2>1
    <3> QED BY <2>1, <3>2, <3>5, <3>6, <3>7 DEF DivInv
  <2> QED BY <2>3, <2>4
<1>9. /\ WindowInv(LoadPage(w, p), s)
      /\ \A d \in Divs : DivInv(LoadPage(w, p), d)
  BY <1>6, <1>7, LoadPageKeeps
<1> HIDE DEF new
<1> QED BY <1>1, <1>8, <1>9

-----------------------------------------------------------------------------
(* Answers *)

\* A sequence without one of its elements has only others of it.
LEMMA RemoveAtRest ==
  ASSUME NEW S, NEW s \in Seq(S), NEW k \in 1..Len(s)
  PROVE  /\ RemoveAt(s, k) \in Seq(S)
         /\ Len(RemoveAt(s, k)) = Len(s) - 1
         /\ \A j \in 1..(Len(s) - 1) : \E i \in 1..Len(s) : RemoveAt(s, k)[j] = s[i]
<1>1. Len(s) \in Nat /\ \A i \in 1..Len(s) : s[i] \in S
  OBVIOUS
<1>2. PICK a : a = SubSeq(s, 1, k - 1)
  OBVIOUS
<1>3. PICK b : b = SubSeq(s, k + 1, Len(s))
  OBVIOUS
<1>4. /\ a \in Seq(S) /\ Len(a) = k - 1
      /\ \A i \in 1..(k - 1) : a[i] = s[i]
  BY <1>1, <1>2, SubSeqProperties
<1>5. /\ b \in Seq(S) /\ Len(b) = Len(s) - k
      /\ \A i \in 1..(Len(s) - k) : b[i] = s[k + i]
  BY <1>1, <1>3, SubSeqProperties
<1>6. RemoveAt(s, k) = a \o b
  BY <1>2, <1>3 DEF RemoveAt
<1>7. /\ a \o b \in Seq(S) /\ Len(a \o b) = Len(a) + Len(b)
      /\ \A i \in 1..(Len(a) + Len(b)) :
           (a \o b)[i] = IF i <= Len(a) THEN a[i] ELSE b[i - Len(a)]
  BY <1>4, <1>5, ConcatProperties
<1>8. ASSUME NEW j \in 1..(Len(s) - 1)
      PROVE  \E i \in 1..Len(s) : (a \o b)[j] = s[i]
  <2>1. CASE j <= k - 1
    BY <1>1, <1>4, <1>5, <1>7, <2>1
  <2>2. CASE j > k - 1
    <3>1. PICK m \in 1..(Len(s) - k) : m = j - (k - 1)
      BY <1>1, <2>2
    <3>2. (a \o b)[j] = b[m]
      BY <1>1, <1>4, <1>5, <1>7, <2>2, <3>1
    <3>3. k + m \in 1..Len(s) /\ b[m] = s[k + m]
      BY <1>1, <1>5, <3>1
    <3> QED BY <3>2, <3>3
  <2>3. j <= k - 1 \/ j > k - 1
    BY <1>1
  <2> QED BY <2>1, <2>2, <2>3
<1>9. a \o b \in Seq(S) /\ Len(a \o b) = Len(s) - 1
  BY <1>1, <1>4, <1>5, <1>7
<1> QED BY <1>6, <1>8, <1>9

\* What is inside a div, and that a table never goes without its row.
LEMMA InsideFacts ==
  ASSUME NEW d \in Divs
  PROVE  /\ Inside(d) \subseteq {"table", "row"} /\ d \notin Inside(d)
         /\ d = "table" \/ "table" \in Inside(d) => "row" \in Inside(d)
         /\ Inside(d) \cap (Pages \cup {"popup", "toolbar"}) = {}
BY PagesApart DEF Inside

\* What is different in a window v after c has filled div d.
Filled(w, d, c, v) ==
    /\ v \in Windows
    /\ v.flag = w.flag /\ v.pending = w.pending /\ v.open = w.open
    /\ v.login = w.login /\ v.failed = w.failed
    /\ v.body[d] = c
    /\ \A e \in Inside(d) : v.body[e] = Blank /\ v.wanted[e] = ""
    /\ \A e \in Divs \ Inside(d) : v.wanted[e] = w.wanted[e]
    /\ \A e \in Divs \ (Inside(d) \cup {d}) : v.body[e] = w.body[e]
    /\ w.overlapped \subseteq v.overlapped
    /\ \A e \in Inside(d) : w.pending[e] # <<>> => e \in v.overlapped
    /\ v.collapsed => w.collapsed /\ "row" \notin Inside(d)

LEMMA FillFields ==
  ASSUME NEW w \in Windows, NEW d \in Divs, NEW c \in Contents,
         NEW v, v = Fill(w, d, c)
  PROVE  Filled(w, d, c, v)
<1>1. /\ w.body \in [Divs -> Contents] /\ w.wanted \in [Divs -> Texts \cup {""}]
      /\ w.overlapped \in SUBSET Divs /\ w.collapsed \in BOOLEAN
  BY DEF Windows
<1>2. Inside(d) \subseteq Divs /\ d \notin Inside(d)
  BY InsideFacts DEF Divs
<1>3. PICK b : b = [e \in Divs |-> IF e = d THEN c
                                  ELSE IF e \in Inside(d) THEN Blank ELSE w.body[e]]
  OBVIOUS
<1>4. PICK a : a = [e \in Divs |-> IF e \in Inside(d) THEN "" ELSE w.wanted[e]]
  OBVIOUS
<1>5. PICK o : o = w.overlapped \cup {e \in Inside(d) : w.pending[e] # <<>>}
  OBVIOUS
<1>6. PICK f : f = IF "row" \in Inside(d) THEN FALSE ELSE w.collapsed
  OBVIOUS
<1>7. v = [w EXCEPT !.body = b, !.wanted = a, !.overlapped = o, !.collapsed = f]
  BY <1>3, <1>4, <1>5, <1>6 DEF Fill, Windows
<1>8. /\ b \in [Divs -> Contents] /\ b[d] = c
      /\ \A e \in Inside(d) : b[e] = Blank
      /\ \A e \in Divs \ (Inside(d) \cup {d}) : b[e] = w.body[e]
  BY <1>1, <1>2, <1>3, BlankContent
<1>9. /\ a \in [Divs -> Texts \cup {""}]
      /\ \A e \in Inside(d) : a[e] = ""
      /\ \A e \in Divs \ Inside(d) : a[e] = w.wanted[e]
  BY <1>1, <1>2, <1>4
<1>10. /\ o \in SUBSET Divs /\ w.overlapped \subseteq o
       /\ \A e \in Inside(d) : w.pending[e] # <<>> => e \in o
  BY <1>1, <1>2, <1>5
<1>11. f \in BOOLEAN /\ (f => w.collapsed /\ "row" \notin Inside(d))
  BY <1>1, <1>6
<1>12. /\ v \in Windows
       /\ v.body = b /\ v.wanted = a /\ v.overlapped = o /\ v.collapsed = f
       /\ v.flag = w.flag /\ v.pending = w.pending /\ v.open = w.open
       /\ v.login = w.login /\ v.failed = w.failed
  BY <1>7, <1>8, <1>9, <1>10, <1>11 DEF Windows
<1> QED BY <1>8, <1>9, <1>10, <1>11, <1>12 DEF Filled

LEMMA FillElsewhere ==
  ASSUME NEW w \in Windows, NEW d \in Divs, NEW c \in Contents,
         NEW e \in Divs \ {d}, DivInv(w, e)
  PROVE  DivInv(Fill(w, d, c), e)
<1>1. PICK v : v = Fill(w, d, c)
  OBVIOUS
<1>2. Filled(w, d, c, v)
  BY <1>1, FillFields
<1>3. CASE e \in Inside(d)
  <2>1. /\ v.body[e] = Blank /\ v.wanted[e] = "" /\ v.pending = w.pending
        /\ w.pending[e] # <<>> => e \in v.overlapped
    BY <1>2, <1>3 DEF Filled
  <2>2. ~Refreshed(v, e)
    BY <1>3, InsideFacts DEF Refreshed
  <2>3. v.body[e].what \in AnswersTo(v.wanted[e])
    BY <2>1, BlankContent DEF AnswersTo
  <2>4. ~(e = "row" /\ v.body["row"] # Blank)
    BY <2>1
  <2>5. w.pending[e] = <<>> => Len(v.pending[e]) <= 1
    <3>1. w.pending[e] = <<>> => Len(w.pending[e]) = 0
      BY PendingType
    <3>2. v.pending[e] = w.pending[e]
      BY <2>1
    <3> QED BY <3>1, <3>2
  <2>6. DivInv(v, e)
    BY <2>1, <2>2, <2>3, <2>4, <2>5 DEF DivInv
  <2> QED BY <1>1, <2>6
<1>4. CASE e \notin Inside(d)
  <2>1. /\ v \in Windows /\ v.body[e] = w.body[e] /\ v.wanted[e] = w.wanted[e]
        /\ v.pending = w.pending /\ v.flag = w.flag /\ v.open = w.open
        /\ v.login = w.login /\ v.failed = w.failed
        /\ e \in w.overlapped => e \in v.overlapped
    BY <1>2, <1>4 DEF Filled
  <2>2. e = "row" => v.body["table"] = w.body["table"]
    <3>1. e = "row" => "table" \in Divs \ (Inside(d) \cup {d})
      BY <1>4, InsideFacts DEF Divs
    <3> QED BY <1>2, <3>1 DEF Filled
  <2>3. DivInv(v, e)
    BY <2>1, <2>2, DivSame
  <2> QED BY <1>1, <2>3
<1> QED BY <1>3, <1>4

LEMMA FillWindow ==
  ASSUME NEW w, NEW s \in Sessions, WindowInv(w, s),
         NEW d \in Divs, NEW c \in Contents, d = "row" => c # Blank
  PROVE  WindowInv(Fill(w, d, c), s)
<1>1. PICK v : v = Fill(w, d, c)
  OBVIOUS
<1>2. w \in Windows /\ "row" \in Divs /\ Filled(w, d, c, v)
  BY <1>1, FillFields DEF WindowInv, Divs
<1>3. v \in Windows /\ v.pending = w.pending /\ v.login = w.login
  BY <1>2 DEF Filled
<1>4. v.collapsed => v.body["row"] # Blank
  <2>1. CASE d = "row"
    BY <1>2, <2>1 DEF Filled
  <2>2. CASE d # "row"
    BY <1>2, <2>2 DEF Filled, WindowInv
  <2> QED BY <2>1, <2>2
<1> QED BY <1>1, <1>3, <1>4, WindowSame DEF WindowInv

\* A window whose div d waits for one answer less.
LEMMA ArrivedKeeps ==
  ASSUME PInv, NEW d \in Divs, NEW k \in DOMAIN win.pending[d],
         NEW v, v = Arrived(d, k)
  PROVE  /\ WindowInv(v, session)
         /\ \A e \in Divs \ {d} : DivInv(v, e)
         /\ v.flag = win.flag /\ v.body = win.body /\ v.open = win.open
         /\ v.login = win.login /\ v.wanted = win.wanted
         /\ v.overlapped = win.overlapped /\ v.failed = win.failed
         /\ Len(v.pending[d]) = Len(win.pending[d]) - 1
<1>1. /\ win \in Windows /\ WindowInv(win, session) /\ session \in Sessions
      /\ win.pending \in [Divs -> Seq(Requests)]
  BY DEF PInv, WindowInv, Windows
<1>2. /\ win.pending[d] \in Seq(Requests) /\ Len(win.pending[d]) \in Nat
      /\ k \in 1..Len(win.pending[d])
  BY <1>1, PendingType
<1>3. PICK q : q = RemoveAt(win.pending[d], k)
  OBVIOUS
<1>4. /\ q \in Seq(Requests) /\ Len(q) = Len(win.pending[d]) - 1
      /\ \A j \in 1..(Len(win.pending[d]) - 1) :
           \E i \in 1..Len(win.pending[d]) : q[j] = win.pending[d][i]
  BY <1>2, <1>3, RemoveAtRest
<1>5. PICK p : p = [win.pending EXCEPT ![d] = q]
  OBVIOUS
<1>6. /\ p \in [Divs -> Seq(Requests)] /\ p[d] = q
      /\ \A e \in Divs \ {d} : p[e] = win.pending[e]
  BY <1>1, <1>4, <1>5
<1>7. v = [win EXCEPT !.pending = p]
  BY <1>1, <1>3, <1>5 DEF Arrived, Windows
<1>8. /\ v \in Windows /\ v.pending = p
      /\ v.flag = win.flag /\ v.body = win.body /\ v.open = win.open
      /\ v.login = win.login /\ v.wanted = win.wanted /\ v.collapsed = win.collapsed
      /\ v.overlapped = win.overlapped /\ v.failed = win.failed
  BY <1>1, <1>6, <1>7 DEF Windows
<1>9. ASSUME NEW e \in Divs, NEW j \in DOMAIN v.pending[e]
      PROVE  Answerable(e, v.pending[e][j], session)
  <2>1. \E i \in DOMAIN win.pending[e] : v.pending[e][j] = win.pending[e][i]
    <3>1. CASE e = d
      <4>1. DOMAIN q = 1..(Len(win.pending[d]) - 1)
        BY <1>4
      <4>2. DOMAIN win.pending[d] = 1..Len(win.pending[d])
        BY <1>1, PendingType
      <4>3. v.pending[e] = q /\ win.pending[e] = win.pending[d]
        BY <1>6, <1>8, <3>1
      <4>4. j \in 1..(Len(win.pending[d]) - 1)
        BY <1>9, <4>1, <4>3
      <4>5. PICK i \in 1..Len(win.pending[d]) : q[j] = win.pending[d][i]
        BY <1>4, <4>4
      <4> QED BY <4>2, <4>3, <4>5
    <3>2. CASE e # d
      BY <1>6, <1>8, <1>9, <3>2
    <3> QED BY <3>1, <3>2
  <2> QED BY <1>1, <2>1 DEF WindowInv
<1>10. WindowInv(v, session)
  BY <1>1, <1>8, <1>9 DEF WindowInv
<1>11. ASSUME NEW e \in Divs \ {d} PROVE DivInv(v, e)
  <2>1. DivInv(win, e)
    BY DEF PInv
  <2>2. v.pending[e] = win.pending[e]
    BY <1>6, <1>8
  <2> QED BY <1>1, <1>8, <2>1, <2>2, DivSame
<1> QED BY <1>4, <1>6, <1>8, <1>10, <1>11

\* An answer fills its div: with what was asked for last, unless answers have
\* crossed.
LEMMA DeliverFills ==
  ASSUME PInv, NEW d \in Divs, NEW k \in DOMAIN win.pending[d],
         NEW c, c = win.pending[d][k].answer, c # Blank
  PROVE  /\ c \in Contents
         /\ WindowInv(Fill(Arrived(d, k), d, c), session)
         /\ \A e \in Divs : DivInv(Fill(Arrived(d, k), d, c), e)
<1>1. PICK v : v = Arrived(d, k)
  OBVIOUS
<1>2. PICK x : x = Fill(v, d, c)
  OBVIOUS
<1>3. /\ win \in Windows /\ session \in Sessions /\ DivInv(win, d)
      /\ Answerable(d, win.pending[d][k], session)
  BY DEF PInv, WindowInv
<1>4. /\ WindowInv(v, session) /\ v \in Windows
      /\ \A e \in Divs \ {d} : DivInv(v, e)
  BY <1>1, ArrivedKeeps DEF WindowInv
<1>5. /\ v.flag = win.flag /\ v.body = win.body /\ v.open = win.open
      /\ v.login = win.login /\ v.wanted = win.wanted
      /\ v.overlapped = win.overlapped /\ v.failed = win.failed
      /\ Len(v.pending[d]) = Len(win.pending[d]) - 1
  BY <1>1, ArrivedKeeps
<1>6. c \in Contents
  <2>1. win.pending[d][k] \in Requests
    <3>1. win.pending[d] \in Seq(Requests) /\ k \in 1..Len(win.pending[d])
      BY <1>3, PendingType
    <3> QED BY <3>1
  <2> QED BY <2>1 DEF Requests
<1>7. WindowInv(x, session)
  BY <1>2, <1>3, <1>4, <1>6, FillWindow
<1>8. ASSUME NEW e \in Divs \ {d} PROVE DivInv(x, e)
  BY <1>2, <1>4, <1>6, <1>8, FillElsewhere
<1>9. DivInv(x, d)
  <2>1. Filled(v, d, c, x)
    BY <1>2, <1>4, <1>6, FillFields
  <2>2. d \notin Inside(d)
    BY InsideFacts
  <2>3. /\ x.flag = win.flag /\ x.open = win.open /\ x.login = win.login
        /\ x.failed = win.failed /\ x.pending = v.pending
        /\ x.body[d] = c /\ x.wanted[d] = win.wanted[d]
        /\ d \in win.overlapped => d \in x.overlapped
    BY <1>5, <2>1, <2>2 DEF Filled
  <2>4. SUFFICES ASSUME d \notin win.overlapped PROVE DivInv(x, d)
    BY <2>3 DEF DivInv
  <2>5. k = 1 /\ Len(win.pending[d]) = 1 /\ win.pending[d] # <<>>
    <3>1. Len(win.pending[d]) <= 1
      BY <1>3, <2>4 DEF DivInv
    <3>2. k \in 1..Len(win.pending[d]) /\ Len(win.pending[d]) \in Nat
      BY <1>3, PendingType
    <3>3. win.pending[d] = <<>> => Len(win.pending[d]) = 0
      BY <1>3, PendingType
    <3>4. PICK n \in Nat : n = Len(win.pending[d])
      BY <3>2
    <3>5. n <= 1 /\ k \in 1..n
      BY <3>1, <3>2, <3>4
    <3>6. \A m \in 1..n : n <= 1 => m = 1 /\ n = 1
      OBVIOUS
    <3>7. k = 1 /\ n = 1
      BY <3>5, <3>6
    <3> QED BY <3>3, <3>4, <3>7
  <2>6. Len(x.pending[d]) = 0 /\ x.pending[d] = <<>>
    <3>1. Len(v.pending[d]) = 0
      BY <1>5, <2>5
    <3>2. v.pending[d] = <<>>
      BY <1>4, <3>1, PendingType
    <3> QED BY <2>3, <3>1, <3>2
  <2>7. SUFFICES ASSUME d \notin win.failed PROVE DivInv(x, d)
    BY <2>3, <2>6 DEF DivInv
  <2>8. Refreshed(x, d) => c.by.n >= x.login
    BY <1>3, <2>3, <2>4, <2>5, <2>7 DEF DivInv, Refreshed
  <2>9. Shared(x, d) => c.what \in AnswersTo(x.wanted[d])
    BY <1>3, <2>3, <2>4, <2>5, <2>7 DEF DivInv, Shared, Answerable
  <2>10. d = "row" => c.what = x.body["table"].what
    <3>1. ASSUME d = "row" PROVE x.body["table"] = win.body["table"]
      <4>1. "table" \in Divs \ (Inside(d) \cup {d})
        BY <3>1 DEF Divs, Inside
      <4> QED BY <1>5, <2>1, <4>1 DEF Filled
    <3>2. ASSUME d = "row" PROVE c.what = win.pending[d][1].what
      BY <1>3, <2>5, <3>2 DEF Answerable, AnswersTo
    <3>3. ASSUME d = "row" PROVE win.pending[d][1].what = win.body["table"].what
      BY <1>3, <2>4, <2>5, <2>7, <3>3 DEF DivInv
    <3> QED BY <3>1, <3>2, <3>3
  <2> QED BY <2>3, <2>6, <2>8, <2>9, <2>10 DEF DivInv
<1> QED BY <1>1, <1>2, <1>6, <1>7, <1>8, <1>9

\* Without its div, the answer for a row is dropped: then the table was loaded
\* again since, or its answer was an error.
LEMMA DeliverDrops ==
  ASSUME PInv, NEW d \in Divs, NEW k \in DOMAIN win.pending[d], ~HasDiv(win, d)
  PROVE  /\ WindowInv(Arrived(d, k), session)
         /\ \A e \in Divs : DivInv(Arrived(d, k), e)
<1>1. PICK v : v = Arrived(d, k)
  OBVIOUS
<1>2. WindowInv(v, session) /\ \A e \in Divs \ {d} : DivInv(v, e)
  BY <1>1, ArrivedKeeps
<1>3. /\ v.overlapped = win.overlapped /\ v.failed = win.failed
      /\ Len(v.pending[d]) = Len(win.pending[d]) - 1
  BY <1>1, ArrivedKeeps
<1>4. d = "row" /\ win.body["table"] = Blank
  BY DEF HasDiv
<1>5. /\ DivInv(win, d) /\ Len(win.pending[d]) \in Nat
      /\ win.pending[d] # <<>>
  <2>1. win \in Windows
    BY DEF PInv, WindowInv
  <2>2. k \in 1..Len(win.pending[d])
    BY <2>1, PendingType
  <2>3. win.pending[d] = <<>> => Len(win.pending[d]) = 0
    BY <2>1, PendingType
  <2>4. Len(win.pending[d]) \in Nat
    BY <2>1, PendingType
  <2> QED BY <2>2, <2>3, <2>4 DEF PInv
<1>6. d \in win.overlapped \/ d \in win.failed
  BY <1>4, <1>5 DEF DivInv
<1>7. DivInv(v, d)
  BY <1>3, <1>5, <1>6 DEF DivInv
<1> QED BY <1>1, <1>2, <1>7

-----------------------------------------------------------------------------
(* Logins *)

\* All flags are forgotten but that of the dashboard, which is asked for again,
\* and those no login resets; the menu is asked for, too.
LEMMA LoginKeeps ==
  ASSUME NEW w, NEW s \in Sessions, WindowInv(w, s), \A d \in Divs : DivInv(w, d),
         NEW n \in 1..MaxSessions, n <= s.n,
         NEW x, x = [LoginSuccess(w) EXCEPT !.login = IF n > @ THEN n ELSE @]
  PROVE  WindowInv(x, s) /\ \A d \in Divs : DivInv(x, d)
<1>1. /\ w \in Windows /\ "DashboardPage" \in Pages /\ "DashboardPage" \in Divs
      /\ "DashboardPage" \in Texts /\ "toolbar" \in Divs /\ "menu" \in Texts
  BY PagesApart DEF WindowInv, Divs, Texts
<1>2. PICK f : f = [p \in Pages |-> p \in NeverReset /\ w.flag[p]]
  OBVIOUS
<1>3. /\ f \in [Pages -> BOOLEAN] /\ \A p \in Pages : f[p] => p \in NeverReset /\ w.flag[p]
      /\ ~f["DashboardPage"]
  BY <1>1, <1>2 DEF NeverReset
<1>4. PICK r : r = [w EXCEPT !.flag = f]
  OBVIOUS
<1>5. ResetFlags(w) = r
  BY <1>1, <1>2, <1>4 DEF ResetFlags, Windows
<1>6. /\ r \in Windows /\ r.flag = f /\ r.body = w.body /\ r.pending = w.pending
      /\ r.open = w.open /\ r.collapsed = w.collapsed /\ r.login = w.login
      /\ r.wanted = w.wanted /\ r.overlapped = w.overlapped /\ r.failed = w.failed
  BY <1>1, <1>3, <1>4 DEF Windows
<1>7. WindowInv(r, s)
  BY <1>6, WindowSame DEF WindowInv
<1>8. ASSUME NEW d \in Divs PROVE DivInv(r, d)
  BY <1>1, <1>3, <1>6, DivSame
<1>9. PICK q : q = [r EXCEPT !.shown = "DashboardPage", !.flag["DashboardPage"] = TRUE]
  OBVIOUS
<1>10. /\ q \in Windows /\ \A p \in Pages \ {"DashboardPage"} : q.flag[p] = f[p]
  BY <1>1, <1>6, <1>9 DEF Windows
<1>11. PICK l : l = Ask(q, "DashboardPage", "DashboardPage")
  OBVIOUS
<1>12. LoadPage(r, "DashboardPage") = l
  BY <1>3, <1>6, <1>9, <1>11 DEF LoadPage, AlwaysLoads, Tested
<1>13. WindowInv(l, s) /\ \A d \in Divs : DivInv(l, d)
  BY <1>1, <1>7, <1>8, <1>12, LoadPageKeeps
<1>14. PICK y : y = Ask(l, "toolbar", "menu")
  OBVIOUS
<1>15. WindowInv(y, s)
  BY <1>1, <1>13, <1>14, AskWindow
<1>16. ASSUME NEW d \in Divs PROVE DivInv(y, d)
  <2>1. CASE d = "toolbar"
    BY <1>1, <1>13, <1>14, <2>1, AskHere DEF WindowInv
  <2>2. CASE d # "toolbar"
    BY <1>1, <1>13, <1>14, <2>2, AskElsewhere DEF WindowInv
  <2> QED BY <2>1, <2>2
<1>17. l \in Windows /\ y \in Windows /\ y.flag = q.flag
  BY <1>1, <1>10, <1>11, <1>13, <1>14, AskFields DEF WindowInv
<1>18. ASSUME NEW d \in {"DashboardPage", "toolbar"}
       PROVE  d \notin y.overlapped =>
                Len(y.pending[d]) = 1 /\ y.pending[d][1].answer = Blank
  <2>1. CASE d = "toolbar"
    BY <1>1, <1>14, <1>17, <2>1, AskDue
  <2>2. CASE d = "DashboardPage"
    <3>1. d \notin l.overlapped =>
            Len(l.pending[d]) = 1 /\ l.pending[d][1].answer = Blank
      BY <1>1, <1>10, <1>11, <2>2, AskDue
    <3>2. y.pending[d] = l.pending[d]
      BY <1>1, <1>14, <1>17, <2>2, AskFields
    <3>3. d \in l.overlapped => d \in y.overlapped
      <4>1. /\ l.pending["toolbar"] = <<>> =>
                 y.overlapped = l.overlapped \ {"toolbar"}
            /\ l.pending["toolbar"] # <<>> =>
                 y.overlapped = l.overlapped \cup {"toolbar"}
        BY <1>1, <1>14, <1>17, AskFields
      <4> QED BY <2>2, <4>1
    <3> QED BY <3>1, <3>2, <3>3
  <2> QED BY <2>1, <2>2
<1>19. PICK m : m = IF n > y.login THEN n ELSE y.login
  OBVIOUS
<1>20. m \in 1..MaxSessions /\ m <= s.n
  BY <1>15, <1>17, <1>19 DEF WindowInv, Windows
<1>21. x = [y EXCEPT !.timer = TRUE, !.login = m]
  BY <1>5, <1>12, <1>14, <1>17, <1>19 DEF LoginSuccess, Windows
<1>22. /\ x \in Windows /\ x.flag = y.flag /\ x.body = y.body /\ x.pending = y.pending
       /\ x.open = y.open /\ x.collapsed = y.collapsed /\ x.login = m
       /\ x.wanted = y.wanted /\ x.overlapped = y.overlapped /\ x.failed = y.failed
  BY <1>17, <1>20, <1>21 DEF Windows
<1>23. WindowInv(x, s)
  BY <1>15, <1>20, <1>22, WindowSame DEF WindowInv
<1>24. ASSUME NEW d \in Divs PROVE DivInv(x, d)
  <2>1. CASE d \in {"DashboardPage", "toolbar"}
    <3>1. d # "row" /\ DivInv(y, d)
      BY <1>16, <2>1
    <3>2. d \notin y.overlapped =>
            /\ Len(y.pending[d]) = 1 /\ y.pending[d][1].answer = Blank
            /\ y.pending[d] # <<>>
      <4>1. y.pending[d] = <<>> => Len(y.pending[d]) = 0
        BY <1>17, PendingType
      <4> QED BY <1>18, <2>1, <4>1
    <3> QED BY <1>22, <3>1, <3>2 DEF DivInv, Shared
  <2>2. CASE d \notin {"DashboardPage", "toolbar"}
    <3>1. ~Refreshed(x, d)
      BY <1>3, <1>10, <1>17, <1>22, <2>2 DEF Refreshed
    <3> QED BY <1>16, <1>22, <3>1 DEF DivInv, Shared
  <2> QED BY <2>1, <2>2
<1> QED BY <1>23, <1>24

-----------------------------------------------------------------------------
(* What the server and the network do *)

\* What the server answers was asked for, and is of the session as it is then,
\* which is not older than the last login answered.
LEMMA AnsweredKeeps ==
  ASSUME PInv, NEW d \in Divs, NEW k \in DOMAIN win.pending[d],
         NEW c \in Contents, NEW s \in Sessions, session.n <= s.n,
         c # Blank => /\ c.what \in AnswersTo(win.pending[d][k].what)
                      /\ d # "popup" => win.pending[d][k].what # "submit"
                      /\ c.by = s,
         NEW v, v = [win EXCEPT !.pending[d][k].answer = c]
  PROVE  WindowInv(v, s) /\ \A e \in Divs : DivInv(v, e)
<1>1. /\ win \in Windows /\ win.login <= session.n /\ session \in Sessions
      /\ win.pending \in [Divs -> Seq(Requests)] /\ win.login \in 1..MaxSessions
  BY DEF PInv, WindowInv, Windows
<1>2. /\ win.pending[d] \in Seq(Requests) /\ Len(win.pending[d]) \in Nat
      /\ k \in 1..Len(win.pending[d])
  BY <1>1, PendingType
<1>3. win.login <= s.n
  <2>1. session.n \in Nat /\ s.n \in Nat
    BY <1>1, PageFlowAssumption DEF Sessions
  <2> QED BY <1>1, <2>1
<1>4. win.pending[d][k] \in Requests
  BY <1>2
<1>5. PICK r : r = [win.pending[d][k] EXCEPT !.answer = c]
  OBVIOUS
<1>6. r \in Requests /\ r.what = win.pending[d][k].what /\ r.answer = c
  BY <1>4, <1>5 DEF Requests
<1>7. PICK q : q = [win.pending[d] EXCEPT ![k] = r]
  OBVIOUS
<1>8. /\ q \in Seq(Requests) /\ Len(q) = Len(win.pending[d])
      /\ \A j \in 1..Len(win.pending[d]) : q[j] = IF j = k THEN r ELSE win.pending[d][j]
  BY <1>2, <1>6, <1>7, ExceptSeq
<1>9. PICK p : p = [win.pending EXCEPT ![d] = q]
  OBVIOUS
<1>10. /\ p \in [Divs -> Seq(Requests)] /\ p[d] = q
       /\ \A e \in Divs \ {d} : p[e] = win.pending[e]
  BY <1>1, <1>8, <1>9
<1>11. v = [win EXCEPT !.pending = p]
  BY <1>1, <1>5, <1>7, <1>9 DEF Windows
<1>12. /\ v \in Windows /\ v.pending = p
       /\ v.flag = win.flag /\ v.body = win.body /\ v.open = win.open
       /\ v.login = win.login /\ v.wanted = win.wanted /\ v.collapsed = win.collapsed
       /\ v.overlapped = win.overlapped /\ v.failed = win.failed
  BY <1>1, <1>10, <1>11 DEF Windows
<1>13. ASSUME NEW e \in Divs, NEW j \in DOMAIN v.pending[e]
       PROVE  Answerable(e, v.pending[e][j], s)
  <2>1. CASE e = d /\ j = k
    <3>1. v.pending[e][j] = r
      BY <1>2, <1>8, <1>10, <1>12, <2>1
    <3>2. c # Blank => c.by.n <= s.n
      BY DEF Sessions
    <3> QED BY <1>6, <2>1, <3>1, <3>2 DEF Answerable
  <2>2. CASE ~(e = d /\ j = k)
    <3>1. j \in DOMAIN win.pending[e] /\ v.pending[e][j] = win.pending[e][j]
      <4>1. CASE e = d
        <5>1. DOMAIN q = 1..Len(win.pending[d]) /\ DOMAIN win.pending[d] = 1..Len(win.pending[d])
          BY <1>2, <1>8
        <5>2. j \in 1..Len(win.pending[d]) /\ j # k
          BY <1>10, <1>12, <1>13, <2>2, <4>1, <5>1
        <5> QED BY <1>8, <1>10, <1>12, <4>1, <5>1, <5>2
      <4>2. CASE e # d
        BY <1>10, <1>12, <1>13, <4>2
      <4> QED BY <4>1, <4>2
    <3>2. Answerable(e, win.pending[e][j], session)
      BY <3>1 DEF PInv, WindowInv
    <3>3. win.pending[e][j].answer # Blank => win.pending[e][j].answer.by.n \in Nat
      <4>1. win.pending[e] \in Seq(Requests) /\ j \in 1..Len(win.pending[e])
        BY <1>1, <3>1, PendingType
      <4>2. win.pending[e][j] \in Requests
        BY <4>1
      <4>3. win.pending[e][j].answer \in Contents
        BY <4>2 DEF Requests
      <4> QED BY <4>3 DEF Contents, Sessions
    <3>4. session.n \in Nat /\ s.n \in Nat
      BY <1>1, PageFlowAssumption DEF Sessions
    <3> QED BY <3>1, <3>2, <3>3, <3>4 DEF Answerable
  <2> QED BY <2>1, <2>2
<1>14. WindowInv(v, s)
  BY <1>3, <1>12, <1>13 DEF PInv, WindowInv
<1>15. ASSUME NEW e \in Divs \ {d} PROVE DivInv(v, e)
  <2>1. DivInv(win, e) /\ v.pending[e] = win.pending[e]
    BY <1>10, <1>12 DEF PInv
  <2> QED BY <1>1, <1>12, <2>1, DivSame
<1>16. DivInv(v, d)
  <2>1. DivInv(win, d)
    BY DEF PInv
  <2>2. /\ Len(v.pending[d]) = Len(win.pending[d])
        /\ v.pending[d] = <<>> <=> win.pending[d] = <<>>
    <3>1. Len(v.pending[d]) = Len(win.pending[d])
      BY <1>8, <1>10, <1>12
    <3> QED BY <1>1, <1>12, <3>1, PendingType
  <2>3. SUFFICES ASSUME d \notin win.overlapped, d \notin win.failed PROVE DivInv(v, d)
    BY <1>12, <2>1, <2>2 DEF DivInv
  <2>4. CASE win.pending[d] = <<>>
    BY <1>12, <2>1, <2>2, <2>3, <2>4 DEF DivInv, Refreshed, Shared
  <2>5. CASE win.pending[d] # <<>>
    <3>1. Len(win.pending[d]) <= 1
      BY <2>1, <2>3 DEF DivInv
    <3>2. \A n \in Nat : \A m \in 1..n : n <= 1 => m = 1 /\ n = 1
      OBVIOUS
    <3>3. k = 1 /\ Len(win.pending[d]) = 1
      BY <1>2, <3>1, <3>2
    <3>4. v.pending[d][1] = r
      BY <1>8, <1>10, <1>12, <3>3
    <3>5. c # Blank => c.by.n >= win.login
      BY <1>1, <1>3 DEF Sessions
    <3>6. win.pending[d][1].what = r.what
      BY <1>6, <3>3
    <3> QED BY <1>6, <1>12, <2>1, <2>2, <2>3, <2>5, <3>4, <3>5, <3>6
            DEF DivInv, Refreshed, Shared
  <2> QED BY <2>4, <2>5
<1> QED BY <1>14, <1>15, <1>16

LEMMA ServedKeeps ==
  ASSUME PInv, NEW d \in Divs, NEW k \in DOMAIN win.pending[d],
         Serve(d, k) \/ (d = "popup" /\ Login(k))
  PROVE  PInv'
<1>1. /\ win \in Windows /\ session \in Sessions /\ session.n \in Nat
      /\ win.pending[d][k].what \in Texts
  <2>1. win \in Windows /\ session \in Sessions
    BY DEF PInv, WindowInv
  <2>2. win.pending[d] \in Seq(Requests) /\ k \in 1..Len(win.pending[d])
    BY <2>1, PendingType
  <2>3. win.pending[d][k] \in Requests
    BY <2>2
  <2> QED BY <2>1, <2>3 DEF Requests, Sessions
<1>2. PICK s : s = session'
  OBVIOUS
<1>3. ASSUME NEW c, Answered(d, k, c), s \in Sessions, session.n <= s.n, habit' = habit,
             c = [what |-> c.what, by |-> s],
             c.what \in Texts, c.what \in AnswersTo(win.pending[d][k].what),
             d # "popup" => win.pending[d][k].what # "submit"
      PROVE  PInv'
  <2>1. c \in Contents /\ c.by = s
    BY <1>3 DEF Contents
  <2>2. PICK v : v = [win EXCEPT !.pending[d][k].answer = c]
    OBVIOUS
  <2>3. WindowInv(v, s) /\ \A e \in Divs : DivInv(v, e)
    BY <1>3, <2>1, <2>2, AnsweredKeeps
  <2>4. win' = v
    BY <1>3, <2>2 DEF Answered
  <2> QED BY <1>2, <1>3, <2>3, <2>4 DEF PInv
<1>4. CASE Serve(d, k)
  <2>1. PICK c : c = [what |-> win.pending[d][k].what, by |-> session]
    OBVIOUS
  <2>2. c.what = win.pending[d][k].what /\ c.by = session /\ session' = session
    BY <1>4, <2>1 DEF Serve
  <2>3. win.pending[d][k].what # "submit" /\ Answered(d, k, c) /\ habit' = habit
    BY <1>4, <2>1 DEF Serve
  <2>4. c.what \in AnswersTo(win.pending[d][k].what)
    BY <2>2, <2>3 DEF AnswersTo
  <2> QED BY <1>1, <1>2, <1>3, <2>1, <2>2, <2>3, <2>4
<1>5. CASE d = "popup" /\ Login(k)
  <2>1. win.pending[d][k].what = "submit" /\ habit' = habit
    BY <1>5 DEF Login
  <2>2. PICK c : /\ c \in [what : {"success", "login"}, by : {s}]
                 /\ Answered(d, k, c)
    BY <1>2, <1>5 DEF Login
  <2>3. c = [what |-> c.what, by |-> s] /\ c.what \in {"success", "login"}
    BY <2>2
  <2>4. s \in Sessions /\ session.n <= s.n
    <3>1. \/ s = session
          \/ session.n < MaxSessions /\ s = [n |-> session.n + 1, in |-> TRUE]
      BY <1>2, <1>5 DEF Login
    <3>2. CASE s = session
      BY <1>1, <3>2
    <3>3. ASSUME session.n < MaxSessions, s = [n |-> session.n + 1, in |-> TRUE]
          PROVE  s \in Sessions /\ session.n <= s.n
      <4>1. session.n + 1 \in 1..MaxSessions
        BY <1>1, <3>3, PageFlowAssumption
      <4> QED BY <1>1, <3>3, <4>1 DEF Sessions
    <3> QED BY <3>1, <3>2, <3>3
  <2>5. c.what \in Texts /\ c.what \in AnswersTo(win.pending[d][k].what)
    BY <2>1, <2>3 DEF Texts, AnswersTo
  <2> QED BY <1>3, <1>5, <2>1, <2>2, <2>3, <2>4, <2>5
<1> QED BY <1>4, <1>5

LEMMA FailKeeps ==
  ASSUME PInv, NEW d \in Divs, NEW k \in DOMAIN win.pending[d], Fail(d, k)
  PROVE  PInv'
<1>1. PICK v : v = Arrived(d, k)
  OBVIOUS
<1>2. /\ WindowInv(v, session) /\ \A e \in Divs \ {d} : DivInv(v, e)
      /\ Len(v.pending[d]) = Len(win.pending[d]) - 1 /\ v.overlapped = win.overlapped
  BY <1>1, ArrivedKeeps
<1>3. PICK x : x = [v EXCEPT !.failed = v.failed \cup {d}]
  OBVIOUS
<1>4. v \in Windows /\ session \in Sessions
  BY <1>2 DEF PInv, WindowInv
<1>5. /\ x \in Windows /\ x.flag = v.flag /\ x.body = v.body /\ x.pending = v.pending
      /\ x.open = v.open /\ x.collapsed = v.collapsed /\ x.login = v.login
      /\ x.wanted = v.wanted /\ x.overlapped = v.overlapped /\ x.failed = v.failed \cup {d}
  BY <1>3, <1>4 DEF Windows
<1>6. WindowInv(x, session)
  BY <1>2, <1>4, <1>5, WindowSame DEF WindowInv
<1>7. ASSUME NEW e \in Divs \ {d} PROVE DivInv(x, e)
  BY <1>2, <1>4, <1>5, DivSame
<1>8. DivInv(x, d)
  <2>1. DivInv(win, d) /\ Len(win.pending[d]) \in Nat
    BY PendingType DEF PInv, WindowInv
  <2> QED BY <1>2, <1>5, <2>1 DEF DivInv
<1>9. win' = x /\ session' = session /\ habit' = habit
  BY <1>1, <1>3, <1>4 DEF Fail, Windows
<1> QED BY <1>4, <1>6, <1>7, <1>8, <1>9 DEF PInv

LEMMA DeliverKeeps ==
  ASSUME PInv, NEW d \in Divs, NEW k \in DOMAIN win.pending[d], Deliver(d, k)
  PROVE  PInv'
<1>1. PICK c : c = win.pending[d][k].answer
  OBVIOUS
<1>2. PICK x : x = IF HasDiv(win, d) THEN Fill(Arrived(d, k), d, c) ELSE Arrived(d, k)
  OBVIOUS
<1>3. /\ c # Blank /\ session' = session /\ habit' = habit
      /\ win' = IF c.what = "success"
                THEN [LoginSuccess(x) EXCEPT !.login = IF c.by.n > @ THEN c.by.n ELSE @]
                ELSE x
  BY <1>1, <1>2 DEF Deliver
<1>4. WindowInv(x, session) /\ \A e \in Divs : DivInv(x, e)
  <2>1. CASE HasDiv(win, d)
    BY <1>1, <1>2, <1>3, <2>1, DeliverFills
  <2>2. CASE ~HasDiv(win, d)
    BY <1>2, <2>2, DeliverDrops
  <2> QED BY <2>1, <2>2
<1>5. c.by.n \in 1..MaxSessions /\ c.by.n <= session.n
  <2>1. c \in Contents
    BY <1>1, <1>3, DeliverFills
  <2>2. Answerable(d, win.pending[d][k], session)
    BY DEF PInv, WindowInv
  <2> QED BY <1>1, <1>3, <2>1, <2>2 DEF Contents, Sessions, Answerable
<1>6. session \in Sessions /\ habit \in Habits
  BY DEF PInv
<1>7. CASE c.what = "success"
  <2>1. PICK y : y = [LoginSuccess(x) EXCEPT !.login = IF c.by.n > @ THEN c.by.n ELSE @]
    OBVIOUS
  <2>2. WindowInv(y, session) /\ \A e \in Divs : DivInv(y, e)
    BY <1>4, <1>5, <1>6, <2>1, LoginKeeps
  <2>3. win' = y
    BY <1>3, <1>7, <2>1
  <2> QED BY <1>3, <1>6, <2>2, <2>3 DEF PInv
<1>8. CASE c.what # "success"
  <2>1. win' = x
    BY <1>3, <1>8
  <2> QED BY <1>3, <1>4, <1>6, <2>1 DEF PInv
<1> QED BY <1>7, <1>8

-----------------------------------------------------------------------------
(* What the user does *)

\* Windows that differ in what no invariant is about, or in one div.
LEMMA AskedSound ==
  ASSUME PInv, NEW w \in Windows, NEW d \in Divs, NEW what \in Texts,
         WindowInv(w, session),
         \A e \in Divs \ {d} : DivInv(w, e),
         d = "row" => w.body["table"] # Blank /\ what = w.body["table"].what
  PROVE  /\ WindowInv(Ask(w, d, what), session)
         /\ \A e \in Divs : DivInv(Ask(w, d, what), e)
<1>1. WindowInv(Ask(w, d, what), session)
  BY AskWindow DEF PInv
<1>2. ASSUME NEW e \in Divs PROVE DivInv(Ask(w, d, what), e)
  <2>1. CASE e = d
    BY <2>1, AskHere
  <2>2. CASE e # d
    BY <2>2, AskElsewhere
  <2> QED BY <2>1, <2>2
<1> QED BY <1>1, <1>2

\* A window and nothing else changes.
LEMMA StepSound ==
  ASSUME PInv, NEW w, win' = w, session' = session, habit' = habit,
         WindowInv(w, session), \A e \in Divs : DivInv(w, e)
  PROVE  PInv'
BY DEF PInv

LEMMA PagesKeep ==
  ASSUME PInv, NEW p \in Pages, SwitchToPage(p)
  PROVE  PInv'
<1>1. session \in Sessions /\ WindowInv(win, session) /\ \A e \in Divs : DivInv(win, e)
  BY DEF PInv
<1>2. PICK w : w = LoadPage(win, p)
  OBVIOUS
<1>3. WindowInv(w, session) /\ \A e \in Divs : DivInv(w, e)
  BY <1>1, <1>2, LoadPageKeeps
<1>4. win' = w /\ session' = session /\ habit' = habit
  BY <1>2 DEF SwitchToPage, May
<1> QED BY <1>3, <1>4, StepSound

LEMMA MiscKeeps ==
  ASSUME PInv, NEW url \in Urls, ShowMiscPage(url)
  PROVE  PInv'
<1>1. /\ win \in Windows /\ session \in Sessions /\ WindowInv(win, session)
      /\ \A e \in Divs : DivInv(win, e)
      /\ "misc" \in Divs /\ url \in Texts
  BY DEF PInv, WindowInv, Divs, Texts
<1>2. PICK w : w = [win EXCEPT !.shown = "misc"]
  OBVIOUS
<1>3. /\ w \in Windows /\ w.flag = win.flag /\ w.body = win.body /\ w.pending = win.pending
      /\ w.open = win.open /\ w.collapsed = win.collapsed /\ w.login = win.login
      /\ w.wanted = win.wanted /\ w.overlapped = win.overlapped /\ w.failed = win.failed
  BY <1>1, <1>2 DEF Windows
<1>4. WindowInv(w, session)
  BY <1>1, <1>3, WindowSame DEF WindowInv
<1>5. ASSUME NEW e \in Divs PROVE DivInv(w, e)
  BY <1>1, <1>3, DivSame
<1>6. PICK x : x = Ask(w, "misc", url)
  OBVIOUS
<1>7. WindowInv(x, session) /\ \A e \in Divs : DivInv(x, e)
  BY <1>1, <1>3, <1>4, <1>5, <1>6, AskedSound
<1>8. win' = x /\ session' = session /\ habit' = habit
  BY <1>2, <1>6 DEF ShowMiscPage, May
<1> QED BY <1>7, <1>8, StepSound

\* The popup alone is cleared, shown or hidden.
LEMMA PopupSound ==
  ASSUME PInv, NEW w \in Windows,
         w.flag = win.flag, w.pending = win.pending, w.collapsed = win.collapsed,
         w.login = win.login, w.overlapped = win.overlapped, w.failed = win.failed,
         \A e \in Divs \ {"popup"} : w.body[e] = win.body[e] /\ w.wanted[e] = win.wanted[e]
  PROVE  WindowInv(w, session) /\ \A e \in Divs \ {"popup"} : DivInv(w, e)
<1>1. /\ win \in Windows /\ session \in Sessions /\ WindowInv(win, session)
      /\ \A e \in Divs : DivInv(win, e)
  BY DEF PInv, WindowInv
<1>2. "row" \in Divs \ {"popup"} /\ "table" \in Divs \ {"popup"}
  BY DEF Divs
<1>3. WindowInv(w, session)
  BY <1>1, <1>2, WindowSame DEF WindowInv
<1>4. ASSUME NEW e \in Divs \ {"popup"} PROVE DivInv(w, e)
  <2>1. /\ w.body[e] = win.body[e] /\ w.wanted[e] = win.wanted[e]
        /\ w.body["table"] = win.body["table"] /\ DivInv(win, e)
    BY <1>1, <1>2
  <2> QED BY <1>1, <2>1, DivSame
<1> QED BY <1>3, <1>4

LEMMA DialogKeeps ==
  ASSUME PInv, NEW dialog \in {"login", "profile"}, ShowFloatingPopup(dialog)
  PROVE  PInv'
<1>1. win \in Windows /\ "popup" \in Divs /\ dialog \in Texts
  BY DEF PInv, WindowInv, Divs, Texts
<1>2. PICK b : b = [win.body EXCEPT !["popup"] = Blank]
  OBVIOUS
<1>3. /\ b \in [Divs -> Contents] /\ \A e \in Divs \ {"popup"} : b[e] = win.body[e]
  BY <1>1, <1>2, BlankContent DEF Windows
<1>4. PICK w : w = [win EXCEPT !.open = TRUE, !.body = b]
  OBVIOUS
<1>5. /\ w \in Windows /\ w.flag = win.flag /\ w.body = b /\ w.pending = win.pending
      /\ w.collapsed = win.collapsed /\ w.login = win.login
      /\ w.wanted = win.wanted /\ w.overlapped = win.overlapped /\ w.failed = win.failed
  BY <1>1, <1>3, <1>4 DEF Windows
<1>6. WindowInv(w, session) /\ \A e \in Divs \ {"popup"} : DivInv(w, e)
  BY <1>3, <1>5, PopupSound
<1>7. PICK x : x = Ask(w, "popup", dialog)
  OBVIOUS
<1>8. WindowInv(x, session) /\ \A e \in Divs : DivInv(x, e)
  BY <1>1, <1>5, <1>6, <1>7, AskedSound
<1>9. win' = x /\ session' = session /\ habit' = habit
  BY <1>1, <1>2, <1>4, <1>7 DEF ShowFloatingPopup, May, Windows
<1> QED BY <1>8, <1>9, StepSound

LEMMA CloseKeeps ==
  ASSUME PInv, ClosePopup
  PROVE  PInv'
<1>1. win \in Windows /\ "popup" \in Divs /\ DivInv(win, "popup")
  BY DEF PInv, WindowInv, Divs
<1>2. PICK b : b = [win.body EXCEPT !["popup"] = Blank]
  OBVIOUS
<1>3. PICK a : a = [win.wanted EXCEPT !["popup"] = ""]
  OBVIOUS
<1>4. /\ b \in [Divs -> Contents] /\ a \in [Divs -> Texts \cup {""}]
      /\ \A e \in Divs \ {"popup"} : b[e] = win.body[e] /\ a[e] = win.wanted[e]
  BY <1>1, <1>2, <1>3, BlankContent DEF Windows
<1>5. PICK w : w = [win EXCEPT !.open = FALSE, !.body = b, !.wanted = a]
  OBVIOUS
<1>6. /\ w \in Windows /\ w.flag = win.flag /\ w.body = b /\ w.pending = win.pending
      /\ w.open = FALSE /\ w.collapsed = win.collapsed /\ w.login = win.login
      /\ w.wanted = a /\ w.overlapped = win.overlapped /\ w.failed = win.failed
  BY <1>1, <1>4, <1>5 DEF Windows
<1>7. WindowInv(w, session) /\ \A e \in Divs \ {"popup"} : DivInv(w, e)
  BY <1>4, <1>6, PopupSound
<1>8. DivInv(w, "popup")
  <2>1. ~Refreshed(w, "popup") /\ ~Shared(w, "popup")
    BY <1>6, PagesApart DEF Refreshed, Shared
  <2> QED BY <1>1, <1>6, <2>1 DEF DivInv
<1>9. win' = w /\ session' = session /\ habit' = habit
  BY <1>1, <1>2, <1>3, <1>5 DEF ClosePopup, May, Windows
<1> QED BY <1>7, <1>8, <1>9, StepSound

LEMMA TimerKeeps ==
  ASSUME PInv, HideFloatingPopup
  PROVE  PInv'
<1>1. win \in Windows /\ "popup" \in Divs /\ DivInv(win, "popup")
  BY DEF PInv, WindowInv, Divs
<1>2. PICK w : w = [win EXCEPT !.timer = FALSE, !.open = FALSE]
  OBVIOUS
<1>3. /\ w \in Windows /\ w.flag = win.flag /\ w.body = win.body /\ w.pending = win.pending
      /\ w.open = FALSE /\ w.collapsed = win.collapsed /\ w.login = win.login
      /\ w.wanted = win.wanted /\ w.overlapped = win.overlapped /\ w.failed = win.failed
  BY <1>1, <1>2 DEF Windows
<1>4. WindowInv(w, session) /\ \A e \in Divs \ {"popup"} : DivInv(w, e)
  BY <1>3, PopupSound
<1>5. DivInv(w, "popup")
  <2>1. ~Refreshed(w, "popup") /\ ~Shared(w, "popup")
    BY <1>3, PagesApart DEF Refreshed, Shared
  <2> QED BY <1>1, <1>3, <2>1 DEF DivInv
<1>6. win' = w /\ session' = session /\ habit' = habit
  BY <1>2 DEF HideFloatingPopup
<1> QED BY <1>4, <1>5, <1>6, StepSound

LEMMA SubmitKeeps ==
  ASSUME PInv, SubmitLogin
  PROVE  PInv'
<1>1. /\ win \in Windows /\ WindowInv(win, session) /\ \A e \in Divs : DivInv(win, e)
      /\ "popup" \in Divs /\ "submit" \in Texts
  BY DEF PInv, WindowInv, Divs, Texts
<1>2. PICK x : x = Ask(win, "popup", "submit")
  OBVIOUS
<1>3. WindowInv(x, session) /\ \A e \in Divs : DivInv(x, e)
  BY <1>1, <1>2, AskedSound
<1>4. win' = x /\ session' = session /\ habit' = habit
  BY <1>2 DEF SubmitLogin, May
<1> QED BY <1>3, <1>4, StepSound

\* The table is emptied, and its row with it, before it is asked for.
LEMMA SearchKeeps ==
  ASSUME PInv, NEW params \in Searches, SubmitMainScreenForm(params)
  PROVE  PInv'
<1>1. /\ win \in Windows /\ session \in Sessions /\ WindowInv(win, session)
      /\ \A e \in Divs : DivInv(win, e)
      /\ "table" \in Divs /\ params \in Texts
  BY DEF PInv, WindowInv, Divs, Texts
<1>2. PICK w : w = Fill(win, "table", Blank)
  OBVIOUS
<1>3. WindowInv(w, session) /\ \A e \in Divs \ {"table"} : DivInv(w, e)
  BY <1>1, <1>2, BlankContent, FillWindow, FillElsewhere
<1>4. PICK x : x = Ask(w, "table", params)
  OBVIOUS
<1>5. WindowInv(x, session) /\ \A e \in Divs : DivInv(x, e)
  BY <1>1, <1>3, <1>4, AskedSound DEF WindowInv
<1>6. win' = x /\ session' = session /\ habit' = habit
  BY <1>2, <1>4 DEF SubmitMainScreenForm, May
<1> QED BY <1>5, <1>6, StepSound

LEMMA ToggleKeeps ==
  ASSUME PInv, ToggleTreePerformanceDiv
  PROVE  PInv'
<1>1. /\ win \in Windows /\ session \in Sessions /\ WindowInv(win, session)
      /\ \A e \in Divs : DivInv(win, e)
      /\ "table" \in Divs /\ "row" \in Divs
  BY DEF PInv, WindowInv, Divs
<1>2. session' = session /\ habit' = habit /\ win.body["table"] # Blank
  BY DEF ToggleTreePerformanceDiv, May
<1>3. CASE win' = Ask(win, "row", win.body["table"].what)
  <2>1. win.body["table"].what \in Texts
    BY <1>1, <1>2 DEF Windows, Contents
  <2>2. PICK x : x = Ask(win, "row", win.body["table"].what)
    OBVIOUS
  <2>3. WindowInv(x, session) /\ \A e \in Divs : DivInv(x, e)
    BY <1>1, <1>2, <2>1, <2>2, AskedSound
  <2>4. win' = x
    BY <1>3, <2>2
  <2> QED BY <1>2, <2>3, <2>4, StepSound
<1>4. CASE win.body["row"] # Blank /\ win' = [win EXCEPT !.collapsed = ~@]
  <2>1. PICK w : w = [win EXCEPT !.collapsed = ~@]
    OBVIOUS
  <2>2. /\ w \in Windows /\ w.flag = win.flag /\ w.body = win.body /\ w.pending = win.pending
        /\ w.open = win.open /\ w.login = win.login
        /\ w.wanted = win.wanted /\ w.overlapped = win.overlapped /\ w.failed = win.failed
    BY <1>1, <2>1 DEF Windows
  <2>3. WindowInv(w, session)
    BY <1>1, <1>4, <2>2, WindowSame DEF WindowInv
  <2>4. ASSUME NEW e \in Divs PROVE DivInv(w, e)
    BY <1>1, <2>2, DivSame
  <2>5. win' = w
    BY <1>4, <2>1
  <2> QED BY <1>2, <2>3, <2>4, <2>5, StepSound
<1> QED BY <1>3, <1>4 DEF ToggleTreePerformanceDiv

LEMMA NextSession ==
  ASSUME session \in Sessions, session.n < MaxSessions,
         NEW s, \E in \in BOOLEAN : s = [n |-> session.n + 1, in |-> in]
  PROVE  s \in Sessions /\ session.n <= s.n
<1>1. session.n \in Nat /\ session.n + 1 \in 1..MaxSessions
  BY PageFlowAssumption DEF Sessions
<1>2. PICK in \in BOOLEAN : s = [n |-> session.n + 1, in |-> in]
  OBVIOUS
<1>3. s.n = session.n + 1
  BY <1>2
<1> QED BY <1>1, <1>2, <1>3 DEF Sessions

\* A new window begins with nothing that is older than it.
LEMMA ReloadKeeps ==
  ASSUME PInv, Reload
  PROVE  PInv'
<1>1. PICK s : s = session'
  OBVIOUS
<1>2. /\ s \in Sessions /\ habit' = habit
      /\ win' = NewWindow(HomePage(s), s)
  <2>1. /\ session.n < MaxSessions /\ habit' = habit
        /\ \E in \in BOOLEAN : s = [n |-> session.n + 1, in |-> in]
        /\ win' = NewWindow(HomePage(s), s)
    BY <1>1 DEF Reload
  <2> QED BY <2>1, NextSession DEF PInv
<1>3. HomePage(s) \in Pages
  BY PagesApart DEF HomePage
<1>4. PICK w : w = NewWindow(HomePage(s), s)
  OBVIOUS
<1>5. WindowInv(w, s) /\ \A d \in Divs : DivInv(w, d)
  BY <1>2, <1>3, <1>4, NewWindowSound
<1>6. win' = w
  BY <1>2, <1>4
<1> QED BY <1>1, <1>2, <1>5, <1>6 DEF PInv

\* Another session makes nothing older than it was.
LEMMA SessionKeeps ==
  ASSUME PInv, ChangeSession
  PROVE  PInv'
<1>1. PICK s : s = session'
  OBVIOUS
<1>2. s \in Sessions /\ session.n <= s.n /\ win' = win /\ habit' = habit
  <2>1. /\ session.n < MaxSessions /\ win' = win /\ habit' = habit
        /\ \E in \in BOOLEAN : s = [n |-> session.n + 1, in |-> in]
    BY <1>1 DEF ChangeSession
  <2> QED BY <2>1, NextSession DEF PInv
<1>3. /\ session.n \in Nat /\ s.n \in Nat
      /\ win \in Windows /\ win.login \in Nat /\ win.login <= session.n
  <2>1. session \in Sessions /\ win \in Windows /\ win.login <= session.n
    BY DEF PInv, WindowInv
  <2>2. \A t \in Sessions : t.n \in Nat
    BY DEF Sessions
  <2>3. win.login \in 1..MaxSessions
    BY <2>1 DEF Windows
  <2> QED BY <1>2, <2>1, <2>2, <2>3
<1>4. ASSUME NEW d \in Divs, NEW k \in DOMAIN win.pending[d]
      PROVE  Answerable(d, win.pending[d][k], s)
  <2>1. Answerable(d, win.pending[d][k], session)
    BY DEF PInv, WindowInv
  <2>2. win.pending[d] \in Seq(Requests) /\ k \in 1..Len(win.pending[d])
    BY <1>3, PendingType
  <2>3. win.pending[d][k] \in Requests
    BY <2>2
  <2>4. win.pending[d][k].answer \in Contents
    BY <2>3 DEF Requests
  <2>5. win.pending[d][k].answer # Blank => win.pending[d][k].answer.by.n \in Nat
    BY <2>4 DEF Contents, Sessions
  <2> QED BY <1>2, <1>3, <2>1, <2>5 DEF Answerable
<1>5. WindowInv(win, s)
  BY <1>2, <1>3, <1>4 DEF PInv, WindowInv
<1> QED BY <1>1, <1>2, <1>5 DEF PInv

-----------------------------------------------------------------------------
(* The theorems *)

LEMMA PInit ==
  Init => PInv
<1> SUFFICES ASSUME Init PROVE PInv
  OBVIOUS
<1>1. session \in Sessions /\ habit \in Habits
  BY PageFlowAssumption DEF Init, Sessions
<1>2. PICK p \in {HomePage(session)} \cup (Pages \cap habit) : win = NewWindow(p, session)
  BY DEF Init
<1>3. p \in Pages
  BY PagesApart DEF HomePage
<1>4. PICK w : w = NewWindow(p, session)
  OBVIOUS
<1>5. WindowInv(w, session) /\ \A d \in Divs : DivInv(w, d)
  BY <1>1, <1>3, <1>4, NewWindowSound
<1> QED BY <1>1, <1>2, <1>4, <1>5 DEF PInv

\* PInv is inductive.
LEMMA PStep ==
  PInv /\ [Next]_vars => PInv'
<1> SUFFICES ASSUME PInv, [Next]_vars PROVE PInv'
  OBVIOUS
<1>1. CASE UNCHANGED vars
  BY <1>1 DEF vars, PInv
<1>2. CASE User
  BY <1>2, PagesKeep, MiscKeeps, DialogKeeps, CloseKeeps, SubmitKeeps, SearchKeeps,
     ToggleKeeps, ReloadKeeps, SessionKeeps DEF User
<1>3. ASSUME NEW d \in Divs, Served(d) PROVE PInv'
  BY <1>3, ServedKeeps DEF Served
<1>4. ASSUME NEW d \in Divs, Ended(d) PROVE PInv'
  BY <1>4, DeliverKeeps, FailKeeps DEF Ended
<1>5. CASE HideFloatingPopup
  BY <1>5, TimerKeeps
<1> QED BY <1>1, <1>2, <1>3, <1>4, <1>5 DEF Next

\* PInv holds in every reachable state.
LEMMA PInvariance ==
  Spec => []PInv
BY PInit, PStep, PTL DEF Spec

\* A window's state is well typed, whatever answers come in which order.
THEOREM WindowTypes == Spec => []TypeOK
<1>1. PInv => TypeOK
  BY DEF PInv, WindowInv, TypeOK
<1> QED BY <1>1, PInvariance, PTL

\* Once a login is answered, no page that counts as loaded, nor the menu,
\* shows what was rendered in the session before it, however answers crossed.
THEOREM LoginsRefresh == Spec => []LoginRefreshes
<1>1. PInv => LoginRefreshes
  <2> SUFFICES ASSUME PInv, NEW d \in (Pages \ NeverReset) \cup {"toolbar"},
                      Quiet(d), d \in Pages => win.flag[d]
               PROVE  win.body[d].by.n >= win.login
    BY DEF LoginRefreshes
  <2>1. d \in Divs /\ Refreshed(win, d)
    BY PagesApart DEF Divs, Refreshed
  <2> QED BY <2>1 DEF PInv, DivInv, Quiet
<1> QED BY <1>1, PInvariance, PTL

\* A div that many requests share shows what was last asked of it, and an
\* expanded row belongs to the table it is in.
THEOREM LastAskedShown == Spec => []LastAskedIsShown
<1>1. PInv => LastAskedIsShown
  <2> SUFFICES ASSUME PInv PROVE LastAskedIsShown
    OBVIOUS
  <2>1. ASSUME NEW d \in {"misc", "toolbar", "table", "row"}, Quiet(d)
        PROVE  win.body[d].what \in AnswersTo(win.wanted[d])
    <3>1. d \in Divs /\ Shared(win, d)
      BY DEF Divs, Shared
    <3> QED BY <2>1, <3>1 DEF PInv, DivInv, Quiet
  <2>2. ASSUME Quiet("popup"), win.open
        PROVE  win.body["popup"].what \in AnswersTo(win.wanted["popup"])
    <3>1. "popup" \in Divs /\ Shared(win, "popup")
      BY <2>2 DEF Divs, Shared
    <3> QED BY <2>2, <3>1 DEF PInv, DivInv, Quiet
  <2>3. ASSUME Quiet("row"), win.body["row"] # Blank
        PROVE  win.body["row"].what = win.body["table"].what
    <3>1. "row" \in Divs
      BY DEF Divs
    <3> QED BY <2>3, <3>1 DEF PInv, DivInv, Quiet
  <2>4. win.collapsed => win.body["row"] # Blank
    BY DEF PInv, WindowInv
  <2> QED BY <2>1, <2>2, <2>3, <2>4 DEF LastAskedIsShown
<1> QED BY <1>1, PInvariance, PTL
=============================================================================
