----------------------------- MODULE GridSearch -----------------------------
(***************************************************************************)
(* Searching a grid page: the filter form and the grid that                *)
(* JqGridTableBuilder renders, the scripts of metroWL/js/global.js that    *)
(* fill, clear and read the form, and JqGridDataProviderServlet with       *)
(* JqGridManagerBean, which make a query of the filter, run it, and keep   *)
(* the filter as the user's search "LastAccessed".                         *)
(*                                                                         *)
(* The grid (jqGrid, vendored) loads one page at a time.  It asks the form *)
(* for its filter whenever it loads, also when the user turns a page, and  *)
(* forgets a load that is asked for while another is under way.  A filter  *)
(* set in jqGrid's own search dialog goes before the form's.               *)
(*                                                                         *)
(* The table has a text column, a timestamp, a choice and a number that is *)
(* searched for as such.  A time is the number of half days since day 0,   *)
(* so the even ones are midnights.  What a user types has no quotes, and   *)
(* no blanks but for an input that is nothing else; a number is typed as   *)
(* the table has it.                                                       *)
(***************************************************************************)
EXTENDS Integers, Sequences, Functions, FiniteSets

CONSTANTS
    Texts,      \* what inputs and rules can hold
    Table,      \* the rows, in the order the grid shows them
    Begins(_),  \* the names that begin with a text
    Calendar,   \* the days one can type, in their order
    Today,      \* one of them
    Default,    \* the rows the table's default filter selects
    Order,      \* the inputs in the order of the form
    Options,    \* what the form offers for the choice
    FirstForm,  \* the form as it is rendered
    Forms,      \* forms users type
    Dialogs,    \* filters users compose in jqGrid's dialog
    Offered,    \* searches that may have been kept when the page is rendered
    Habits,     \* what users do besides searching, for each of them
    PageSize    \* rowNum

Inputs == {"text", "min", "max", "choice", "unique"}
Empty == ""
Blank == " "
Null == "null"  \* what a select has when its value is none of its options
NoDate == "NaN/NaN/NaN"  \* what a day after or before no date is

\* The operations of a column that are modelled.
Operations == [name |-> {"bw", "eq", "ne"}, time |-> {"ge", "le", "ne"},
               choice |-> {"eq"}, number |-> {"eq", "ne"}]

Rules == {rule \in [field : DOMAIN Operations, op : {"bw", "eq", "ne", "ge", "le"},
                    data : Texts] :
            rule.op \in Operations[rule.field]}

\* A filter as it is sent: rules, and groups of rules (of jqGrid's dialog).
Filters == [op : {"none", "AND", "OR"}, rules : Seq(Rules),
            groups : Seq([op : {"AND", "OR"}, rules : Seq(Rules)])]

NoFilter == [op |-> "none", rules |-> <<>>, groups |-> <<>>]

ASSUME GridSearchAssumption ==
    /\ {Empty, Blank, "+", Null, NoDate} \subseteq Texts
    /\ Table \in Seq([name : Texts, time : Nat, choice : Texts, number : Texts])
    /\ Default \subseteq DOMAIN Table
    /\ Calendar \in Seq(Texts) /\ Today \in Range(Calendar)
    /\ Order \in Seq(Inputs) /\ Range(Order) = Inputs
    /\ Forms \cup {FirstForm} \subseteq [Inputs -> Texts]
    /\ \A filter \in Dialogs : filter \in Filters /\ filter.op # "none"
    /\ Habits \subseteq SUBSET {"type", "clear", "date", "saved", "dialog"}
    /\ PageSize \in Nat \ {0}

VARIABLES
    form,       \* the inputs of the form
    dialog,     \* postData.filters: the filter of jqGrid's dialog
    grid,       \* the page number, the last page and the rows on display
    request,    \* the load under way, if its stage is not "none"
    kept,       \* the logged in user's search "LastAccessed"
    offered,    \* the search the page offers, and whether it is picked
    asked,      \* history: what the load last sent was to find
    habit       \* what the user does (constant in a behaviour)

vars == <<form, dialog, grid, request, kept, offered, asked, habit>>

Rows == DOMAIN Table
DayNumber(day) == CHOOSE n \in DOMAIN Calendar : Calendar[n] = day

-----------------------------------------------------------------------------
(* The form *)

\* The column and the operation of an input's rule.
Field == [text |-> "name", min |-> "time", max |-> "time",
          choice |-> "choice", unique |-> "number"]
Op == [text |-> "bw", min |-> "ge", max |-> "le", choice |-> "eq", unique |-> "eq"]

Cleared == [i \in Inputs |-> Empty]

\* Mutant: a date that is a maximum is sent like one that is a minimum.
RuleAtLeast(i, data) ==
    [field |-> Field[i], op |-> IF i = "max" THEN "ge" ELSE Op[i], data |-> data]

Rule(i, data) == [field |-> Field[i], op |-> Op[i], data |-> data]

\* The loop over the inputs: those that hold something have a rule.
RulesOf(f) ==
    LET rules[n \in 0..Len(Order)] ==
          IF n = 0 THEN <<>>
          ELSE IF f[Order[n]] = Empty THEN rules[n - 1]
          ELSE Append(rules[n - 1], Rule(Order[n], f[Order[n]]))
    IN  rules[Len(Order)]

\* getFormToJsonFilter
FormToJsonFilter(f) ==
    IF RulesOf(f) = <<>> THEN NoFilter
    ELSE [op |-> "AND", rules |-> RulesOf(f), groups |-> <<>>]

\* A search is kept URL-encoded in the page, and unescape leaves the plus signs.
Unescaped(data) == IF data = Blank THEN "+" ELSE data

\* Mutant: one date of a search fills both inputs.
InputsOfField(rule) == {i \in Inputs \ {"unique"} : rule.field = Field[i]}

\* The inputs populateSavedSearch finds for a rule: none for one of a column
\* that is searched for as such, whose input has another id.
InputsOf(rule) ==
    {i \in Inputs \ {"unique"} :
        /\ rule.field = Field[i]
        /\ rule.op = Op[i] \/ {rule.op, Op[i]} \subseteq {"bw", "eq"}}

\* What an input shows of a rule's data.
Shown(i, data) ==
    IF i = "choice" /\ data \notin Options THEN Null ELSE Unescaped(data)

\* populateSavedSearch: over what the form holds already, of several rules the
\* last one; groups are ignored.
Restored(f, filter) ==
    [i \in Inputs |->
        LET found == {k \in DOMAIN filter.rules : i \in InputsOf(filter.rules[k])}
            last == CHOOSE k \in found : \A l \in found : l <= k
        IN  IF found = {} THEN f[i] ELSE Shown(i, filter.rules[last].data)]

-----------------------------------------------------------------------------
(* The query *)

\* A row satisfies a rule, as the SQL says it.  The end of a day is taken to be
\* the midnight after it, included.
Sat(r, rule) ==
    LET row == Table[r]
    IN  CASE rule.field = "name" /\ rule.op = "bw" -> row.name \in Begins(rule.data)
          [] rule.field = "name" /\ rule.op = "eq" -> row.name = rule.data
          [] rule.field = "name" /\ rule.op = "ne" -> row.name # rule.data
          [] rule.field = "time" /\ rule.op = "ge" ->
                row.time >= 2 * DayNumber(rule.data)
          [] rule.field = "time" /\ rule.op = "le" ->
                row.time <= 2 * (DayNumber(rule.data) + 1)
          [] rule.field = "choice" -> row.choice = rule.data
          [] rule.field = "number" -> row.number = rule.data

\* The positions of the rules that are not blank; the others are left out.
Given(rules) == {k \in DOMAIN rules : rules[k].data \notin {Empty, Blank}}

\* A text that is no date is passed on as it is, and the operation "ne" makes
\* " ! =" of a time or a number; SQL has neither.
Comparable(rule) ==
    /\ rule.field = "time" => rule.op # "ne" /\ rule.data \in Range(Calendar)
    /\ rule.field = "number" => rule.op # "ne"

\* Rules after a blank first one make SQL that begins with an operator.
Malformed(rules) ==
    \/ Given(rules) # {} /\ 1 \notin Given(rules)
    \/ \E k \in Given(rules) : ~Comparable(rules[k])

\* The database refuses the query.
Refused(filter) ==
    \/ Malformed(filter.rules)
    \/ \E g \in DOMAIN filter.groups : Malformed(filter.groups[g].rules)

\* What was kept before was answered, as KeptIsAnswered says of this page.
ASSUME OfferedAssumption ==
    \A filter \in Offered : filter \in Filters /\ ~Refused(filter)

Joined(op, r, rules) ==
    \/ Given(rules) = {}
    \/ op = "AND" /\ \A k \in Given(rules) : Sat(r, rules[k])
    \/ op = "OR" /\ \E k \in Given(rules) : Sat(r, rules[k])

\* getFilterSql: groups are appended with AND, which binds to the last rule.
Selects(filter, r) ==
    \/ /\ Joined(filter.op, r, filter.rules)
       /\ \A g \in DOMAIN filter.groups :
            Joined(filter.groups[g].op, r, filter.groups[g].rules)
    \/ /\ filter.op = "OR"
       /\ \E k, last \in Given(filter.rules) : k < last /\ Sat(r, filter.rules[k])

\* getJsonData: the rows a filter finds.
Found(filter) ==
    IF filter = NoFilter THEN Default ELSE {r \in Rows : Selects(filter, r)}

\* The rows of page n of those found.
Page(rows, n) ==
    {r \in rows : LET before == Cardinality({s \in rows : s < r})
                  IN  PageSize * (n - 1) <= before /\ before < PageSize * n}

Pages(rows) == (Cardinality(rows) + PageSize - 1) \div PageSize

-----------------------------------------------------------------------------
(* What a search is to find, whatever is made of it *)

\* days are the days the row counts for.
Meets(row, days, field, op, data) ==
    CASE field = "name" /\ op = "bw" -> row.name \in Begins(data)
      [] field = "name" /\ op = "eq" -> row.name = data
      [] field = "name" /\ op = "ne" -> row.name # data
      [] field = "time" /\ op = "ge" -> \E day \in days : day >= DayNumber(data)
      [] field = "time" /\ op = "le" -> \E day \in days : day <= DayNumber(data)
      [] field = "time" /\ op = "ne" -> \E day \in days : day # DayNumber(data)
      [] field = "choice" -> row.choice = data
      [] field = "number" /\ op = "eq" -> row.number = data
      [] field = "number" /\ op = "ne" -> row.number # data

\* A form asks for the rows that meet all of its inputs that are not blank.
MeetsForm(row, days, f) ==
    \A i \in Inputs :
        f[i] \notin {Empty, Blank} => Meets(row, days, Field[i], Op[i], f[i])

\* A dialog asks for the rows that meet all, or some, of its rules that are not
\* blank, and its groups.
MeetsRules(row, days, op, rules) ==
    LET met == {k \in Given(rules) :
                  Meets(row, days, rules[k].field, rules[k].op, rules[k].data)}
    IN  IF op = "AND" \/ Given(rules) = {} THEN met = Given(rules) ELSE met # {}

MeetsDialog(row, days, filter) ==
    /\ MeetsRules(row, days, filter.op, filter.rules)
    /\ \A g \in DOMAIN filter.groups :
         MeetsRules(row, days, filter.groups[g].op, filter.groups[g].rules)

\* A filter of the dialog goes before the form.
MeetsSearch(row, days, f, d) ==
    IF d # NoFilter THEN MeetsDialog(row, days, d) ELSE MeetsForm(row, days, f)

Day(r) == Table[r].time \div 2

NothingAsked(f, d) == d = NoFilter /\ f = Cleared

Wanted(f, d) ==
    IF NothingAsked(f, d) THEN Default
    ELSE {r \in Rows : MeetsSearch(Table[r], {Day(r)}, f, d)}

\* Rows of a midnight, if it counts for the day before as well.
Late(f, d) ==
    IF NothingAsked(f, d) THEN {}
    ELSE {r \in Rows : /\ Table[r].time % 2 = 0
                       /\ MeetsSearch(Table[r], {Day(r) - 1, Day(r)}, f, d)}

\* Groups that are alternatives to the rules are joined to them all the same:
\* nothing is said of such a filter.
OrGroups(filter) == filter.op = "OR" /\ filter.groups # <<>>

\* Saved searches the form can hold as they are: made by a form, of other
\* inputs than one with its own id, without blanks, of a choice still offered.
Restorable(filter) ==
    /\ filter.op = "AND" /\ filter.rules # <<>> /\ filter.groups = <<>>
    /\ \A k \in DOMAIN filter.rules :
         LET rule == filter.rules[k]
         IN  /\ \E i \in Inputs \ {"unique"} : rule = Rule(i, rule.data)
             /\ rule.data \notin {Empty, Blank}
             /\ rule.field = "choice" => rule.data \in Options
             /\ \A j \in DOMAIN filter.rules :
                  filter.rules[j].field = rule.field /\ filter.rules[j].op = rule.op
                    => j = k

-----------------------------------------------------------------------------
NoRequest == [stage |-> "none", filter |-> NoFilter, page |-> 0, rows |-> {}]

\* What a load is to find: the rows of the search, if that is known, and the
\* search that was picked, if the form showed nothing else.
Unknown ==
    [known |-> FALSE, rows |-> {}, late |-> {}, page |-> 0, picked |-> NoFilter]

\* populate: nothing happens while a load is under way, nor if the form cannot
\* be read.  picked is the search just picked into an empty form.
Load(f, d, page, picked) ==
    /\ form' = f
    /\ dialog' = d
    /\ grid' = [grid EXCEPT !.page = page]
    /\ IF request.stage # "none" \/ f["choice"] = Null
       THEN UNCHANGED <<request, asked>>
       ELSE /\ request' = [stage |-> "sent", page |-> page, rows |-> {},
                           filter |-> IF d # NoFilter THEN d ELSE FormToJsonFilter(f)]
            /\ asked' = [known |-> ~OrGroups(d), page |-> page,
                         picked |-> IF d = NoFilter THEN picked ELSE NoFilter,
                         rows |-> Wanted(f, d), late |-> Late(f, d)]
    /\ UNCHANGED <<kept, habit>>

Init ==
    /\ habit \in Habits
    /\ form = FirstForm
    /\ dialog = NoFilter
    /\ grid = [page |-> 1, last |-> 0, rows |-> {}]
    /\ kept \in Offered
    /\ offered = [filter |-> kept, picked |-> FALSE]
    /\ request = [NoRequest EXCEPT !.stage = "sent", !.page = 1,
                                   !.filter = FormToJsonFilter(FirstForm)]
    /\ asked = [Unknown EXCEPT !.known = TRUE, !.page = 1,
                               !.rows = Wanted(FirstForm, NoFilter),
                               !.late = Late(FirstForm, NoFilter)]

-----------------------------------------------------------------------------
(* The user *)

Type(f) ==
    /\ "type" \in habit
    /\ form' = f
    /\ UNCHANGED <<dialog, grid, request, kept, offered, asked, habit>>

\* clearForm; the list of searches is cleared, too.
ClearForm ==
    /\ "clear" \in habit
    /\ form' = Cleared
    /\ offered' = [offered EXCEPT !.picked = FALSE]
    /\ UNCHANGED <<dialog, grid, request, kept, asked, habit>>

\* jqGridFormChangeDate: today, or the day before or after the first date.
ChangeDate ==
    LET from == IF form["min"] = Empty THEN Today ELSE form["min"]
        SetDate(day) ==
            form' = [i \in Inputs |-> IF i \in {"min", "max"} THEN day ELSE form[i]]
    IN  /\ "date" \in habit
        /\ \/ SetDate(Today)
           \/ \E n \in DOMAIN Calendar :
                /\ Calendar[n] = from
                /\ \E to \in {n - 1, n + 1} \cap DOMAIN Calendar : SetDate(Calendar[to])
           \/ from \notin Range(Calendar) /\ SetDate(NoDate)
        /\ UNCHANGED <<dialog, grid, request, kept, offered, asked, habit>>

\* The Search button: submitJqGridFilter; the grid stays on its page.
SubmitJqGridFilter ==
    /\ Load(form, dialog, grid.page, NoFilter)
    /\ UNCHANGED offered

PopulateSavedSearch ==
    /\ "saved" \in habit
    /\ offered.filter # NoFilter /\ ~offered.picked
    /\ offered' = [offered EXCEPT !.picked = TRUE]
    /\ Load(Restored(form, offered.filter), dialog, grid.page,
            IF form = Cleared THEN offered.filter ELSE NoFilter)

\* Mutant: the pager's button for the page before is always enabled.
TurnPageBack ==
    /\ \/ grid.page < grid.last /\ Load(form, dialog, grid.page + 1, NoFilter)
       \/ Load(form, dialog, grid.page - 1, NoFilter)
    /\ UNCHANGED offered

\* The buttons of the pager.
TurnPage ==
    /\ \/ grid.page < grid.last /\ Load(form, dialog, grid.page + 1, NoFilter)
       \/ 1 < grid.page /\ 1 < grid.last /\ Load(form, dialog, grid.page - 1, NoFilter)
    /\ UNCHANGED offered

\* The grid's search dialog, and its reset and refresh buttons.
FilterByDialog(filter) ==
    /\ "dialog" \in habit
    /\ Load(form, filter, 1, NoFilter)
    /\ UNCHANGED offered

-----------------------------------------------------------------------------
(* The server and the network *)

\* Mutant: the search is kept before it is known to work.
QueryAndKeep ==
    /\ request.stage = "sent"
    /\ request' = IF Refused(request.filter)
                  THEN [request EXCEPT !.stage = "refused"]
                  ELSE [request EXCEPT !.stage = "found", !.rows = Found(request.filter)]
    /\ kept' = IF request.filter = NoFilter THEN kept ELSE request.filter
    /\ UNCHANGED <<form, dialog, grid, offered, asked, habit>>

\* getJsonData
Query ==
    /\ request.stage = "sent"
    /\ request' = IF Refused(request.filter)
                  THEN [request EXCEPT !.stage = "refused"]
                  ELSE [request EXCEPT !.stage = "found", !.rows = Found(request.filter)]
    /\ UNCHANGED <<form, dialog, grid, kept, offered, asked, habit>>

\* getJsonDataOutput keeps a search that was answered, in a user's session.
KeepSearch ==
    /\ request.stage = "found"
    /\ request' = [request EXCEPT !.stage = "answered"]
    /\ kept' \in IF request.filter = NoFilter THEN {kept} ELSE {kept, request.filter}
    /\ UNCHANGED <<form, dialog, grid, offered, asked, habit>>

\* The answer is shown.
Show ==
    /\ request.stage = "answered"
    /\ grid' = [page |-> request.page, last |-> Pages(request.rows),
                rows |-> Page(request.rows, request.page)]
    /\ request' = NoRequest
    /\ UNCHANGED <<form, dialog, kept, offered, asked, habit>>

\* No answer, or one without rows: the grid stays as it is.
Fail ==
    /\ request.stage \in {"sent", "refused", "answered"}
    /\ request' = NoRequest
    /\ asked' = Unknown
    /\ UNCHANGED <<form, dialog, grid, kept, offered, habit>>

Next ==
    \/ \E f \in Forms : Type(f)
    \/ ClearForm \/ ChangeDate
    \/ SubmitJqGridFilter \/ PopulateSavedSearch \/ TurnPage
    \/ \E filter \in Dialogs \cup {NoFilter} : FilterByDialog(filter)
    \/ Query \/ KeepSearch \/ Show \/ Fail

Spec == Init /\ [][Next]_vars

-----------------------------------------------------------------------------
(* What must be true of a search *)

TypeOK ==
    /\ form \in [Inputs -> Texts]
    /\ dialog \in Dialogs \cup {NoFilter}
    /\ grid \in [page : Nat \ {0}, last : Nat, rows : SUBSET Rows]
    /\ request \in [stage : {"none", "sent", "refused", "found", "answered"},
                    filter : Filters, page : Nat, rows : SUBSET Rows]
    /\ request.page = 0 <=> request.stage = "none"
    /\ kept \in Filters
    /\ offered \in [filter : Filters, picked : BOOLEAN]
    /\ asked \in [known : BOOLEAN, rows : SUBSET Rows, late : SUBSET Rows,
                  page : Nat, picked : Filters]

\* The grid shows a page of the rows that meet all that the form, or the dialog
\* before it, asked for when the load was sent, whatever was typed and clicked
\* since; besides them at most rows of the midnight after the last day.
GridShowsSearch ==
    request.stage = "none" /\ asked.known =>
        \E late \in SUBSET asked.late :
            grid.rows = Page(asked.rows \cup late, asked.page)

\* A saved search that is picked into an empty form shows what it found when it
\* was saved: the form sends the filter it was made from.
RestoredIsSaved ==
    request.stage = "none" /\ asked.known
        /\ asked.picked # NoFilter /\ Restorable(asked.picked) =>
            grid.rows = Page(Found(asked.picked), asked.page)

\* A search is kept only when it was answered: a page never offers one that the
\* database refuses.
KeptIsAnswered == ~Refused(kept)
=============================================================================
