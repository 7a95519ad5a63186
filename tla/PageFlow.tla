------------------------------ MODULE PageFlow ------------------------------
(***************************************************************************)
(* One browser window of the site: metroWL/js/page-flow.js and the part of *)
(* metroWL/js/global.js that fills divs, with the JSPs that call them and  *)
(* the actions that keep the user of the HTTP session.                     *)
(*                                                                         *)
(* Every page is a div that is filled by an asynchronous request and then  *)
(* kept; a flag per page says not to ask again.  Dialogs share one popup,  *)
(* miscellaneous pages one div, results of a search one table whose rows   *)
(* expand.  The server handles a request at some time with the session as  *)
(* it is then; answers arrive in any order, or not at all.  The script of  *)
(* a successful login resets the flags, shows the dashboard, asks for the  *)
(* menu and closes the popup a second later.                               *)
(*                                                                         *)
(* What a div shows is kept as what was asked for and in which session it  *)
(* was rendered.                                                           *)
(***************************************************************************)
EXTENDS Naturals, Sequences, SequencesExt

CONSTANTS
    Pages,          \* the pages of this instance, of those the site has
    Searches,       \* the forms users submit to fill the table
    Urls,           \* the miscellaneous pages users open
    Habits,         \* what users do, for each of them: the pages they visit
                    \* and the other operations they use
    MaxOutstanding, \* bound on the requests under way for each div
    MaxSessions     \* bound on the changes of the session's user

AllPages ==
    {"PublicHomePage", "UserHomePage", "ChartPage", "QuickChartPage",
     "DashboardPage", "ScreenerPage", "NewsPage", "AchieversPage",
     "CandlePatternPage", "CandlePatternScripPage", "HihgstockChartPage",
     "IntradaySnapshotPage", "HighchartsEODPage", "IntradayBTSTPage",
     "IndexViewPage", "TreePerformancePage", "FinancialResultPage",
     "WatchlistDiffViewPage", "ScripsHistoryPage", "BubbleGraphPage"}

ASSUME PageFlowAssumption ==
    /\ Pages \subseteq AllPages
    /\ {"DashboardPage", "PublicHomePage"} \subseteq Pages
    /\ "CandlePatternPage" \in Pages => "AchieversPage" \in Pages
    /\ Habits \subseteq
         SUBSET (Pages \cup {"misc", "dialog", "table", "reload", "elsewhere"})
    /\ MaxSessions \in Nat \ {0}

VARIABLES
    session,    \* the HTTP session: how often its user changed, if there is one
    win,        \* the window
    habit       \* what its user does (constant in a behaviour)

vars == <<session, win, habit>>

Divs == Pages \cup {"misc", "toolbar", "popup", "table", "row"}

Sessions == [n : 1..MaxSessions, in : BOOLEAN]

\* What a div shows; the script of a successful login is content, too.
Texts == Pages \cup Urls \cup Searches
            \cup {"menu", "login", "profile", "submit", "success"}
Blank == [what |-> "", by |-> [n |-> 1, in |-> FALSE]]
Contents == [what : Texts, by : Sessions] \cup {Blank}

\* A request and its answer, Blank until the server has made it.
Requests == [what : Texts, answer : Contents]

-----------------------------------------------------------------------------
(* The pages *)

\* Loaded each time they are shown: no flag, or one that is never set.
AlwaysLoads == {"QuickChartPage", "HihgstockChartPage", "HighchartsEODPage",
                "TreePerformancePage", "FinancialResultPage"}

\* The flag the loader of page p tests: one tests its neighbour's.
Tested(p) == IF p = "CandlePatternPage" THEN "AchieversPage" ELSE p

\* The flag resetAllPageLoadStatus misses: it assigns to a misspelt name.
NeverReset == {"IntradayBTSTPage"}

\* Pages no menu leads to; they can only be the page a window starts with.
OffMenu == {"CandlePatternPage", "CandlePatternScripPage"}

\* Mutant: the candle pattern page gets its menu entry back.
EveryPage(w) == Pages

\* What the menus offer; two entries are for users who were logged in when the
\* toolbar was rendered.
Menu(w) ==
    (Pages \ OffMenu) \
        IF w.body["toolbar"].by.in THEN {} ELSE {"UserHomePage", "WatchlistDiffViewPage"}

\* The dialogs the toolbar links to.
Dialogs(w) == IF w.body["toolbar"].by.in THEN {"profile"} ELSE {"login"}

-----------------------------------------------------------------------------
(* What the scripts do to a window *)

\* Divs that are rendered inside div d.
Inside(d) == CASE d = "TreePerformancePage" -> {"table", "row"}
               [] d = "table" -> {"row"}
               [] OTHER -> {}

\* $.ajax: the request is sent and the script goes on.  wanted, overlapped and
\* failed are history: what was last asked for a div, whether it was asked
\* while another answer was due, whether an answer since has been an error.
Ask(w, d, what) ==
    [w EXCEPT !.pending[d] = Append(@, [what |-> what, answer |-> Blank]),
              !.wanted[d] = what,
              !.overlapped = IF w.pending[d] = <<>> THEN @ \ {d} ELSE @ \cup {d},
              !.failed = @ \ {d}]

\* $('#'+div).html(data): the divs inside are created anew.
Fill(w, d, content) ==
    [w EXCEPT
        !.body = [e \in Divs |-> IF e = d THEN content
                                 ELSE IF e \in Inside(d) THEN Blank ELSE @[e]],
        !.wanted = [e \in Divs |-> IF e \in Inside(d) THEN "" ELSE @[e]],
        !.overlapped = @ \cup {e \in Inside(d) : w.pending[e] # <<>>},
        !.collapsed = IF "row" \in Inside(d) THEN FALSE ELSE @]

\* A row has no div while its table is being loaded.
HasDiv(w, d) == d = "row" => w.body["table"] # Blank

\* populateBodyDivThruAjax keeps what the div shows until the answer is there.
\* load...Page: hide the others, show this one, ask for it if the flag does not
\* say it is loaded, and set the flag without waiting for the answer.
LoadPage(w, p) ==
    IF p \in AlwaysLoads
    THEN Ask([w EXCEPT !.shown = p], p, p)
    ELSE IF w.flag[Tested(p)]
    THEN [w EXCEPT !.shown = p]
    ELSE Ask([w EXCEPT !.shown = p, !.flag[p] = TRUE], p, p)

\* Mutant: the flag of the first page is forgotten, too.
ResetSome(w) ==
    [w EXCEPT !.flag = [p \in Pages |-> /\ p \in NeverReset \cup {"PublicHomePage"}
                                        /\ @[p]]]

\* resetAllPageLoadStatus
ResetFlags(w) ==
    [w EXCEPT !.flag = [p \in Pages |-> p \in NeverReset /\ @[p]]]

\* Mutant: nothing closes the popup after a login.
LoginWithoutTimer(w) ==
    Ask(LoadPage(ResetFlags(w), "DashboardPage"), "toolbar", "menu")

\* loginSuccess.jsp
LoginSuccess(w) ==
    [Ask(LoadPage(ResetFlags(w), "DashboardPage"), "toolbar", "menu")
        EXCEPT !.timer = TRUE]

\* fullScreenLayout.jsp: a new window, with the toolbar of session s, starts
\* with page p.
NewWindow(p, s) ==
    LoadPage([flag |-> [q \in Pages |-> FALSE],
              shown |-> p,
              body |-> [d \in Divs |-> IF d = "toolbar"
                                       THEN [what |-> "menu", by |-> s]
                                       ELSE Blank],
              pending |-> [d \in Divs |-> <<>>],
              open |-> FALSE,
              timer |-> FALSE,
              collapsed |-> FALSE,
              login |-> 1,
              wanted |-> [d \in Divs |-> IF d = "toolbar" THEN "menu" ELSE ""],
              overlapped |-> {},
              failed |-> {}],
             p)

\* HomeAction's choice of the first page; a request parameter overrides it.
HomePage(s) == IF s.in THEN "DashboardPage" ELSE "PublicHomePage"

Windows ==
    [flag : [Pages -> BOOLEAN],         \* Is_...PageLoaded
     shown : Pages \cup {"misc"},       \* the div that is not hidden
     body : [Divs -> Contents],
     pending : [Divs -> Seq(Requests)], \* under way, in the order of asking
     open : BOOLEAN,                    \* the popup is displayed
     timer : BOOLEAN,                   \* hideFloatingPopup is due
     collapsed : BOOLEAN,               \* the row is hidden
     login : 1..MaxSessions,            \* history: the last login answered here
     wanted : [Divs -> Texts \cup {""}],
     overlapped : SUBSET Divs,
     failed : SUBSET Divs]

Init ==
    /\ session \in [n : {1}, in : BOOLEAN]
    /\ habit \in Habits
    /\ \E p \in {HomePage(session)} \cup (Pages \cap habit) :
         win = NewWindow(p, session)

-----------------------------------------------------------------------------
(* The user *)

May(operation) == operation \in habit /\ UNCHANGED <<session, habit>>

Room(d) == Len(win.pending[d]) < MaxOutstanding[d]

\* A menu entry: switchToPage.
SwitchToPage(p) ==
    /\ May(p)
    /\ p \in Menu(win) /\ Room(p)
    /\ win' = LoadPage(win, p)

\* Mutant: the div is shown by another name than it is hidden by.
ShowMisnamedPage(url) ==
    /\ May("misc")
    /\ Room("misc")
    /\ win' = Ask([win EXCEPT !.shown = "MiscPage"], "misc", url)

ShowMiscPage(url) ==
    /\ May("misc")
    /\ Room("misc")
    /\ win' = Ask([win EXCEPT !.shown = "misc"], "misc", url)

\* showFloatingPopup clears the popup and asks for the dialog.
ShowFloatingPopup(dialog) ==
    /\ May("dialog")
    /\ dialog \in Dialogs(win) /\ Room("popup")
    /\ win' = Ask([win EXCEPT !.open = TRUE, !.body["popup"] = Blank],
                  "popup", dialog)

\* The popup's close buttons; an answer that is still due will fill it.
ClosePopup ==
    /\ May("dialog")
    /\ win.open
    /\ win' = [win EXCEPT !.open = FALSE, !.body["popup"] = Blank,
                          !.wanted["popup"] = ""]

\* submitFloatingForm on the login form, which stays there for another click.
SubmitLogin ==
    /\ May("dialog")
    /\ win.open /\ win.body["popup"].what = "login" /\ Room("popup")
    /\ win' = Ask(win, "popup", "submit")

\* Mutant: the rows that are expanded survive a new search.
SearchKeepingRows(params) ==
    /\ May("table")
    /\ win.shown = "TreePerformancePage"
    /\ win.body["TreePerformancePage"] # Blank /\ Room("table")
    /\ win' = Ask([win EXCEPT !.body["table"] = Blank], "table", params)

\* submitMainScreenForm empties the table and asks for the new one.
SubmitMainScreenForm(params) ==
    /\ May("table")
    /\ win.shown = "TreePerformancePage"
    /\ win.body["TreePerformancePage"] # Blank /\ Room("table")
    /\ win' = Ask(Fill(win, "table", Blank), "table", params)

\* toggleTreePerformanceDiv: a row without content is loaded, for the search
\* that rendered the table; a row with content is hidden or shown.
ToggleTreePerformanceDiv ==
    /\ May("table")
    /\ win.shown = "TreePerformancePage" /\ win.body["table"] # Blank
    /\ \/ /\ win.body["row"] = Blank /\ Room("row")
          /\ win' = Ask(win, "row", win.body["table"].what)
       \/ /\ win.body["row"] # Blank
          /\ win' = [win EXCEPT !.collapsed = ~@]

\* The logout link, or the browser's reload: the session's user goes, or is
\* signed in by HomeAction, and a new window asks for the first page.
Reload ==
    /\ "reload" \in habit /\ session.n < MaxSessions
    /\ \E in \in BOOLEAN :
         /\ session' = [n |-> session.n + 1, in |-> in]
         /\ win' = NewWindow(HomePage(session'), session')
    /\ UNCHANGED habit

\* The session expires, or another window logs in or out.
ChangeSession ==
    /\ "elsewhere" \in habit /\ session.n < MaxSessions
    /\ \E in \in BOOLEAN : session' = [n |-> session.n + 1, in |-> in]
    /\ UNCHANGED <<win, habit>>

-----------------------------------------------------------------------------
(* The server and the network *)

Answered(d, k, content) ==
    win' = [win EXCEPT !.pending[d][k].answer = content]

\* An action renders its result for the session's user.
Serve(d, k) ==
    /\ win.pending[d][k].answer = Blank
    /\ win.pending[d][k].what # "submit"
    /\ Answered(d, k, [what |-> win.pending[d][k].what, by |-> session])
    /\ UNCHANGED <<session, habit>>

\* LoginAction: the user is put into the session, or the form is shown again.
Login(k) ==
    /\ win.pending["popup"][k].answer = Blank
    /\ win.pending["popup"][k].what = "submit"
    /\ \/ /\ session.n < MaxSessions
          /\ session' = [n |-> session.n + 1, in |-> TRUE]
          /\ Answered("popup", k, [what |-> "success", by |-> session'])
       \/ /\ Answered("popup", k, [what |-> "login", by |-> session])
          /\ UNCHANGED session
    /\ UNCHANGED habit

Arrived(d, k) == [win EXCEPT !.pending[d] = RemoveAt(@, k)]

\* The success callback: the answer fills its div, and its script runs.
Deliver(d, k) ==
    /\ LET content == win.pending[d][k].answer
           filled == IF HasDiv(win, d) THEN Fill(Arrived(d, k), d, content)
                     ELSE Arrived(d, k)
       IN  /\ content # Blank
           /\ win' = IF content.what = "success"
                     THEN [LoginSuccess(filled) EXCEPT
                              !.login = IF content.by.n > @ THEN content.by.n ELSE @]
                     ELSE filled
    /\ UNCHANGED <<session, habit>>

\* The error callback, whether the server has handled the request or not: an
\* alert.
Fail(d, k) ==
    /\ win' = [Arrived(d, k) EXCEPT !.failed = @ \cup {d}]
    /\ UNCHANGED <<session, habit>>

\* The timer a login has set.
HideFloatingPopup ==
    /\ win.timer
    /\ win' = [win EXCEPT !.timer = FALSE, !.open = FALSE]
    /\ UNCHANGED <<session, habit>>

-----------------------------------------------------------------------------
User ==
    \/ \E p \in Pages : SwitchToPage(p)
    \/ \E url \in Urls : ShowMiscPage(url)
    \/ \E dialog \in {"login", "profile"} : ShowFloatingPopup(dialog)
    \/ ClosePopup \/ SubmitLogin
    \/ \E params \in Searches : SubmitMainScreenForm(params)
    \/ ToggleTreePerformanceDiv
    \/ Reload \/ ChangeSession

Served(d) == \E k \in DOMAIN win.pending[d] : Serve(d, k) \/ (d = "popup" /\ Login(k))

Ended(d) == \E k \in DOMAIN win.pending[d] : Deliver(d, k) \/ Fail(d, k)

Next == User \/ (\E d \in Divs : Served(d) \/ Ended(d)) \/ HideFloatingPopup

Spec == Init /\ [][Next]_vars

\* The container handles the requests for pages, the network brings an answer
\* or an error for them, and the timer runs; nobody makes the user click.
FairSpec ==
    /\ Spec
    /\ WF_vars(\E p \in Pages : Served(p)) /\ WF_vars(\E p \in Pages : Ended(p))
    /\ WF_vars(HideFloatingPopup)

-----------------------------------------------------------------------------
(* What must be true of a window *)

TypeOK ==
    /\ session \in Sessions
    /\ win \in Windows
    /\ habit \in Habits

\* Nothing is due for div d, and neither answers that crossed nor an error can
\* be the reason for what it shows.
Quiet(d) ==
    win.pending[d] = <<>> /\ d \notin win.overlapped /\ d \notin win.failed

\* A login is seen everywhere: once its answer is there, no page whose flag
\* says it need not be loaded, nor the menu, still shows what was rendered in
\* the session before it.  The page whose flag is missed by
\* resetAllPageLoadStatus is left out.
LoginRefreshes ==
    \A d \in (Pages \ NeverReset) \cup {"toolbar"} :
        Quiet(d) /\ (d \in Pages => win.flag[d]) => win.body[d].by.n >= win.login

\* What the form of a login comes back as.
AnswersTo(what) == IF what = "submit" THEN {"success", "login"} ELSE {what}

\* The divs that many requests share show what was last asked of them: an
\* answer for an earlier dialog, url or search never stays there, except when
\* two answers were due at once, and an expanded row belongs to its table.
LastAskedIsShown ==
    /\ \A d \in {"misc", "toolbar", "table", "row"} :
         Quiet(d) => win.body[d].what \in AnswersTo(win.wanted[d])
    /\ Quiet("popup") /\ win.open =>
         win.body["popup"].what \in AnswersTo(win.wanted["popup"])
    /\ Quiet("row") /\ win.body["row"] # Blank =>
         win.body["row"].what = win.body["table"].what
    /\ win.collapsed => win.body["row"] # Blank

\* The user looks at a page that is neither filled in nor known to have failed.
Waiting ==
    win.shown \in Pages /\ win.body[win.shown] = Blank /\ win.shown \notin win.failed

\* The page that is shown is filled in sooner or later, unless its request
\* fails: no flag says that it is loaded when it was never asked for.
ShownPageIsFilled == Waiting ~> ~Waiting

\* The login dialog goes away by itself after a login.
LoginDialogCloses ==
    win.body["popup"].what = "success" ~> ~win.open
=============================================================================
