----------------------------- MODULE MCPageFlow -----------------------------
(* Small instances of PageFlow for TLC. *)
EXTENDS PageFlow

\* A page of each kind: flagged, for users only, with the flag that is not
\* reset, testing another's flag, and loading always.
MCPages == {"DashboardPage", "PublicHomePage", "UserHomePage",
            "IntradayBTSTPage", "AchieversPage", "CandlePatternPage",
            "TreePerformancePage"}

\* Users who log in between pages, who visit pages of each kind, who search
\* and expand rows, and who open miscellaneous pages while the session changes
\* under them.
MCHabits == {{"dialog", "UserHomePage"},
             {"IntradayBTSTPage", "AchieversPage", "CandlePatternPage"},
             {"TreePerformancePage", "table"},
             {"misc", "elsewhere", "reload"}}

\* Answers can cross where the user can ask for something else meanwhile.
MCOutstanding ==
    [d \in Divs |-> IF d \in {"misc", "popup", "table", "UserHomePage"} THEN 2 ELSE 1]
=============================================================================
