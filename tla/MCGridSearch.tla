---------------------------- MODULE MCGridSearch ----------------------------
(* A small instance of GridSearch for TLC. *)
EXTENDS GridSearch

MCTexts == STRING

\* Two rows of one name, one at the midnight that ends day 1, and two pages.
MCTable == <<[name |-> "ACC", time |-> 3, choice |-> "c", number |-> "7"],
             [name |-> "ACE", time |-> 4, choice |-> "c", number |-> "8"],
             [name |-> "BHEL", time |-> 5, choice |-> "d", number |-> "9"],
             [name |-> "ACC", time |-> 7, choice |-> "d", number |-> "7"]>>

MCBegins(text) ==
    CASE text = "AC" -> {"ACC", "ACE"} [] text = "ACC" -> {"ACC"} [] OTHER -> {}

MCCalendar == <<"01", "02", "03">>

MCOrder == <<"text", "choice", "min", "max", "unique">>

Typing(text, choice, min, max, unique) ==
    [text |-> text, choice |-> choice, min |-> min, max |-> max, unique |-> unique]

MCFirstForm == Typing("", "", "01", "02", "")

\* A text alone, a blank one before other inputs and alone, every input, and a
\* first day after the last.
MCForms == {Typing("AC", "", "", "", ""), Typing(Blank, "c", "", "", ""),
            Typing(Blank, "", "", "", ""), Typing("ACC", "d", "01", "03", "7"),
            Typing("", "", "02", "01", "")}

\* Alternatives, alternatives with a group, and what the database refuses.
MCDialogs ==
    {[op |-> "OR", groups |-> <<>>,
      rules |-> <<[field |-> "name", op |-> "ne", data |-> "ACC"],
                  [field |-> "time", op |-> "le", data |-> "01"]>>],
     [op |-> "OR", rules |-> <<Rule("text", "AC"), Rule("choice", "d")>>,
      groups |-> <<[op |-> "AND", rules |-> <<Rule("min", "02")>>]>>],
     [op |-> "AND", groups |-> <<>>,
      rules |-> <<[field |-> "time", op |-> "ne", data |-> "01"]>>]}

\* Searches kept before: of a form, of a choice that is gone, of an input with
\* its own id, of a blank.
MCOffered ==
    {NoFilter,
     FormToJsonFilter(Typing("AC", "d", "01", "", "")),
     FormToJsonFilter(Typing("", "gone", "", "", "")),
     FormToJsonFilter(Typing("ACC", "", "", "02", "7")),
     FormToJsonFilter(Typing(Blank, "", Blank, "", ""))}

\* Users who type, who pick a saved search into what they typed or cleared,
\* who move the dates, and who open the dialog.
MCHabits == {{"type", "clear"}, {"type", "saved"}, {"clear", "saved", "date"},
             {"type", "dialog"}}
=============================================================================
