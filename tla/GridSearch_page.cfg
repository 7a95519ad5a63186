SPECIFICATION Spec
CONSTANTS
    Texts <- MCTexts
    Table <- MCTable
    Begins <- MCBegins
    Calendar <- MCCalendar
    Today = "02"
    Default = {2, 3, 4}
    Order <- MCOrder
    Options = {"c", "d"}
    FirstForm <- MCFirstForm
    Forms <- MCForms
    Dialogs <- MCDialogs
    Offered <- MCOffered
    Habits <- MCHabits
    PageSize = 2
INVARIANTS
    TypeOK
    GridShowsSearch
    RestoredIsSaved
    KeptIsAnswered
