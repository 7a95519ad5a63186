SPECIFICATION FairSpec
CONSTANTS
    Pages <- MCPages
    Searches = {"byName", "byGain"}
    Urls = {"miscDataPage", "processBseIntradayData"}
    Habits <- MCHabits
    MaxOutstanding <- MCOutstanding
    MaxSessions = 2
INVARIANTS
    TypeOK
    LoginRefreshes
    LastAskedIsShown
PROPERTIES
    ShownPageIsFilled
    LoginDialogCloses
