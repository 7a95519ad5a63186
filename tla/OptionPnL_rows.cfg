SPECIFICATION FairReplaySpec
CONSTANTS
    Ids = {1, 2}
    Options = {call}
    AlgoIds <- TwoAlgos
    Prices = {1, 3}
    Open = 2
    Close = 7
    NoTime = NoTime
    call = call
    Days <- MCDays
INVARIANTS
    ReplayTypeOK
    TotalIsSumOfOrders
PROPERTIES
    OrdersStayInReport
    ReportEnds
CHECK_DEADLOCK FALSE
