SPECIFICATION Spec
CONSTANTS
    s1 = s1
    s2 = s2
    i1 = i1
    i2 = i2
    slotA = slotA
    Sessions = {s1, s2}
    Items = {i1}
    Slots = {slotA}
    SlotOf <- OneItem
    Inputs <- MCInputs
    MaxTrans = 3
    ForShare = FALSE
    NoItem = NoItem
SYMMETRY Symmetry
INVARIANTS
    TypeOK
    SihMatchesLedger
    RateMatchesLedger
    StockIsExplained
