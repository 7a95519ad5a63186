SPECIFICATION FairSpec
CONSTANTS
    s1 = s1
    s2 = s2
    i1 = i1
    i2 = i2
    slotA = slotA
    Sessions = {s1, s2}
    Items = {i1}
    Slots = {slotA}
    SlotOf <- OneItem
    Inputs <- SomeInputs
    MaxTrans = 2
    ForShare = TRUE
    NoItem = NoItem
INVARIANTS
    ParentsExist
    AddsSeeCurrentRow
PROPERTIES
    EveryRequestAnswered
    ImplementsLedger
