SPECIFICATION Spec
CONSTANTS
    s1 = s1
    s2 = s2
    i1 = i1
    i2 = i2
    slotA = slotA
    Sessions = {s1, s2}
    Items = {i1, i2}
    Slots = {slotA}
    SlotOf <- TwinItems
    Inputs <- SomeInputs
    MaxTrans = 2
    ForShare = FALSE
    NoItem = NoItem
SYMMETRY Symmetry
INVARIANTS
    SuccessMeansRecorded
