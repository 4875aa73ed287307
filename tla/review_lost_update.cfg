CONSTANTS
    r1 = r1
    r2 = r2
    a = a
    b = b
    Requests <- TwoRequests
    Sections <- OneSection
    Values = {0, 1}
    Handlers <- UserHandlers
    Leads <- AnyRole
    Imported = FALSE
    MaxClock = 6
    MaxSystem = 1
SPECIFICATION Spec
INVARIANTS NoLostAnswer
CHECK_DEADLOCK FALSE
SYMMETRY RequestSymmetry
