CONSTANTS
    r1 = r1
    r2 = r2
    a = a
    b = b
    Requests <- TwoRequests
    Sections <- OneSection
    Values = {0, 1}
    Handlers <- AdminHandlers
    Leads <- NoLead
    Imported = FALSE
    MaxClock = 6
    MaxSystem = 1
SPECIFICATION Spec
INVARIANTS FinalisedHasTip
PROPERTIES CompletedFrozen FinalisedFrozen
CHECK_DEADLOCK FALSE
SYMMETRY RequestSymmetry
VIEW UpToStamps
