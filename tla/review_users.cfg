CONSTANTS
    r1 = r1
    r2 = r2
    a = a
    b = b
    Requests <- TwoRequests
    Sections <- TwoSections
    Values = {0, 1}
    Handlers <- UserHandlers
    Leads <- AnyRole
    Imported = FALSE
    MaxClock = 6
    MaxSystem = 2
SPECIFICATION Spec
INVARIANTS TypeOK FinalisedHasTip AckedAnswersKept
PROPERTIES CompletedFrozen LifecycleSpec
CHECK_DEADLOCK FALSE
SYMMETRY RequestSymmetry
VIEW UpToStamps
