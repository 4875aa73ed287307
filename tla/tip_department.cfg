CONSTANTS
    r1 = r1
    r2 = r2
    p1 = p1
    o1 = o1
    None = None
    Requests <- TwoRequests
    Priority = {p1}
    Other = {o1}
    Answers <- TwoAnswers
    Texts = {1}
    Handlers <- Department
SPECIFICATION Spec
INVARIANTS TypeOK SubmittedIsComplete ConfirmedWasRead
PROPERTIES SubmittedFrozen LifecycleSpec
SYMMETRY RequestSymmetry
