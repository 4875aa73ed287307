CONSTANTS
    r1 = r1
    r2 = r2
    p1 = p1
    o1 = o1
    None = None
    Requests <- TwoRequests
    Priority <- NoPositions
    Other = {o1}
    Answers <- OneAnswer
    Texts = {1}
    Handlers <- NoCrashes
SPECIFICATION Spec
PROPERTIES LifecycleSpec
SYMMETRY RequestSymmetry
