SPECIFICATION Spec
CONSTANTS
    s1 = s1
    s2 = s2
    a1 = a1
    a2 = a2
    sys1 = sys1
    sys2 = sys2
    o1 = o1
    o2 = o2
    x = x
    y = y
    NoAnswer = NoAnswer
    Nothing = Nothing
    Sessions <- TwoSessions
    Assessments <- OneAssessment
    Systems <- OneSystem
    Outcomes <- TwoOutcomes
    Answers <- TwoAnswers
    Profiles <- Baseline
    ReviewTypes <- Independent
SYMMETRY Symmetry
INVARIANTS
    TypeOK
    SubmittedIsComplete
    ConfirmedOutcomesMatch
PROPERTIES
    SubmittedFrozen
