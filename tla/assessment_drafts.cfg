SPECIFICATION Spec
CONSTANTS
    s1 = s1
    s2 = s2
    a1 = a1
    a2 = a2
    sys1 = sys1
    sys2 = sys2
    o1 = o1
    o2 = o2
    x = x
    y = y
    NoAnswer = NoAnswer
    Nothing = Nothing
    Sessions <- TwoSessions
    Assessments <- TwoAssessments
    Systems <- OneSystem
    Outcomes <- OneOutcome
    Answers <- OneAnswer
    Profiles <- BothProfiles
    ReviewTypes <- WithAndWithout
SYMMETRY Symmetry
INVARIANTS
    ProfileDecidesReview
    ReviewOfSubmission
PROPERTIES
    LifecycleSpec
CONSTRAINT
    BeforeIncident
