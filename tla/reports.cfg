CONSTANTS
    u1 = u1
    u2 = u2
    A1a = A1a
    B1a = B1a
    risk = risk
    Users = {u1, u2}
    Outcomes = {A1a}
    HasPartial = {}
    Requirement <- Least
    ReviewTypes = {"independent", "peer_review"}
    Lists <- UpToOne
    Comments = {"objective-areas-of-improvement"}
    Details = {"iar_period"}
    Chosen = {"in_progress", "completed"}
    ImportedAs = {"in_progress", "completed"}
    MaxSaves = 6
SPECIFICATION Spec
INVARIANTS TypeOK AsksForWhatIsMissing
PROPERTIES VersionsKeepTheirNumbers LinkedReportsAreFilledIn
CHECK_DEADLOCK FALSE
SYMMETRY UserSymmetry
