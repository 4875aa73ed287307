SPECIFICATION Spec
CONSTANTS
    ann = ann
    s1 = s1
    s2 = s2
    c1 = c1
    c2 = c2
    r1 = r1
    r2 = r2
    Names = {"dept", "body", "renamed"}
    Files <- TwoFiles
    Mailboxes = {ann}
    Systems = {s1}
    Home = "body"
    Frameworks = {"caf32", "caf40"}
    Configurations = {c1, c2}
    Settings <- ThreeSettings
    Requests = {r1, r2}
    MaxTime = 3
SYMMETRY Symmetric
INVARIANTS
    TypeOK
    ImportedWhole
    CreatorsMeet
    OneDueDate
CONSTRAINT
    ImportedFirst
