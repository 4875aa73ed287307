SPECIFICATION Spec
CONSTANTS
    Users = {ann, bob}
    Organisations = {o1, o2}
    Roles = {"cyber_advisor", "organisation_lead"}
    Names = {"n1"}
    Given <- Apart
    Entered <- AsLead
    Browsers = {b1}
    Requests = {r1, r2}
    MaxProfiles = 3
SYMMETRY Symmetric
CONSTRAINT OneAtATime
INVARIANTS
    TypeOK
    KeysKeepTheirOrganisation

    
