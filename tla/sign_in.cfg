SPECIFICATION Spec
CONSTANTS
    Addresses = {"ann", "Ann"}
    Lower <- TwoCases
    Domain <- OneDomain
    Accounts = {1, 2, 3}
    Staff = {1}
    CsvAddresses = {"ann"}
    Browsers = {b1, b2}
    Modes = {"external", "internal-access", "one-login"}
    MaxCodes = 2
SYMMETRY Symmetric
INVARIANTS
    TypeOK
    WorkBelongsToItsUser
    OneAccountPerMailbox
