SPECIFICATION Spec
CONSTANTS
    Addresses = {"ann", "Ann", "bob", ""}
    Recipients = {"ann", "bob", "blank"}
    Key <- MixedCase
    Blank = "blank"
    Lists <- ShortLists
    GovAssure <- GovAssureOrNot
    MaxRetries = 2
INVARIANTS
    TypeOK
    AtMostOnce
    RetriesAreShared
PROPERTIES
    DeliverySpec
    EndsRecorded
