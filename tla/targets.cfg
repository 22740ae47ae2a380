CONSTANTS
    Uploads = {u1, u2}
    Single = u1
    Repositories <- PlainRepositories
    Versions <- PlainVersions
    None = None
    KnownRoles <- TwoRoles
    MandatoryPayloadIndexes <- TwoIndexes
SPECIFICATION MCSpec
CHECK_DEADLOCK FALSE
INVARIANTS
    TargetsTypeOK
    PreparedIsIndexed
    OneCollectionPerPair
    ListingIsTruthful
