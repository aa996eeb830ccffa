CONSTANTS
    Contents <- ThreeContents
    Dummies = {16}
    Factors = {1, 3, 8}
    Lengths = {64, 2048}
    None = None
SPECIFICATION Spec
INVARIANTS
    DecodedAsAnnounced
    MapsAreOwned
    QueuesFollowFlags
