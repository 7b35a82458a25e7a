SPECIFICATION Spec
CONSTANTS
    KeyId = {k1, k2, k3}
    Capability = {"list", "read", "delete"}
    Role = {"reader", "reaper"}
    Granted <- MCGranted
    MaxMishaps = 1
    MaxQuirks = 1
    NoKey = NoKey
    MaxDays = 2
    MaxEdits = 2
    NoDays = NoDays
    NoRule = NoRule
    Malformed = Malformed
    Blob = {"m", "w1", "w2"}
    ModelSet = {"s1", "s2"}
    Artifacts <- MCArtifacts
    Streamed = {"m"}
    Publisher = {p1, p2}
    Absent = Absent
    MinEdge = 2
    Null = Null
    Payloads <- MCPayloads
    Ranges <- MCRanges
    NoRange = NoRange
    Workflows <- MCWorkflows
    InputKey = {"mine", "other"}
    Owned = {"mine"}
    Digest = {"d1", "d2"}
    MaxReplaced = 1
INVARIANTS
    KeyInv StraysAreAccounted
    RulesInv
    CatalogInv
    IntakeInv PreviewIsBound NoLateRefusal ValidIsRenderable WireReadsForward
PROPERTIES
    KeepsPromise PublicationEnds
CHECK_DEADLOCK FALSE
