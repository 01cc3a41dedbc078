SPECIFICATION PartSpec
CONSTANTS
    Requests = {r1, r2}
    Keys = {k}
    Slugs = {}
    Bases = {instance}
    Request = {r}
    Configurations = {k1, k2}
    ChosenSlugs = {a}
    ChosenBases = {instance, org}
    InstanceBase = instance
    Operations = {"publish", "archive", "deletePassport", "patch", "visit", "list", "deleteConfig"}
    MaxAttempts = 2
    MaxFaults = 1
    Absent = Absent
    Null = Null
INVARIANTS
    TypeOK
    PinnedOnlyAfterPublication
    VisitorsSeePublished
    LoneIsPinned
PROPERTIES
    PublicationPins
    LonePinnedUrlsStay
SYMMETRY Symmetry
