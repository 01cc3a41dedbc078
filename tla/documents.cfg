SPECIFICATION PartSpec
CONSTANTS
    Submodels = {s1, s2}
    Elements = {e1}
    Operations = {"addSubmodel", "deleteSubmodel", "addElement", "deleteElement", "modifyShell", "deletePolicy", "publish", "archive", "restore", "patchConfig", "deletePassport"}
    InitialStatuses = {"Draft", "Published", "Archived"}
    TemplateIds = {t}
    PassportIds = {p, q}
    Requests = {r1, r2}
    OwnMedia = {own}
    OtherMedia = {}
    Designs = {x}
    MaxSteps = 4
    FormerSubmodels = {s1, s2}
    FormerMedia = {m1, m2}
    FormerLinks = {url, other}
    MaxVersion = 3
    Absent = Absent
    None = None
INVARIANTS
    TypeOK
    EnvironmentConsistent
    DocumentsAreSeparate
    ReadAsStored
PROPERTIES
    ArchiveKeepsContent
    FrozenForEver
    PassportsAppearComplete
    ImplementsCurrent
    HistoryTellsChanges
CONSTRAINT BoundedVersions
CHECK_DEADLOCK FALSE
