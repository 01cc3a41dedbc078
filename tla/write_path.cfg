SPECIFICATION Spec
CONSTANTS
    Submodels = {s1, s2}
    Elements = {e1}
    Requests = {r1, r2}
    Operations = {"addSubmodel", "deleteSubmodel", "addElement", "deleteElement", "modifyShell", "deletePolicy", "publish", "archive", "restore", "patchConfig", "deletePassport"}
    Concurrency = 2
    MaxAttempts = 2
    MaxFaults = 1
    InitialStatuses = {"Draft", "Archived"}
    Absent = Absent
INVARIANTS
    TypeOK
    CommittedIsLogged
    LoggedOnce
PROPERTIES
    FreshIsAtomic
SYMMETRY Symmetry
