SPECIFICATION Spec
CONSTANTS
    Submodels = {s1}
    Elements = {e1}
    Requests = {r1, r2, r3}
    Operations = {"addSubmodel", "deleteSubmodel", "addElement", "deleteElement", "modifyShell", "deletePolicy", "publish", "archive", "restore", "patchConfig", "deletePassport"}
    Concurrency = 1
    MaxAttempts = 2
    MaxFaults = 1
    InitialStatuses = {"Draft", "Published", "Archived"}
    Absent = Absent
PROPERTIES
    AtomicSpec
SYMMETRY Symmetry
