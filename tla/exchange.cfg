SPECIFICATION PartSpec
CONSTANTS
    Urls = {"url"}
    Numbers = {"1", ""}
    None = None
INVARIANTS
    ReadersSeeTheirs
    CopiesAgree
    TransfersKeepSecrets
PROPERTIES
    WriteBackIsHarmless
CHECK_DEADLOCK FALSE
