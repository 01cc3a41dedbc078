SPECIFICATION PartSpec
CONSTANTS
    Columns <- MCColumns
    Names = {"a", "b", "g"}
    Groups = {"g", "h"}
    Nested = {"t"}
    Positions = {0, 1}
    Values = {"v"}
    Labels = {"l"}
    StartTables <- MCTables
    MaxRequests = 3
INVARIANTS
    TablesStayRegular
    PoliciesFit
PROPERTIES
    RestructuringIsLossless
    AccessIsKept
CHECK_DEADLOCK FALSE
