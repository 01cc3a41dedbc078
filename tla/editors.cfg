SPECIFICATION PartSpec
CONSTANTS
    Columns <- MCColumns
    Names = {"a", "b"}
    Groups = {"h"}
    Nested = {"t", "u"}
    Positions = {0}
    Values = {"v"}
    Labels = {"l"}
    StartTables <- MCTables
    MaxRequests = 3
    InFlight = 1
    Others = FALSE
INVARIANTS
    EditorsAndServerAgree
PROPERTIES
    OnlyEditedIsSaved
CHECK_DEADLOCK FALSE
