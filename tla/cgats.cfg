\* Documents loaded, edited once, saved and loaded again;
\* .cube files taken as links.
SPECIFICATION FilesSpec
CONSTANTS
    NoValue = NoValue
    SatoiMax = 9
    MaxTables = 4
    MaxFields = 3
    MaxCells = 8
    MaxEdits = 1
    MaxSaves = 1
    Texts <- MCTexts
    CubeTexts <- MCCubeTexts
    MaxShaper = 3
    MaxGrid = 2
    Predefined <- MCPredefined
    EditKeys <- MCEditKeys
    EditValues <- MCEditValues
INVARIANTS
    ReloadsAsSaved
    CellsAreTheValues
    CubeLinkIsTheFile
PROPERTIES
    LoadingEnds
CHECK_DEADLOCK FALSE
