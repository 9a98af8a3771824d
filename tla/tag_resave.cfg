\* Every tag, from every type and body it reads as, through every sequence of
\* resaves; values of every type through the bytes of a file; whole profiles.
SPECIFICATION ValuesSpec
CONSTANTS
    Items <- MCItems
    Starts <- MCStarts
    Behind <- MCBehind
    MaxSaves <- MCMaxSaves
    WrittenProfiles <- MCProfiles
    Cuts <- MCCuts
INVARIANTS
    ResavedTagStaysReadable
    ResaveKeepsKind
    UniformLutsSurvive
    SavedCanBeSavedAgain
    BodiesReadBack
    CheckedReadsStayInTag
    ProfilesSurviveTheirFile
PROPERTY
    ResaveIsStable
CHECK_DEADLOCK FALSE
