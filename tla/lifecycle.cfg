\* Build, save, reopen and read every table of up to three slots, and some of four, one above the limit.
SPECIFICATION LifeSpec
CONSTANTS
    rTRC = rTRC
    gTRC = gTRC
    bTRC = bTRC
    chad = chad
    curv = curv
    sf32 = sf32
    d1 = d1
    d2 = d2
    d3 = d3
    d4 = d4
    d5 = d5
    NoDescriptor = NoDescriptor
    NoFile = NoFile
    NoHandler = NoHandler
    NoRequest = NoRequest
    NoType = NoType
    NoValue = NoValue
    NoLink = NoLink
    NoLayout = NoLayout
    Builtin = Builtin
    Plugin = {}
    Data = {d1, d2, d3, d4, d5}
    U32 = 600
    MaxSlots = 4
    MaxTableTag = 3
    Files = {}
    Sig <- MCSig
    Type <- MCType
    BuiltinTypes <- MCType
    ArrayWidth <- MCArrayWidth
    Descriptor <- MCDescriptor
    Context <- MCContexts
    Value <- MCValues
    WriteType <- MCWriteType
INVARIANTS
    DirectoryLeadsToBodies
    PassesAgree
    NeverSilentlyDifferent
    TrueTypeSurvives
    SavedProfilesOpen
    ReadableTagsRoundTrip
CONSTRAINT FullTablesAreSimple
SYMMETRY MCSymmetry
CHECK_DEADLOCK FALSE
