\* Reads of every tag, in every order, by callers with three contexts.
SPECIFICATION ProfileSpec
CONSTANTS
    rTRC = rTRC
    gTRC = gTRC
    bTRC = bTRC
    chad = chad
    mhc2 = mhc2
    priv = priv
    curv = curv
    sf32 = sf32
    mhcType = mhcType
    privType = privType
    p1 = p1
    p2 = p2
    d1 = d1
    d2 = d2
    NoDescriptor = NoDescriptor
    NoLink = NoLink
    NoFile = NoFile
    NoHandler = NoHandler
    NoRequest = NoRequest
    Builtin = Builtin
    Plugin = {p1, p2}
    Data = {d1, d2}
    U32 = 512
    MaxTableTag = 3
    Sig <- MCSig
    Type <- MCType
    BuiltinTypes <- MCBuiltinTypes
    ArrayWidth <- MCArrayWidth
    Descriptor <- MCDescriptor
    Context <- MCContexts
    Files <- MCFiles
INVARIANTS
    SearchSound
    CachedTypeIsTrueType
    BuiltinReadsAreStateless
PROPERTIES
    ReaderRefined
