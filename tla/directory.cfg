\* Directories of up to two entries, chains of three, and damaged files.
SPECIFICATION Spec
CONSTANTS
    rTRC = rTRC
    gTRC = gTRC
    bTRC = bTRC
    wtpt = wtpt
    priv = priv
    curv = curv
    para = para
    xyz = xyz
    NoDescriptor = NoDescriptor
    NoLink = NoLink
    NoFile = NoFile
    U32 = 256
    MaxTableTag = 3
    Sig <- MCSig
    Type <- MCType
    Descriptor <- MCDescriptor
    Files <- MCFiles
INVARIANTS
    TypeOK
    EntriesInBounds
    LinksPointBack
    SearchReachesData
    OneSlotPerBody
CHECK_DEADLOCK FALSE
