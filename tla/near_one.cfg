\* A floating channel just below its last node.
SPECIFICATION KernelsSpec
CONSTANTS
    Jobs <- MCJobs
    LookUps <- MCLookUps
    One <- MCOne
    F <- MCF
    R <- MCR
    Links <- MCLinks
    Counts = {1, 5}
    Chunk = 2
    MaxChannels = 8
INVARIANT
    FloatEvalStaysInTable
CHECK_DEADLOCK FALSE
