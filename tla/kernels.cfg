\* Pixels through every pair of formats; CLUTs of every geometry; pipelines through
\* every evaluator.
SPECIFICATION KernelsSpec
CONSTANTS
    Jobs <- MCJobs
    LookUps <- MCLookUps
    One <- MCOne
    F <- MCF
    R <- MCR
    Links <- MCLinks
    Counts = {1, 5}
    Chunk = 2
    MaxChannels = 8
INVARIANTS
    ChannelsArrive
    PackUndoesUnpack
    NodesAreExact
    MatchesReference
    FastPathLosesNothing
CHECK_DEADLOCK FALSE
