\* A profile sequence with descriptions under version 2.
SPECIFICATION BodySpec
CONSTANTS
    Items <- SequenceV2Items
    Starts <- MCStarts
    Behind <- MCBehind
    MaxSaves <- MCMaxSaves
INVARIANT
    SequencesReadBack
CHECK_DEADLOCK FALSE
