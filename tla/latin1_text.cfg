\* A Latin-1 text written as text and as textDescription.
SPECIFICATION BodySpec
CONSTANTS
    Items <- Latin1Items
    Starts <- MCStarts
    Behind <- MCBehind
    MaxSaves <- MCMaxSaves
INVARIANT
    TextsReadBack
CHECK_DEADLOCK FALSE
