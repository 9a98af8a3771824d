\* Packed transforms sharing one workspace, tile by tile.
SPECIFICATION FairBatchSpec
CONSTANTS
    c1 = c1
    c2 = c2
    d0 = d0
    d1 = d1
    d2 = d2
    alarm = alarm
    x1 = x1
    x2 = x2
    NoExtra = NoExtra
    Zero = Zero
    Tile = 3
    Threshold = 2
    Colour = {c1, c2}
    Device = {d0, d1, d2, alarm}
    Extra = {x1, x2}
    Transform <- MCTransforms
    Convert <- MCConvert
    Marked <- MCMarked
    Alarm <- MCAlarm
    CopyAlpha <- MCCopyAlpha
    Call <- MCCalls
INVARIANTS
    SlotsHoldTheirPixels
    RunsEvaluatedOnce
PROPERTIES
    PixelByPixel
    CallsReturn
