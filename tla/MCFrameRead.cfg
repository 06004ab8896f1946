SPECIFICATION BodySpec
CONSTANTS
    MaxBody = 3
    Amounts <- ReadSizes
CHECK_DEADLOCK FALSE
INVARIANTS FrameReadTouchesOneFrame
