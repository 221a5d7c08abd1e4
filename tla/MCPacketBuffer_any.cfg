\* Packets destroyed in any order or oldest first, one thread resizes.
CONSTANTS
    InitialSize = 6
    NewSizes = {4, 6}
    PacketSizes = {1, 2, 3}
    Resizers = {r1}
    MaxLive = 6
SPECIFICATION BufferSpec
\* A resize of a buffer that lost memory for good waits for ever.
CHECK_DEADLOCK FALSE
INVARIANTS
    NoOverlap
    EmptyExactlyWhenIdle
    MaxAvailableFits
PROPERTIES
    ResizeReturns
