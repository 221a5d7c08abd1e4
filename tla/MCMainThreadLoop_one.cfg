\* One thread runs the loop.
CONSTANTS
    Runners = {t1}
    OneShot = {a, b}
    Repetitive = {c}
    Stop = Stop
    MaxStops = 2
SPECIFICATION LoopSpec
INVARIANTS
    WorkInOnePlace
    WorksInOrder
PROPERTIES
    StopEndsLoop
    QueuedWorkExecuted
