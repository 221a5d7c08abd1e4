\* One thread runs the loop; stop may be called before it does.
CONSTANTS
    Runners = {t1}
    OneShot = {a}
    Repetitive = {}
    Stop = Stop
    MaxStops = 1
SPECIFICATION LoopSpec
PROPERTIES
    RunEndsOnlyWhenAsked
