SPECIFICATION Spec
CONSTANTS
    Producers = {p1, p2}
    Emitters = {e1, e2}
    NoThread = NoThread
    Window = 2
    Start = 2
    MaxTime = 4
    MaxStepsBack = 1
    MaxIntents = 2
INVARIANTS TypeOK NothingLostOrDuplicated KeyHeldWhileSigning WindowUnlessConcurrent
CHECK_DEADLOCK FALSE
