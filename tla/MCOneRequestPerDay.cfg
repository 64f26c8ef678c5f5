SPECIFICATION Spec
CONSTANTS
    p1 = p1
    p2 = p2
    Process <- OneProcess
    Day = 2
    MaxTime = 4
PROPERTY
    OneRequestPerDay
