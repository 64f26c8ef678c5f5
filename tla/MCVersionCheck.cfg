SPECIFICATION Spec
CONSTANTS
    p1 = p1
    p2 = p2
    Process <- Processes
    Day = 2
    MaxTime = 4
INVARIANT
    TypeOK
PROPERTIES
    RequestsAreConsented
    DecisionsAreFinal
    ProcessesEnd
