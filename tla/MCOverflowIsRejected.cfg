SPECIFICATION Spec
CONSTANTS
    Symbol <- Symbols
    Setups <- AllSetups
    CommandLines <- Lines
    InRange <- Num
    OutOfRange <- Huge
INVARIANT
    OverflowIsRejected
