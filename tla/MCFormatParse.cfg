SPECIFICATION Spec
CONSTANTS
    Symbol <- Symbols
    Setups <- AllSetups
    CommandLines <- Lines
    InRange <- Num
    OutOfRange <- Huge
INVARIANTS
    ParseTypeOK
    AgreesWithReading
    PositionalsAreNoIdentifiers
    DefaultsNeverMixWithInput
    RequiredAreRead
    ValuesStandWhereTyped
    NoWordIsLost
PROPERTIES
    OptionsStopAtEnd
    Terminates
