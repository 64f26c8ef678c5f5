SPECIFICATION Spec
CONSTANTS
    Symbol <- Symbols
    OptionCalls <- Options
    FlagCalls <- Flags
    PositionalCalls <- Positionals
    SubcommandLists <- BadSubcommands
    CommandLines <- Lines
    ShortIds <- Shorts
    LongIds <- Longs
    Names <- Goodnames
    InRange <- Num
    OutOfRange = {}
    MaxCalls = 2
INVARIANTS
    TypeOK
    SetupIsWellFormed
    KeywordsAreValues
    ArgumentsAreKept
    ReadOptionsAreSet
    ReturnsWithRequired
PROPERTY
    ParseEnds
