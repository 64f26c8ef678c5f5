SPECIFICATION Spec
CONSTANTS
    Length <- Lengths
    Programs <- Apps
    TerminalWidths <- Widths
INVARIANTS
    TypeOK
    ElementsNest
    HtmlIsClosed
    FontsAreClosed
    ManKeepsTextsApart
    TextsAreSetApart
    LinesFit
    SynopsisAgreesWithPage
    EntriesKeepTheirOrder
PROPERTIES
    PageEnds
