SPECIFICATION FairSpec
CONSTANTS
    MaxScripts = 2
    MaxRuns = 2
    None = None
INVARIANTS
    TypeOK
    TerminalEarned
    NothingLeft
    NoneForgotten
PROPERTIES
    ReceiptFinal
    ScriptsEnd
CHECK_DEADLOCK FALSE
