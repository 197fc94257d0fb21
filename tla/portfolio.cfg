SPECIFICATION Spec
CONSTANTS
    MaxAttempts = 2
    MaxChanges = 2
    Replaced = {"video", "poster"}
INVARIANTS
    OneProofPerTag
    WindowOfProof
    ReceiptEarned
    AssetsOfOneAttempt
    ReleasedFromOneAttempt
PROPERTIES
    ReleaseStays
CHECK_DEADLOCK FALSE
