SPECIFICATION Spec
CONSTANTS
    Runs = {r1, r2}
    Clones = {c1, c2}
    None = None
    Sources = {"frozen", "patched"}
    MaxCommits = 3
    MaxEdits = 1
SYMMETRY Symmetry
INVARIANTS
    TypeOK
    SplitOnce
    HoldoutAfterPass
    EvidenceEarned
    EvidenceAccepted
    ExitIsDurable
\* Runs, commits and edits are finite.
CHECK_DEADLOCK FALSE
