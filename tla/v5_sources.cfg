SPECIFICATION Spec
CONSTANTS
    Runs = {r1, r2}
    Clones = {c1}
    None = None
    Sources = {"frozen", "patched"}
    MaxCommits = 3
    MaxEdits = 1
INVARIANTS
    HoldoutUsesSelectionSources
\* Runs, commits and edits are finite.
CHECK_DEADLOCK FALSE
