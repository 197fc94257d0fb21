SPECIFICATION Spec
CONSTANTS
    Runs = {r1}
    Replays = {}
    NoProc = NoProc
    Stale = Stale
    Target = 1
    Deadline = 1
    MaxTime = 2
    MaxEdits = 0
    DirectoryOpens = TRUE
INVARIANTS
    ExitOneMeansFailure
