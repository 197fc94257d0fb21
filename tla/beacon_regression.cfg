SPECIFICATION RegressionSpec
CONSTANTS
    Runs = {r1}
    Replays = {s1}
    NoProc = NoProc
    Stale = Stale
    Target = 1
    Deadline = 1
    MaxTime = 1
    MaxEdits = 1
    DirectoryOpens = TRUE
INVARIANTS
    RegressionRepeatsVerdict
    VerdictEarned
    Accepted
