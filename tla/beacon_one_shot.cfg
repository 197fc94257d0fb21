SPECIFICATION FairSpec
CONSTANTS
    Runs = {r1, r2}
    Replays = {}
    NoProc = NoProc
    Stale = Stale
    Target = 1
    Deadline = 1
    MaxTime = 2
    MaxEdits = 0
    DirectoryOpens = TRUE
INVARIANTS
    TypeOK
    SingleReveal
    ArtifactsShareMarker
    VerdictEarned
    ExitIsDurable
    RevealConsumes
    PublishedVerdictEarned
    Accepted
PROPERTIES
    ArtifactsPermanent
    ClassificationForward
    ImplementsSuite
    HeldUnlessOvertaken
    RunsEnd
