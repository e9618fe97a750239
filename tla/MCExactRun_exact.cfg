SPECIFICATION FairSpec
CONSTANTS
    K = 2
    Binaries = {good, bad}
    Good = {good}
    Sidecars = {sg, sb}
    SidecarOf <- MCSidecarOf
    Count = Count
    None = None
    Procs = {p1, p2}
    Runners = {"single", "batch"}
    MaxRuns = 1
    FingerprintDefined = TRUE
    RebuildWhileRunning = FALSE
    MaxFaults = 4
    good = good
    bad = bad
    sg = sg
    sb = sb
INVARIANTS
    TypeOK
    BoundToBinary
    AcceptedIsRight
    PublishedIsDurable
    AnnouncedKept
PROPERTIES
    ResultKept
    EventuallyPublished
