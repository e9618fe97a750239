SPECIFICATION FairSpec
CONSTANTS
    K = 2
    Binaries = {good, bad}
    Good = {good}
    Sidecars = {sg, sb}
    SidecarOf <- MCSidecarOf
    Count = Count
    None = None
    Procs = {p1, p2}
    Runners = {"batch"}
    MaxRuns = 1
    FingerprintDefined = FALSE
    RebuildWhileRunning = FALSE
    MaxFaults = 0
    good = good
    bad = bad
    sg = sg
    sb = sb
PROPERTY EventuallyPublished
