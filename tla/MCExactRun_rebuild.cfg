SPECIFICATION Spec
CONSTANTS
    K = 2
    Binaries = {good, bad}
    Good = {good}
    Sidecars = {sg, sb}
    SidecarOf <- MCSidecarOf
    Count = Count
    None = None
    Procs = {p1, p2}
    Runners = {"single", "batch"}
    MaxRuns = 1
    FingerprintDefined = TRUE
    RebuildWhileRunning = TRUE
    MaxFaults = 1
    good = good
    bad = bad
    sg = sg
    sb = sb
INVARIANT BoundToBinary
