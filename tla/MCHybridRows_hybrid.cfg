SPECIFICATION FairSpec
CONSTANTS
    Pools = {High, Low}
    High = High
    Low = Low
    Workers = {h1, h2, l1, l2}
    Main = Main
    None = None
    PoolOf <- MCPoolOf
    Jobs = {g1, g2, g3, k1, k2, k3}
    HighGroups = {g1, g2, g3}
    LowGroups = {k1, k2, k3}
    Selected = {g1, g2}
    Lists = {HighList, LowList}
    HighList = HighList
    LowList = LowList
    Contents <- MCContents
    Plan <- MCPlan
    Answer <- MCAnswer
    Rows = 2
    h1 = h1
    h2 = h2
    l1 = l1
    l2 = l2
    g1 = g1
    g2 = g2
    g3 = g3
    k1 = k1
    k2 = k2
    k3 = k3
INVARIANTS
    HybridTypeOK
    InStep
    AnswerRight
PROPERTIES
    GenerationsInOrder
    HighForkJoin
    LowForkJoin
    Terminates
