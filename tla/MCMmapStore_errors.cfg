SPECIFICATION Spec
CONSTANTS
    g1 = g1
    g2 = g2
    m1 = m1
    m2 = m2
    b1 = b1
    b2 = b2
    NoGroup = NoGroup
    Groups <- MCGroups
    MainCells <- MCMain
    BlockCells <- MCBlock
    Pages <- MCPages
    PageOf <- MCPageOf
    Own <- MCOwnPaired
    InitCell = m1
    AnswerCell = m2
    Mods = {2}
    NW = 2
    Gpus = {d1, d2}
    Ordered = TRUE
    AllowFresh = TRUE
    RemoveErrors = TRUE
    PowerLosses = FALSE
    MaxFaults = 1
INVARIANTS
    ResidueCorrect
