SPECIFICATION FairSpec
CONSTANTS
    W = 5
    MAXW = 5
    Align = 8
    MaxLanes = 2
    GPUs = 2
    LOW_LUT_K = 2
    Mods <- MCMods
    ScratchLimit = 60
    BatchesPerGpu = 0
    Devices <- MCDevices
    Residues = 2
    Wins = 2
    Rows = 3
    Cells <- MCCells
    Batches <- ScheduleBatches
    WinOf <- MCWinOf
    CellsOf <- MCCellsOf
    Size <- MCSize
    Listed <- MCListed
    Order <- MCOrder
    FirstOwner <- MCFirstOwner
    Device0 = 1
    Wrap32 = {1}
    FirstRow <- MCFirstRow
    Kernel <- MCKernel
    Final <- MCFinal
    Ideal <- MCIdeal
    Answer <- MCAnswer
    Modes = {"single", "shard", "reclaim"}
    GraphModes = {1}
    None = None
INVARIANTS
    TypeOK
    SlotsRight
    GraphsCurrent
    OneHolder
    PrintedRight
    GroupsClosed
PROPERTIES
    EventuallyPrinted
