SPECIFICATION FairSpec
CONSTANTS
    W = 3
    Mod = 5
    MinCapacity = 4
    Hash <- MCHash
    Resident = 2
INVARIANTS
    TypeOK
    SumsRight
    OneWriter
    HalfEmpty
    AnswerRight
PROPERTIES
    Finishes
