SPECIFICATION Spec
CONSTANTS
    a1 = a1
    a2 = a2
    b1 = b1
    b2 = b2
    c1 = c1
    c2 = c2
    Cells <- MCCells
    Usual <- MCUsual
    NoCell = NoCell
    Keys = {"k1", "k2", "k3"}
    Load = 1
    Data = {"k1", "k2", "k3", "other"}
    Values <- MCValues
    NoKey = NoKey
    NoData = NoData
    Hash <- MCHash
    Sizes = {1, 2}
    MaxSize = 2
    Configs <- MCConfigs
SYMMETRY Symmetry
INVARIANTS
    TypeOK
    ListsSound
    CountsExact
    MemoryExact
    IterationComplete
PROPERTIES
    ImplementsDictionary
    RehashAdvances
