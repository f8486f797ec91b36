SPECIFICATION DriverSpec
CONSTANTS
    PageSize = 8
    Word = 2
    FakeOps = {"lookup", "reclaim"}
    Impl <- MCImpl
    VData1 <- MCData1
    VData2 <- MCData2
    MaxSlots = 5
    MountSize = 8
    MaxVfsSlots = 3
    MinFunctions = 2
    CodeLen = 3
    UnmountOffset = 4
    Unknown <- MCUnknown
    Kernels <- MCKernels
    Threads = {t1, t2}
    Vops = {v1, v2}
    KernelRefs = 2
INVARIANTS
    DriverTypeOK
    ReadsMapped
    FakeFsdGone
    HooksFindTheSlots
    TableOutlivesUse
    FreedForGood
    StaysLoaded
PROPERTIES
    StartEnds
    SearchAdvances
CHECK_DEADLOCK FALSE
