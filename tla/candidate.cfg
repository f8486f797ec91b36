SPECIFICATION Spec
CONSTANTS
    PageSize = 8
    Word = 2
    FakeOps = {"lookup", "reclaim"}
    Impl <- MCImpl
    VData1 <- MCData1
    VData2 <- MCData2
    MaxSlots = 5
    MountSize = 8
    MaxVfsSlots = 3
    MinFunctions = 2
    CodeLen = 3
    UnmountOffset = 4
    Unknown <- MCUnknown
    Kernels <- PrivateKernels
INVARIANT
    CandidatesAgree
CHECK_DEADLOCK FALSE
