SPECIFICATION Spec
CONSTANTS
    PageSize = 4
    Phys <- MCPhys
    Bytes <- MCBytes
    Memories <- MCMemories
    Requests <- MCRequests
INVARIANTS
    TypeOK
    CopiesAPrefix
    ShortOnlyIfUnmapped
    WordAtOnce
PROPERTIES
    ChunksAreLong
CHECK_DEADLOCK FALSE
