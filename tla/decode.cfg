SPECIFICATION Spec
CONSTANTS
    MaximumSize = 15
    Trie <- MCTrie
    Table_0F <- MCTable_0F
    Table_0F_38 <- MCTable_0F_38
    Table_0F_3A <- MCTable_0F_3A
    Table_0F_0F <- MCTable_0F_0F
    II_arpl <- MCarpl
    II_movsxd <- MCmovsxd
    II_nop <- MCnop
    II_pause <- MCpause
    II_3dnow <- MC3dnow
    Calls <- MCCalls
INVARIANTS
    TypeOK
    ReadsInside
    RoomKept
    EntriesTile
    WholeInstructions
PROPERTIES
    PrefixesAccounted
    Decodes
    DecoderAdvances
CHECK_DEADLOCK FALSE
