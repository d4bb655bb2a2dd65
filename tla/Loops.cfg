CONSTANTS
    Target = 3
    Overlap = 1
    MaxLines = 3
    MaxTokens = 2
    Texts <- MCTexts
    Chunks = {c1, c2, c3}
    Contents = {x, y}
    MaxLen = 3
    Inputs <- MCInputs
SYMMETRY Symmetry
SPECIFICATION LoopsSpec
INVARIANTS
    NothingLost
    PiecesAdvance
    NoPieceSpansHeader
    TypeOK
    LoopComputesAdd
    OrderIsIndex
PROPERTY EntriesStable
