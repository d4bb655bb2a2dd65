CONSTANTS
    Chunks = {c1, c2}
    Contents = {x}
    Digits = {1, 2}
    Others = {}
    MaxRetrieved = 2
    MaxLength = 6
    Retrievals <- MCRetrievals
    Texts <- MCTexts
SYMMETRY Symmetry
SPECIFICATION Spec
INVARIANTS
    ReportedAreRead
    CleanUnlessSpliced
PROPERTY ImplementsGroundedAnswer
