CONSTANTS
    Chunks = {c1, c2}
    Contents = {x}
    Digits = {1, 2}
    Others = {}
    MaxRetrieved = 1
    MaxLength = 6
    Retrievals <- MCRetrievals
    Texts <- MCTexts
SPECIFICATION Spec
INVARIANT HallucinationsStripped
