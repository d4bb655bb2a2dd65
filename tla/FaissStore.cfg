CONSTANTS
    a = a
    b = b
    x = x
    Ids = {a, b}
    Texts = {x}
    Models = {m1, m2}
    LlmNames = {echo}
    Callers = {"provider", "llm"}
    Corpora <- MCCorpora
    Tasks = {t1, t2}
    Ops = {"open", "rebuild", "search"}
SYMMETRY Symmetry
SPECIFICATION Spec
INVARIANTS
    IndexIsOneBuild
    QuietSearchReturnsMatch
    StampIsOfIndex
    RebuiltIndexIsTable
