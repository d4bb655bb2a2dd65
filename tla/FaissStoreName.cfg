CONSTANTS
    a = a
    b = b
    x = x
    Ids = {a, b}
    Texts = {x}
    Models = {m1, m2}
    LlmNames = {echo}
    Callers = {"llm"}
    Corpora <- MCCorpora
    Tasks = {t1}
    Ops = {"open"}
SPECIFICATION Spec
INVARIANT IndexOfActiveModel
