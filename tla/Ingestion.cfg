CONSTANTS
    blank = blank
    short = short
    long = long
    other = other
    Docs = {d1, d2}
    Versions = {blank, short, long}
    Pieces <- MCPieces
    Models = {m1, m2}
    Requests <- MCRequests
    Tasks = {t1, t2}
    Faults = TRUE
SYMMETRY Symmetry
SPECIFICATION Spec
INVARIANT SettledExact
PROPERTY NonemptyNeverVanishes
