CONSTANTS
    blank = blank
    short = short
    long = long
    other = other
    Docs = {d1}
    Versions = {blank, short, long, other}
    Pieces <- MCPieces
    Models = {m1}
    Requests <- Singles
    Tasks = {t1, t2}
    Faults = FALSE
SPECIFICATION Spec
INVARIANT WholeWhenQuiet
