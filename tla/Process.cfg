\* Two files, one edit or save, signals at any moment, one setting
\* by the program; every value of a setting up to arrays of two, another
\* after those of one token; three callers of one counter.  Each part stops
\* at its bounds.
SPECIFICATION Spec
CONSTANTS
    a = a  b = b  empty = empty  s1 = s1
    NFiles = 2
    Sessions = {s1}
    Names = {a, b, empty}
    Unwritable = {empty}
    Kinds = {"int64", "string", "list", "slice"}
    Elements <- MCElements
    Contents <- MCContents
    Unreadable = Unreadable
    OwnValues <- MCOwnValues
    MaxEdits = 1
    MaxSets = 1
    SysKeys = {"k", "absent"}
    RowKeys = {"k"}
    Tokens <- MCTokens
    Numbers <- MCNumbers
    Escapes <- MCEscapes
    Values <- MCValues
    Callers = {"c1", "c2", "c3"}
    Deltas <- MCDeltas
    MaxClears = 1
CHECK_DEADLOCK FALSE
INVARIANTS
    ConfigCurrent
    
    TotalsExact
