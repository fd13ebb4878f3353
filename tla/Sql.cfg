\* Statements of three calls, with every kind of condition; batches of two
\* items under one key or two; three statements in a transaction, arrays of up
\* to five values in pieces of two or more.  Calls stop at their bound,
\* an operation at its end.
SPECIFICATION Spec
CONSTANTS
    r1 = r1  r2 = r2  k1 = k1  k2 = k2  x = x  y = y
    Texts = {"u"}
    Nums = {0, 2}
    Rows = {r1, r2}
    Conds <- MCConds
    JoinArgs = {2, 3}
    Datas <- MCDatas
    IncArgs <- MCIncArgs
    Columns = {k1, k2, x}
    Items <- MCItems
    Batches <- MCBatches
    MaxCalls = 3
    NStmts = 3
    MaxArray = 5
    MinSize = 2
    Sizes = {0, 3}
CHECK_DEADLOCK FALSE
INVARIANTS
    ResetForgets
    UpdateBatchExact
    ToldIsDone
PROPERTIES
    WhereNarrows
