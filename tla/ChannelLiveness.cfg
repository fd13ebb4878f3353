\* Liveness: one channel, three pushes, a repeated Close.
SPECIFICATION Spec
CONSTANTS
    c1 = c1  c2 = c2  p1 = p1  p2 = p2
    None = None
    Chans <- MCOneChan
    Procs <- MCProcs
    Highs <- MCNoType
    ChLen = 2
    SeqShift = 8
    MaxPush = 3
    MaxReclose = 1
PROPERTIES
    MailboxSpec
    CloseCompletes
\* Every channel may be closed and every push spent: the system then rests.
CHECK_DEADLOCK FALSE
