\* Two goroutines, two channels of one slot, two pushes, one repeated Close.
SPECIFICATION Spec
CONSTANTS
    c1 = c1  c2 = c2  p1 = p1  p2 = p2
    None = None
    Chans <- MCChans
    Procs <- MCProcs
    Highs <- MCHighs
    ChLen = 1
    SeqShift = 8
    MaxPush = 2
    MaxReclose = 1
SYMMETRY Sym
INVARIANTS
    TypeOK
    SequencesUnique
    RoutedBySequence
    DeliveredIsPrefix
    ClosedIsUnregistered
PROPERTIES
    NilMeansQueuedUntilClosed
\* Every channel may be closed and every push spent: the system then rests.
CHECK_DEADLOCK FALSE
