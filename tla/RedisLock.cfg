\* Three clients, time until an abandoned lock has been stolen twice.
SPECIFICATION Spec
CONSTANTS
    c1 = c1  c2 = c2  c3 = c3  NoKey = NoKey
    Clients <- MCClients
    Lease = 4
    Loops = 3
    MaxAttempt = 1
    MaxHold = 1
    MaxSkew = 1
    MaxTime = 9
SYMMETRY Sym
INVARIANTS
    TypeOK
    MutualExclusion
    HolderProtected
