\* Five jobs on at most two workers, with and without quick_cancel.
SPECIFICATION Spec
CONSTANTS
    NJobs = 5
    NTask = 2
INVARIANTS
    TypeOK
    ErrorsConserved
PROPERTIES
    EndsOrStranded
    PoolSpec
\* A finished pool rests, and so does a stranded one (EndsOrStranded).
CHECK_DEADLOCK FALSE
