\* Two calls, a channel request at the watermark boundary, one incoming request.
SPECIFICATION Spec
CONSTANTS
    k1 = k1  k2 = k2  NoCall = NoCall
    Calls <- MCCalls
    ChanSeqs <- MCChanSeqs
    LowWatermark = 2
    SendLen = 1
    RecvLen = 1
    MaxArrivals = 2
INVARIANTS
    TypeOK
    OwnReply
    NothingLeaked
    NestedSyncNeverAnswered
PROPERTIES
    LoopResumes
    RpcSpec
\* When every call has returned and the bounds are spent the system rests.
CHECK_DEADLOCK FALSE
