\* The peer is built on the library as well: its first request is number 1, too.
SPECIFICATION Spec
CONSTANTS
    k1 = k1  k2 = k2  NoCall = NoCall
    Calls <- MCCalls
    PeerNumbers = {1}
    MaxReplies = 1
CHECK_DEADLOCK FALSE
INVARIANTS
    ReplyNotRequest
