\* Two calls, up to two replies to each, a peer whose requests have no number.
\* When every call has returned the system may rest.
SPECIFICATION Spec
CONSTANTS
    k1 = k1  k2 = k2  NoCall = NoCall
    Calls <- MCCalls
    PeerNumbers = {}
    MaxReplies = 2
CHECK_DEADLOCK FALSE
PROPERTIES
    TornByLateReply
    RpcSpec
