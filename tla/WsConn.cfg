\* Two connections taken in turn, a queue of one, one message; dials are
\* counted up to two.
\* A WebSock that was closed stops, so deadlock is not checked.
SPECIFICATION Spec
CONSTANTS
    s1 = s1  s2 = s2  Nil = Nil  App = App
    Socks <- MCSocks
    SendLen = 1
    MaxSend = 1
    MaxCount = 2
CHECK_DEADLOCK FALSE
INVARIANTS
    TypeOK
    OwnsSocket
    CrashNeedsClose
    OnlyLateLeaks
    AtMostOnce
PROPERTIES
    Reconnects
    CloseEndsAll
