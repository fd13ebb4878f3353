\* As in WsConn.cfg.
SPECIFICATION Spec
CONSTANTS
    s1 = s1  s2 = s2  Nil = Nil  App = App
    Socks <- MCSocks
    SendLen = 1
    MaxSend = 1
    MaxCount = 2
CHECK_DEADLOCK FALSE
INVARIANTS
    ClientCanSend
