------------------------------ MODULE MCWsConn ------------------------------
(* A small instance of WsConn for TLC.                                      *)
EXTENDS WsConn
CONSTANTS s1, s2
MCSocks == {s1, s2}
=============================================================================
