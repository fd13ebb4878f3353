------------------------------- MODULE MCWsRpc -------------------------------
(* A small instance of WsRpc for TLC.                                       *)
EXTENDS WsRpc
CONSTANTS k1, k2
MCCalls == {k1, k2}
=============================================================================
