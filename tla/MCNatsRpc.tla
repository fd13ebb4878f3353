----------------------------- MODULE MCNatsRpc ------------------------------
(* A small instance of NatsRpc for TLC.                                     *)
EXTENDS NatsRpc
CONSTANTS k1, k2
MCCalls == {k1, k2}
MCChanSeqs == {1, 2}
=============================================================================
