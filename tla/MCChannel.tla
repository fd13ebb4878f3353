----------------------------- MODULE MCChannel ------------------------------
(* Small instances of Channel for TLC.                                      *)
EXTENDS Channel, TLC

CONSTANTS c1, c2, p1, p2
MCChans == {c1, c2}
MCOneChan == {c1}
MCProcs == {p1, p2}
MCHighs == {0, -255}           \* no type, and 0x01 after & 0xFF
MCNoType == {0}
Sym == Permutations(MCChans) \cup Permutations(MCProcs)
=============================================================================
