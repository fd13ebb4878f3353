---------------------------- MODULE MCRedisLock -----------------------------
(* A small instance of RedisLock for TLC.                                   *)
EXTENDS RedisLock, TLC
CONSTANTS c1, c2, c3
MCClients == {c1, c2, c3}
Sym == Permutations(MCClients)
=============================================================================
