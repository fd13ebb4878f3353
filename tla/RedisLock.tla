------------------------------ MODULE RedisLock ------------------------------
(***************************************************************************)
(* redispool.go: a lock kept in one Redis key, whose value is the time the *)
(* lock was taken.  InitRedisLock tries SETNX; a lock taken Lease seconds  *)
(* ago or more is stolen with GETSET, whose answer tells the thief whether *)
(* somebody was faster.  UnLock deletes the key, whoever wrote it.         *)
(*                                                                         *)
(* A step is one Redis command, atomic at the server.  Time is explicit:   *)
(* the lock can only be correct for clients whose attempts, clock skew and *)
(* holding times together stay below the lease.                            *)
(***************************************************************************)
EXTENDS Integers

CONSTANTS Clients,    \* the callers of InitRedisLock
          NoKey,      \* the value of the key while it does not exist
          Lease,      \* seconds after which a lock may be stolen (60)
          Loops,      \* how often InitRedisLock tries (3)
          MaxAttempt, \* bound: the longest an InitRedisLock takes
          MaxHold,    \* bound: the longest from taking a lock to its DEL
          MaxSkew,    \* bound: how far the clocks of two clients are apart
          MaxTime     \* bound: the time the behaviours run to

ASSUME RedisLockAssumption ==
    /\ NoKey \notin Nat
    /\ Lease \in Nat /\ Loops \in Nat \ {0}
    /\ MaxAttempt \in Nat /\ MaxHold \in Nat /\ MaxSkew \in Nat /\ MaxTime \in Nat
    /\ MaxAttempt + MaxHold + MaxSkew < Lease

VARIABLES now,    \* the time
          key,    \* the value stored at strkey
          client  \* the clients

vars == <<now, key, client>>

Values == Nat \cup {NoKey}

(* A client: where it is, since when (in the attempt, or holding the       *)
(* lock), the local variables nowtime, oldval and loop.                    *)
Idle == [pc |-> "idle", since |-> 0, nowtime |-> 0, oldval |-> NoKey, loop |-> 0]

Trying(c) == client[c].pc \in {"setnx", "get", "getset"}
Holding(c) == client[c].pc \in {"held", "del"}

Init == now = 0 /\ key = NoKey /\ client = [c \in Clients |-> Idle]
-----------------------------------------------------------------------------
(* InitRedisLock reads its clock once, before the first try.               *)
InitRedisLock(c) ==
    /\ client[c].pc = "idle"
    /\ \E nowtime \in now .. now + MaxSkew :
          client' = [client EXCEPT ![c] = [Idle EXCEPT !.pc = "setnx", !.since = now,
                                                       !.nowtime = nowtime]]
    /\ UNCHANGED <<now, key>>

Acquire(c) == client' = [client EXCEPT ![c] = [Idle EXCEPT !.pc = "held", !.since = now]]
Fail(c) == client' = [client EXCEPT ![c] = Idle]

(* Seeded fault (TypeOK): one try too many.                                *)
ContinueOnceMore(c) ==
    IF client[c].loop < Loops
    THEN client' = [client EXCEPT ![c].pc = "setnx", ![c].loop = @ + 1,
                                  ![c].oldval = NoKey]
    ELSE Fail(c)

(* continue: the next try, or "try 3 times fail.".                         *)
Continue(c) ==
    IF client[c].loop + 1 < Loops
    THEN client' = [client EXCEPT ![c].pc = "setnx", ![c].loop = @ + 1,
                                  ![c].oldval = NoKey]
    ELSE Fail(c)

SetNx(c) ==
    /\ client[c].pc = "setnx"
    /\ \/ key = NoKey /\ key' = client[c].nowtime /\ Acquire(c)
       \/ key # NoKey /\ UNCHANGED key
          /\ client' = [client EXCEPT ![c].pc = "get"]
    /\ UNCHANGED now

(* GET: a key that is gone meanwhile is redis.ErrNil; a lock whose lease   *)
(* still runs is respected.                                                *)
Get(c) ==
    /\ client[c].pc = "get"
    /\ IF key = NoKey \/ key + Lease > client[c].nowtime
       THEN Continue(c)
       ELSE client' = [client EXCEPT ![c].pc = "getset", ![c].oldval = key]
    /\ UNCHANGED <<now, key>>

(* Seeded fault (MutualExclusion): the answer of GETSET is not compared.   *)
GetSetUnchecked(c) ==
    /\ client[c].pc = "getset"
    /\ key' = client[c].nowtime
    /\ IF key = NoKey THEN Fail(c) ELSE Acquire(c)
    /\ UNCHANGED now

(* Seeded fault (HolderProtected): a thief that lost removes what it wrote. *)
GetSetUndone(c) ==
    /\ client[c].pc = "getset"
    /\ \/ key = client[c].oldval /\ key # NoKey /\ Acquire(c)
          /\ key' = client[c].nowtime
       \/ key # client[c].oldval /\ Continue(c) /\ key' = NoKey
    /\ UNCHANGED now

(* GETSET writes in any case: also when it comes too late, and when the    *)
(* key is gone, which is an error (ErrNil) that ends the attempt and       *)
(* leaves a lock that nobody holds.                                        *)
GetSet(c) ==
    /\ client[c].pc = "getset"
    /\ key' = client[c].nowtime
    /\ \/ key = NoKey /\ Fail(c)
       \/ key = client[c].oldval /\ key # NoKey /\ Acquire(c)
       \/ key \notin {NoKey, client[c].oldval} /\ Continue(c)
    /\ UNCHANGED now

(* The connection breaks under an attempt: the command may have reached    *)
(* the server or not, every later one fails, and so does the attempt.      *)
Break(c) ==
    /\ Trying(c)
    /\ \/ client[c].pc = "setnx" /\ key = NoKey /\ key' = client[c].nowtime
       \/ client[c].pc = "getset" /\ key' = client[c].nowtime
       \/ UNCHANGED key
    /\ Fail(c)
    /\ UNCHANGED now
-----------------------------------------------------------------------------
(* UnLock: DEL, unless the connection is broken.                           *)
UnLock(c) ==
    /\ client[c].pc = "held"
    /\ client' = [client EXCEPT ![c].pc = "del"]
    /\ UNCHANGED <<now, key>>

Del(c) ==
    /\ client[c].pc = "del"
    /\ key' = NoKey
    /\ client' = [client EXCEPT ![c] = Idle]
    /\ UNCHANGED now

(* A holder that dies, or whose connection does: the key stays.            *)
Abandon(c) ==
    /\ Holding(c)
    /\ client' = [client EXCEPT ![c] = Idle]
    /\ UNCHANGED <<now, key>>
-----------------------------------------------------------------------------
(* Time passes as long as every client keeps within its bound.             *)
Tick ==
    /\ now < MaxTime
    /\ \A c \in Clients : /\ Trying(c) => now < client[c].since + MaxAttempt
                          /\ Holding(c) => now < client[c].since + MaxHold
    /\ now' = now + 1
    /\ UNCHANGED <<key, client>>

ClientStep(c) ==
    \/ InitRedisLock(c) \/ SetNx(c) \/ Get(c) \/ GetSet(c) \/ Break(c)
    \/ UnLock(c) \/ Del(c) \/ Abandon(c)

Next == Tick \/ \E c \in Clients : ClientStep(c)

Spec == Init /\ [][Next]_vars
-----------------------------------------------------------------------------
(* Every variable has its type.                                            *)
TypeOK ==
    /\ now \in Nat
    /\ key \in Values
    /\ client \in [Clients -> [pc : {"idle", "setnx", "get", "getset", "held", "del"},
                               since : Nat, nowtime : Nat, oldval : Values,
                               loop : 0 .. Loops - 1]]

(* At most one client holds the lock, through steals of abandoned locks    *)
(* and commands that come late (redispool.go:135-201).                     *)
MutualExclusion == \A c, d \in Clients : Holding(c) /\ Holding(d) => c = d

(* While a client holds the lock no clock has seen its lease end, though   *)
(* a late GETSET may have replaced the value it wrote.                     *)
HolderProtected == \A c \in Clients :
    Holding(c) => key # NoKey /\ key + Lease > now + MaxSkew
=============================================================================
