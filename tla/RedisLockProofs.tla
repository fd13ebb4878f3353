--------------------------- MODULE RedisLockProofs ---------------------------
(***************************************************************************)
(* The lock of RedisLock excludes, for every number of clients and every   *)
(* choice of times with MaxAttempt + MaxHold + MaxSkew < Lease.            *)
(*                                                                         *)
(* The value of the key is not the holder's: a late GETSET may have put a  *)
(* loser's older time there.  What is inductive is a bound: while a client *)
(* holds the lock the value is at most MaxAttempt older than the moment it *)
(* took it, because every writer read its clock that recently.  A thief    *)
(* needs a value it saw expired, and such a value is older than that.      *)
(***************************************************************************)
EXTENDS RedisLock, TLAPS

(* Every client keeps within its bounds, and its clock within the skew.    *)
Timely ==
    \A c \in Clients :
        /\ Trying(c) => /\ client[c].since <= now
                        /\ now <= client[c].since + MaxAttempt
                        /\ client[c].since <= client[c].nowtime
                        /\ client[c].nowtime <= client[c].since + MaxSkew
        /\ Holding(c) => /\ client[c].since <= now
                         /\ now <= client[c].since + MaxHold

(* A thief has seen a value whose lease was over by its own clock.         *)
ExpiredSeen ==
    \A c \in Clients : client[c].pc = "getset" =>
        client[c].oldval # NoKey /\ client[c].oldval + Lease <= client[c].nowtime

(* While a client holds the lock the key is there, and not much older.     *)
Fresh ==
    \A c \in Clients : Holding(c) =>
        key # NoKey /\ client[c].since <= key + MaxAttempt

IInv == TypeOK /\ Timely /\ ExpiredSeen /\ Fresh /\ MutualExclusion
-----------------------------------------------------------------------------
(* Nobody can take the lock from a holder: a value that a thief has seen   *)
(* expired is not the one stored while somebody holds.                     *)
LEMMA NoTheft ==
    ASSUME IInv, NEW c \in Clients, NEW d \in Clients,
           Holding(c), client[d].pc = "getset"
    PROVE  key # client[d].oldval
<1>1. /\ key \in Nat /\ now \in Nat
      /\ client[c].since \in Nat /\ client[d].since \in Nat
      /\ client[d].nowtime \in Nat /\ client[d].oldval \in Nat
  BY DEF IInv, TypeOK, Fresh, ExpiredSeen, Values
<1>2. client[c].since <= key + MaxAttempt /\ now <= client[c].since + MaxHold
  BY DEF IInv, Fresh, Timely
<1>3. Trying(d)
  BY DEF Trying
<1>4. client[d].nowtime <= client[d].since + MaxSkew /\ client[d].since <= now
  BY <1>3 DEF IInv, Timely
<1>5. client[d].oldval + Lease <= client[d].nowtime
  BY DEF IInv, ExpiredSeen
<1>6. now <= key + MaxAttempt + MaxHold
  BY <1>1, <1>2, RedisLockAssumption
<1>7. client[d].oldval + Lease <= now + MaxSkew
  BY <1>1, <1>4, <1>5, RedisLockAssumption
<1> QED
  BY <1>1, <1>6, <1>7, RedisLockAssumption

LEMMA InitIInv == Init => IInv
<1> SUFFICES ASSUME Init PROVE IInv
  OBVIOUS
<1>1. Idle \in [pc : {"idle", "setnx", "get", "getset", "held", "del"}, since : Nat,
                nowtime : Nat, oldval : Values, loop : 0 .. Loops - 1]
  BY RedisLockAssumption DEF Idle, Values
<1>2. TypeOK
  BY <1>1 DEF Init, TypeOK, Values
<1>3. \A c \in Clients : client[c].pc = "idle"
  BY DEF Init, Idle
<1> QED
  BY <1>2, <1>3 DEF IInv, Timely, ExpiredSeen, Fresh, MutualExclusion, Trying, Holding
-----------------------------------------------------------------------------
ClientRec == [pc : {"idle", "setnx", "get", "getset", "held", "del"},
              since : Nat, nowtime : Nat, oldval : Values, loop : 0 .. Loops - 1]

Tries(r) == r.pc \in {"setnx", "get", "getset"}
Holds(r) == r.pc \in {"held", "del"}

(* What the invariant asks of one client, with value v in the key.         *)
Good(r, v) ==
    /\ Tries(r) => /\ r.since <= now
                   /\ now <= r.since + MaxAttempt
                   /\ r.since <= r.nowtime
                   /\ r.nowtime <= r.since + MaxSkew
    /\ Holds(r) => /\ r.since <= now
                   /\ now <= r.since + MaxHold
                   /\ v # NoKey /\ r.since <= v + MaxAttempt
    /\ r.pc = "getset" => r.oldval # NoKey /\ r.oldval + Lease <= r.nowtime

LEMMA AllGood ==
    ASSUME IInv, NEW c \in Clients
    PROVE  client[c] \in ClientRec /\ Good(client[c], key)
<1>1. client[c] \in ClientRec
  BY DEF IInv, TypeOK, ClientRec
<1>2. Good(client[c], key)
  BY DEF IInv, Timely, ExpiredSeen, Fresh, Good, Tries, Holds, Trying, Holding
<1> QED
  BY <1>1, <1>2

(* A step of one client keeps the invariant if its new record is good, the *)
(* holders still find a fresh key, and it is not a second holder.          *)
LEMMA Update ==
    ASSUME IInv, NEW c \in Clients, NEW r \in ClientRec,
           client' = [client EXCEPT ![c] = r], now' = now, key' \in Values,
           Good(r, key'),
           \A d \in Clients \ {c} : Holding(d) =>
               /\ ~Holds(r)
               /\ key' # NoKey /\ client[d].since <= key' + MaxAttempt
    PROVE  IInv'
<1>1. client \in [Clients -> ClientRec] /\ now \in Nat
  BY DEF IInv, TypeOK, ClientRec
<1>2. client' \in [Clients -> ClientRec]
  BY <1>1
<1>3. TypeOK'
  BY <1>1, <1>2 DEF TypeOK, ClientRec
<1>4. client'[c] = r /\ \A d \in Clients \ {c} : client'[d] = client[d]
  BY <1>1
<1>5. ASSUME NEW d \in Clients
      PROVE  /\ (Trying(d) => /\ client[d].since <= now
                              /\ now <= client[d].since + MaxAttempt
                              /\ client[d].since <= client[d].nowtime
                              /\ client[d].nowtime <= client[d].since + MaxSkew)'
             /\ (Holding(d) => /\ client[d].since <= now
                               /\ now <= client[d].since + MaxHold)'
             /\ (client[d].pc = "getset" =>
                    client[d].oldval # NoKey /\ client[d].oldval + Lease <= client[d].nowtime)'
             /\ (Holding(d) => key # NoKey /\ client[d].since <= key + MaxAttempt)'
  <2>1. CASE d = c
    BY <1>4, <2>1 DEF Good, Tries, Holds, Trying, Holding
  <2>2. CASE d # c
    <3>1. Good(client[d], key)
      BY AllGood
    <3>2. client'[d] = client[d]
      BY <1>4, <2>2
    <3> QED
      BY <2>2, <3>1, <3>2 DEF Good, Tries, Holds, Trying, Holding
  <2> QED
    BY <2>1, <2>2
<1>6. Timely' /\ ExpiredSeen' /\ Fresh'
  BY <1>5 DEF Timely, ExpiredSeen, Fresh
<1>7. MutualExclusion'
  <2> SUFFICES ASSUME NEW a \in Clients, NEW b \in Clients, Holding(a)', Holding(b)'
               PROVE  a = b
    BY DEF MutualExclusion
  <2>1. CASE a # c /\ b # c
    BY <1>4, <2>1 DEF IInv, MutualExclusion, Holding
  <2>2. CASE a = c \/ b = c
    BY <1>4, <2>2 DEF Holding, Holds
  <2> QED
    BY <2>1, <2>2
<1> QED
  BY <1>3, <1>6, <1>7 DEF IInv

(* The value an attempt writes is fresh for every holder.                  *)
LEMMA WriterFresh ==
    ASSUME IInv, NEW c \in Clients, Trying(c)
    PROVE  /\ client[c].nowtime \in Nat
           /\ now <= client[c].nowtime + MaxAttempt
           /\ \A d \in Clients : Holding(d) =>
                 client[d].since <= client[c].nowtime + MaxAttempt
<1>1. /\ client[c].since \in Nat /\ client[c].nowtime \in Nat /\ now \in Nat
      /\ \A d \in Clients : client[d].since \in Nat
  BY DEF IInv, TypeOK
<1>2. now <= client[c].since + MaxAttempt /\ client[c].since <= client[c].nowtime
  BY DEF IInv, Timely
<1>3. now <= client[c].nowtime + MaxAttempt
  BY <1>1, <1>2, RedisLockAssumption
<1>4. ASSUME NEW d \in Clients, Holding(d)
      PROVE  client[d].since <= client[c].nowtime + MaxAttempt
  <2>1. client[d].since <= now
    BY <1>4 DEF IInv, Timely
  <2> QED
    BY <1>1, <1>3, <2>1, RedisLockAssumption
<1> QED
  BY <1>1, <1>3, <1>4
-----------------------------------------------------------------------------
(* The ways an attempt ends, with the key kept or the attempt's own value  *)
(* written; each keeps the invariant.                                      *)
LEMMA IdleGood ==
    ASSUME IInv, NEW v
    PROVE  Idle \in ClientRec /\ Good(Idle, v)
BY RedisLockAssumption DEF Idle, ClientRec, Good, Tries, Holds, Values

LEMMA FailKeeps ==
    ASSUME IInv, NEW c \in Clients, Fail(c), now' = now,
           \/ key' = key
           \/ Trying(c) /\ key' = client[c].nowtime
    PROVE  IInv'
<1>1. key' \in Values
  BY WriterFresh DEF IInv, TypeOK, Values
<1>2. \A d \in Clients : Holding(d) => key' # NoKey /\ client[d].since <= key' + MaxAttempt
  BY WriterFresh, RedisLockAssumption DEF IInv, Fresh
<1>3. client' = [client EXCEPT ![c] = Idle]
  BY DEF Fail
<1>4. ~Holds(Idle)
  BY DEF Holds, Idle
<1> HIDE DEF Idle
<1> QED
  BY <1>1, <1>2, <1>3, <1>4, IdleGood, Update

LEMMA ContinueKeeps ==
    ASSUME IInv, NEW c \in Clients, Trying(c), Continue(c), now' = now,
           key' = key \/ key' = client[c].nowtime
    PROVE  IInv'
<1>1. CASE Fail(c)
  BY <1>1, FailKeeps
<1>2. CASE ~Fail(c)
  <2> DEFINE r == [client[c] EXCEPT !.pc = "setnx", !.loop = client[c].loop + 1,
                                    !.oldval = NoKey]
  <2>1. client[c].loop + 1 < Loops /\ client' = [client EXCEPT ![c] = r]
    BY <1>2 DEF Continue
  <2>2. client[c] \in ClientRec /\ Good(client[c], key)
    BY AllGood
  <2>3. r \in ClientRec
    <3>1. client[c].loop \in 0 .. Loops - 1
      BY <2>2 DEF ClientRec
    <3>2. client[c].loop + 1 \in 0 .. Loops - 1
      BY <2>1, <3>1, RedisLockAssumption
    <3>3. NoKey \in Values
      BY DEF Values
    <3> QED
      BY <2>2, <3>2, <3>3 DEF ClientRec
  <2>4. Good(r, key') /\ ~Holds(r)
    BY <2>2 DEF Good, Tries, Holds, Trying, ClientRec
  <2>5. key' \in Values
    BY WriterFresh DEF IInv, TypeOK, Values
  <2>6. \A d \in Clients : Holding(d) => key' # NoKey /\ client[d].since <= key' + MaxAttempt
    BY WriterFresh, RedisLockAssumption DEF IInv, Fresh
  <2> HIDE DEF r
  <2> QED
    BY <2>1, <2>3, <2>4, <2>5, <2>6, Update
<1> QED
  BY <1>1, <1>2

(* An attempt that writes while nobody holds the lock takes it.            *)
LEMMA AcquireKeeps ==
    ASSUME IInv, NEW c \in Clients, Trying(c), Acquire(c), now' = now,
           key' = client[c].nowtime,
           \A d \in Clients : ~Holding(d)
    PROVE  IInv'
<1> DEFINE r == [Idle EXCEPT !.pc = "held", !.since = now]
<1>1. now \in Nat
  BY DEF IInv, TypeOK
<1>2. r \in ClientRec
  <2>1. Idle \in ClientRec
    BY IdleGood
  <2> HIDE DEF Idle
  <2> QED
    BY <1>1, <2>1 DEF ClientRec
<1>3. key' \in Nat /\ now <= key' + MaxAttempt
  BY WriterFresh
<1>4. Good(r, key')
  BY <1>1, <1>3, RedisLockAssumption DEF Good, Tries, Holds, Idle
<1>5. client' = [client EXCEPT ![c] = r]
  BY DEF Acquire
<1> HIDE DEF r
<1> QED
  BY <1>2, <1>3, <1>4, <1>5, Update DEF Values
-----------------------------------------------------------------------------
LEMMA AttemptStep ==
    ASSUME IInv, NEW c \in Clients,
           InitRedisLock(c) \/ SetNx(c) \/ Get(c) \/ GetSet(c) \/ Break(c)
    PROVE  IInv'
<1>0. /\ now \in Nat /\ key \in Values
      /\ client[c] \in ClientRec /\ Good(client[c], key)
  BY AllGood DEF IInv, TypeOK
<1>k. \A d \in Clients : Holding(d) => key # NoKey /\ client[d].since <= key + MaxAttempt
  BY DEF IInv, Fresh
<1>1. CASE InitRedisLock(c)
  <2>1. PICK nowtime \in now .. now + MaxSkew :
          client' = [client EXCEPT ![c] = [Idle EXCEPT !.pc = "setnx", !.since = now,
                                                       !.nowtime = nowtime]]
    BY <1>1 DEF InitRedisLock
  <2> DEFINE r == [Idle EXCEPT !.pc = "setnx", !.since = now, !.nowtime = nowtime]
  <2>2. nowtime \in Nat /\ now <= nowtime /\ nowtime <= now + MaxSkew
    BY <1>0, RedisLockAssumption
  <2>3. r \in ClientRec
    <3>1. Idle \in ClientRec
      BY IdleGood
    <3> HIDE DEF Idle
    <3> QED
      BY <1>0, <2>2, <3>1 DEF ClientRec
  <2>4. Good(r, key) /\ ~Holds(r)
    BY <1>0, <2>2, RedisLockAssumption DEF Good, Tries, Holds, Idle
  <2>5. now' = now /\ key' = key
    BY <1>1 DEF InitRedisLock
  <2> HIDE DEF r
  <2> QED
    BY <1>0, <1>k, <2>1, <2>3, <2>4, <2>5, Update DEF r
<1>2. CASE SetNx(c)
  <2>1. Trying(c) /\ now' = now
    BY <1>2 DEF SetNx, Trying
  <2>2. CASE key = NoKey /\ key' = client[c].nowtime /\ Acquire(c)
    BY <1>k, <2>1, <2>2, AcquireKeeps
  <2>3. CASE key # NoKey /\ UNCHANGED key /\ client' = [client EXCEPT ![c].pc = "get"]
    <3> DEFINE r == [client[c] EXCEPT !.pc = "get"]
    <3>1. r \in ClientRec
      BY <1>0 DEF ClientRec
    <3>2. Good(r, key) /\ ~Holds(r)
      BY <1>0, <2>1 DEF Good, Tries, Holds, Trying, ClientRec
    <3>3. client' = [client EXCEPT ![c] = r]
      BY <2>3
    <3> HIDE DEF r
    <3> QED
      BY <1>0, <1>k, <2>1, <2>3, <3>1, <3>2, <3>3, Update
  <2> QED
    BY <1>2, <2>2, <2>3 DEF SetNx
<1>3. CASE Get(c)
  <2>1. Trying(c) /\ now' = now /\ key' = key
    BY <1>3 DEF Get, Trying
  <2>2. CASE Continue(c)
    BY <2>1, <2>2, ContinueKeeps
  <2>3. CASE ~Continue(c)
    <3> DEFINE r == [client[c] EXCEPT !.pc = "getset", !.oldval = key]
    <3>1. /\ key # NoKey /\ ~(key + Lease > client[c].nowtime)
          /\ client' = [client EXCEPT ![c] = r]
      BY <1>3, <2>3 DEF Get
    <3>2. key \in Nat /\ client[c].nowtime \in Nat
      BY <1>0, <3>1 DEF Values, ClientRec
    <3>3. r \in ClientRec
      BY <1>0 DEF ClientRec
    <3>4. key + Lease <= client[c].nowtime
      BY <3>1, <3>2, RedisLockAssumption
    <3>5. Good(r, key) /\ ~Holds(r)
      BY <1>0, <2>1, <3>1, <3>4 DEF Good, Tries, Holds, Trying, ClientRec
    <3> HIDE DEF r
    <3> QED
      BY <1>0, <1>k, <2>1, <3>1, <3>3, <3>5, Update
  <2> QED
    BY <2>2, <2>3
<1>4. CASE GetSet(c)
  <2>1. Trying(c) /\ now' = now /\ key' = client[c].nowtime /\ client[c].pc = "getset"
    BY <1>4 DEF GetSet, Trying
  <2>2. CASE key = NoKey /\ Fail(c)
    BY <2>1, <2>2, FailKeeps
  <2>3. CASE key = client[c].oldval /\ key # NoKey /\ Acquire(c)
    <3>1. \A d \in Clients : ~Holding(d)
      BY <2>1, <2>3, NoTheft
    <3> QED
      BY <2>1, <2>3, <3>1, AcquireKeeps
  <2>4. CASE key \notin {NoKey, client[c].oldval} /\ Continue(c)
    BY <2>1, <2>4, ContinueKeeps
  <2> QED
    BY <1>4, <2>2, <2>3, <2>4 DEF GetSet
<1>5. CASE Break(c)
  BY <1>5, FailKeeps DEF Break
<1> QED
  BY <1>1, <1>2, <1>3, <1>4, <1>5

LEMMA HolderStep ==
    ASSUME IInv, NEW c \in Clients, UnLock(c) \/ Del(c) \/ Abandon(c)
    PROVE  IInv'
<1>0. Holding(c) /\ now' = now /\ key \in Values
  BY DEF UnLock, Del, Abandon, Holding, IInv, TypeOK
<1>1. CASE UnLock(c)
  <2> DEFINE r == [client[c] EXCEPT !.pc = "del"]
  <2>1. client[c] \in ClientRec /\ Good(client[c], key)
    BY AllGood
  <2>2. r \in ClientRec
    BY <2>1 DEF ClientRec
  <2>3. Good(r, key)
    BY <1>0, <2>1 DEF Good, Tries, Holds, Holding, ClientRec
  <2>4. key' = key /\ client' = [client EXCEPT ![c] = r]
    BY <1>1 DEF UnLock
  <2>5. \A d \in Clients \ {c} : ~Holding(d)
    BY <1>0 DEF IInv, MutualExclusion
  <2> HIDE DEF r
  <2> QED
    BY <1>0, <2>2, <2>3, <2>4, <2>5, Update
<1>2. CASE Del(c)
  <2>1. key' \in Values /\ client' = [client EXCEPT ![c] = Idle]
    BY <1>2 DEF Del, Values
  <2>2. \A d \in Clients \ {c} : ~Holding(d)
    BY <1>0 DEF IInv, MutualExclusion
  <2> HIDE DEF Idle
  <2> QED
    BY <1>0, <2>1, <2>2, IdleGood, Update
<1>3. CASE Abandon(c)
  BY <1>0, <1>3, FailKeeps DEF Abandon, Fail
<1> QED
  BY <1>1, <1>2, <1>3

LEMMA InvStep == IInv /\ [Next]_vars => IInv'
<1> SUFFICES ASSUME IInv, [Next]_vars PROVE IInv'
  OBVIOUS
<1>1. CASE Tick
  <2>0. now \in Nat /\ now' = now + 1 /\ UNCHANGED <<key, client>>
    BY <1>1 DEF Tick, IInv, TypeOK
  <2>1. TypeOK'
    BY <2>0 DEF IInv, TypeOK
  <2>2. ASSUME NEW c \in Clients
        PROVE  /\ Trying(c) => now' <= client[c].since + MaxAttempt /\ client[c].since <= now'
               /\ Holding(c) => now' <= client[c].since + MaxHold /\ client[c].since <= now'
    <3>1. client[c].since \in Nat
      BY DEF IInv, TypeOK
    <3> QED
      BY <1>1, <2>0, <3>1, RedisLockAssumption DEF Tick, IInv, Timely
  <2>3. Timely'
    BY <2>0, <2>2 DEF IInv, Timely, Trying, Holding
  <2>4. ExpiredSeen' /\ Fresh' /\ MutualExclusion'
    BY <2>0 DEF IInv, ExpiredSeen, Fresh, MutualExclusion, Holding
  <2> QED
    BY <2>1, <2>3, <2>4 DEF IInv
<1>2. CASE \E c \in Clients : ClientStep(c)
  BY <1>2, AttemptStep, HolderStep DEF ClientStep
<1>3. CASE UNCHANGED vars
  BY <1>3 DEF vars, IInv, TypeOK, Timely, ExpiredSeen, Fresh, MutualExclusion, Trying, Holding
<1> QED
  BY <1>1, <1>2, <1>3 DEF Next
-----------------------------------------------------------------------------
(* The inductive invariant holds in every reachable state.                 *)
THEOREM Invariance == Spec => []IInv
BY InitIInv, InvStep, PTL DEF Spec

(* Every variable keeps its type (the redispool.go lock's local variables  *)
(* and key), for every number of clients and choice of times.              *)
THEOREM Typing == Spec => []TypeOK
<1>1. IInv => TypeOK
  BY DEF IInv
<1> QED
  BY <1>1, Invariance, PTL

(* The lock excludes: two clients never hold it together, whatever steals, *)
(* late commands, crashes and broken connections there are.                *)
THEOREM Exclusion == Spec => []MutualExclusion
<1>1. IInv => MutualExclusion
  BY DEF IInv
<1> QED
  BY <1>1, Invariance, PTL

(* While a client holds the lock its lease is over by nobody's clock.      *)
THEOREM Protection == Spec => []HolderProtected
<1>1. IInv => HolderProtected
  <2> SUFFICES ASSUME IInv, NEW c \in Clients, Holding(c)
               PROVE  key # NoKey /\ key + Lease > now + MaxSkew
    BY DEF HolderProtected
  <2>1. key # NoKey /\ client[c].since <= key + MaxAttempt
    BY DEF IInv, Fresh
  <2>2. now <= client[c].since + MaxHold
    BY DEF IInv, Timely
  <2>3. key \in Nat /\ now \in Nat /\ client[c].since \in Nat
    BY <2>1 DEF IInv, TypeOK, Values
  <2> QED
    BY <2>1, <2>2, <2>3, RedisLockAssumption
<1> QED
  BY <1>1, Invariance, PTL
=============================================================================
