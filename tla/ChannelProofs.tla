---------------------------- MODULE ChannelProofs ----------------------------
(***************************************************************************)
(* Proofs about module Channel, for any number of channels, goroutines and *)
(* pushes and any capacity.                                                *)
(***************************************************************************)
EXTENDS Channel, SequenceTheorems, TLAPS

Low(seq) == seq % SeqShift

(* Every sequence carries a counter value that was drawn once.             *)
CountersUnique ==
    /\ rpcSequence \in Nat \ {0}
    /\ \A c \in Chans : Allocated(c) => Low(chan[c].seq) \in 1 .. rpcSequence
    /\ \A c, d \in Chans :
          Allocated(c) /\ Allocated(d) /\ Low(chan[c].seq) = Low(chan[d].seq) => c = d

(* The map only holds allocated channels, each under its own sequence.     *)
MapMatches == \A s \in DOMAIN channelMap :
    Allocated(channelMap[s]) /\ chan[channelMap[s]].seq = s

Registered(c) == \E s \in DOMAIN channelMap : channelMap[s] = c

(* A channel being created is known to its creator only; one being closed  *)
(* or closed is out of the map, and is not one being created.              *)
Lifecycle ==
    /\ \A p \in Procs : op[p].pc = "store" =>
          /\ Allocated(op[p].ch)
          /\ ~chan[op[p].ch].closed
          /\ \A q \in Procs :
                /\ op[q].pc = "store" /\ op[q].ch = op[p].ch => q = p
                /\ ~(op[q].pc \in {"closeClosed", "closeResp"} /\ op[q].ch = op[p].ch)
    /\ \A p \in Procs : op[p].pc \in {"closeClosed", "closeResp"} =>
          Allocated(op[p].ch) /\ ~Registered(op[p].ch)
    /\ \A c \in Chans : chan[c].closed => Allocated(c) /\ ~Registered(c)

(* A message about to be pushed is addressed to the channel at hand.       *)
Addressed ==
    \A p \in Procs :
        /\ op[p].pc = "range" => op[p].msg.dest = 0
        /\ op[p].pc = "push" => /\ Allocated(op[p].ch)
                                /\ op[p].msg.dest \in {0, chan[op[p].ch].seq}
        /\ op[p].range = "all" => op[p].pc \in {"range", "push"} /\ op[p].msg.dest = 0

IInv == /\ TypeOK
        /\ CountersUnique
        /\ MapMatches
        /\ Lifecycle
        /\ Addressed
        /\ RoutedBySequence
        /\ DeliveredIsPrefix
-----------------------------------------------------------------------------
LEMMA TimesAtLeast ==
    ASSUME NEW k \in Nat, NEW S \in Nat \ {0}, k >= 1
    PROVE  k * S \in Nat /\ k * S >= S
<1>1. k - 1 \in Nat
  BY SMT
<1>2. \A a, b \in Nat : a * b \in Nat
  BY SMT
<1>3. k * S = (k - 1) * S + S
  BY <1>1, SMT
<1> QED
  BY <1>1, <1>2, <1>3

(* Division with remainder has one result.                                 *)
LEMMA DivisionUnique ==
    ASSUME NEW S \in Nat \ {0}, NEW h \in Nat, NEW q \in Nat,
           NEW n \in 0 .. (S - 1), NEW r \in 0 .. (S - 1),
           n + h * S = q * S + r
    PROVE  h = q /\ n = r
<1>1. ASSUME NEW a \in Nat, NEW b \in Nat, a > b,
             NEW u \in 0 .. (S - 1), NEW v \in 0 .. (S - 1),
             a * S + u = b * S + v
      PROVE  FALSE
  <2>1. PICK k \in Nat : k >= 1 /\ a = b + k
    BY <1>1
  <2>2. a * S = b * S + k * S
    BY <2>1
  <2>3. k * S \in Nat /\ k * S >= S
    BY <2>1, TimesAtLeast
  <2>4. a * S \in Nat /\ b * S \in Nat
    OBVIOUS
  <2> QED
    BY <1>1, <2>2, <2>3, <2>4
<1>2. h * S + n = q * S + r /\ h * S \in Nat /\ q * S \in Nat
  OBVIOUS
<1>3. h = q
  BY <1>1, <1>2
<1> QED
  BY <1>2, <1>3

(* The low part of a sequence is its counter and the high part the type    *)
(* byte, as long as the counter stays below 2^56 (channel.go:29-31, 65-68).*)
LEMMA SequenceParts ==
    ASSUME NEW n \in Nat, n < SeqShift, NEW high8 \in Highs
    PROVE  /\ Sequence(n, high8) \in Nat
           /\ Sequence(n, high8) >= n
           /\ Low(Sequence(n, high8)) = n
           /\ GetSeqType(Sequence(n, high8)) = high8 % 256
<1> DEFINE h == high8 % 256
           x == n + h * SeqShift
<1>1. h \in Nat /\ SeqShift \in Nat \ {0}
  BY ChannelAssumption
<1>2. h * SeqShift \in Nat
  BY <1>1
<1>3. x \in Nat /\ x >= n
  BY <1>2
<1>4. /\ x \div SeqShift \in Nat
      /\ x % SeqShift \in 0 .. (SeqShift - 1)
      /\ x = (x \div SeqShift) * SeqShift + (x % SeqShift)
  <2> HIDE DEF x
  <2>1. x = SeqShift * (x \div SeqShift) + (x % SeqShift) /\ x \div SeqShift \in Nat
    BY <1>1, <1>3
  <2> QED
    BY <1>1, <1>3, <2>1
<1>5. h = x \div SeqShift /\ n = x % SeqShift
  <2>1. n \in 0 .. (SeqShift - 1)
    BY <1>1
  <2>2. n + h * SeqShift = (x \div SeqShift) * SeqShift + (x % SeqShift)
    BY <1>4
  <2> HIDE DEF x, h
  <2> QED
    BY <1>1, <1>4, <2>1, <2>2, DivisionUnique
<1> QED
  BY <1>3, <1>5 DEF Sequence, Low, GetSeqType

LEMMA AppendAfter ==
    ASSUME NEW S, NEW d \in Seq(S), NEW b \in Seq(S), NEW m \in S
    PROVE  Append(d \o b, m) = d \o Append(b, m)
<1> DEFINE x == Append(d \o b, m)
           y == d \o Append(b, m)
<1>1. /\ x \in Seq(S) /\ y \in Seq(S)
      /\ Len(x) = Len(y)
  BY ConcatProperties, AppendProperties
<1>2. \A i \in 1 .. Len(x) : x[i] = y[i]
  BY ConcatProperties, AppendProperties
<1> QED
  BY <1>1, <1>2, SeqEqual

LEMMA MoveHead ==
    ASSUME NEW S, NEW d \in Seq(S), NEW b \in Seq(S), b # << >>
    PROVE  d \o b = Append(d, Head(b)) \o Tail(b)
  BY ConcatProperties, AppendProperties, SeqEqual, HeadTailProperties
-----------------------------------------------------------------------------
LEMMA InitIInv == Init => IInv
  BY ChannelAssumption, EmptySeq, ConcatEmptySeq
     DEF Init, IInv, TypeOK, CallsOK, NeedsChannel, CountersUnique, MapMatches, Lifecycle, Addressed,
         RoutedBySequence, DeliveredIsPrefix, Idle, NoMessage, Unallocated,
         ChannelRec, Message, OpRec, PC, Results, NoEntries, Allocated, Low, Registered
-----------------------------------------------------------------------------
LEMMA TypeStep == TypeOK /\ [Next]_vars => TypeOK'
<1> SUFFICES ASSUME TypeOK, [Next]_vars
             PROVE  TypeOK'
  OBVIOUS
<1>op. CallsOK
  BY DEF TypeOK
<1>ret. Idle \in OpRec /\ ~NeedsChannel(Idle)
  BY DEF Idle, OpRec, PC, NoMessage, Message, NeedsChannel
<1>begin. ASSUME NEW p \in Procs, NEW call \in OpRec, Begin(p, call),
                 NeedsChannel(call) => call.ch \in Chans
          PROVE  CallsOK'
  BY <1>begin, <1>op DEF CallsOK, Begin, Results
<1>return. ASSUME NEW p \in Procs, NEW res \in Results, Return(p, res)
           PROVE  CallsOK'
  BY <1>return, <1>op, <1>ret DEF Return, CallsOK
<1>1. ASSUME NEW p \in Procs, NEW c \in Chans, NEW high8 \in Highs,
             NewChannel(p, c, high8)
      PROVE  TypeOK'
  <2>1. rpcSequence + 1 \in Nat /\ rpcSequence + 1 < SeqShift
    BY <1>1 DEF NewChannel, TypeOK
  <2>2. Sequence(rpcSequence + 1, high8) \in Nat
    BY <2>1, SequenceParts
  <2>3. chan' \in [Chans -> ChannelRec]
    BY <1>1, <2>2 DEF NewChannel, TypeOK, ChannelRec
  <2>4. [Idle EXCEPT !.pc = "store", !.ch = c] \in OpRec
    BY DEF Idle, OpRec, PC, NoMessage, Message
  <2>5. CallsOK'
    BY <1>1, <2>4, <1>begin DEF NewChannel, Idle
  <2> QED
    BY <1>1, <2>1, <2>3, <2>5 DEF NewChannel, TypeOK
<1>2. ASSUME NEW p \in Procs, NewChannelStore(p)
      PROVE  TypeOK'
  <2>1. CallsOK'
    BY <1>2, <1>return DEF NewChannelStore, Results
  <2>2. op[p].ch \in Chans /\ chan[op[p].ch].seq \in Nat
    BY <1>2, <1>op DEF NewChannelStore, CallsOK, NeedsChannel, TypeOK, ChannelRec
  <2>3. /\ DOMAIN channelMap' \subseteq Nat
        /\ \A s \in DOMAIN channelMap' : channelMap'[s] \in Chans
    BY <1>2, <2>2 DEF NewChannelStore, MapStore, TypeOK
  <2> QED
    BY <1>2, <2>1, <2>3 DEF NewChannelStore, TypeOK
<1>3. ASSUME NEW p \in Procs, NEW c \in Chans, DelChannel(p, c)
      PROVE  TypeOK'
  <2>1. [Idle EXCEPT !.pc = "closeClosed", !.ch = c] \in OpRec
    BY DEF Idle, OpRec, PC, NoMessage, Message
  <2>2. CallsOK'
    BY <1>3, <2>1, <1>begin DEF DelChannel, Idle
  <2>3. /\ DOMAIN channelMap' \subseteq Nat
        /\ \A s \in DOMAIN channelMap' : channelMap'[s] \in Chans
    BY <1>3 DEF DelChannel, MapDelete, TypeOK
  <2> QED
    BY <1>3, <2>2, <2>3 DEF DelChannel, TypeOK
<1>4. ASSUME NEW p \in Procs, CloseClosed(p)
      PROVE  TypeOK'
  <2>1. CASE chan[op[p].ch].closed
    <3>1. CallsOK'
      BY <1>4, <2>1, <1>return DEF CloseClosed, Results
    <3> QED
      BY <1>4, <2>1, <3>1 DEF CloseClosed, TypeOK, mgrVars
  <2>2. CASE ~chan[op[p].ch].closed
    <3>1. op[p] \in OpRec /\ op[p].ch \in Chans
      BY <1>4, <1>op DEF CloseClosed, CallsOK, NeedsChannel
    <3>2. [op[p] EXCEPT !.pc = "closeResp"] \in OpRec
      BY <3>1 DEF OpRec, PC
    <3>3. op' = [op EXCEPT ![p] = [op[p] EXCEPT !.pc = "closeResp"]] /\ UNCHANGED result
      BY <1>4, <2>2 DEF CloseClosed
    <3>4. CallsOK'
      BY <3>1, <3>2, <3>3, <1>op DEF CallsOK
    <3>5. chan' \in [Chans -> ChannelRec]
      <4>1. chan \in [Chans -> ChannelRec]
        BY DEF TypeOK
      <4>2. chan' = [chan EXCEPT ![op[p].ch].closed = TRUE]
        BY <1>4, <2>2 DEF CloseClosed
      <4> QED
        BY <3>1, <4>1, <4>2 DEF ChannelRec
    <3> QED
      BY <1>4, <3>4, <3>5 DEF CloseClosed, TypeOK, mgrVars
  <2> QED
    BY <2>1, <2>2
<1>5. ASSUME NEW p \in Procs, CloseResp(p)
      PROVE  TypeOK'
  <2>1. CallsOK'
    BY <1>5, <1>return DEF CloseResp, Results
  <2>2. chan' \in [Chans -> ChannelRec]
    BY <1>5 DEF CloseResp, TypeOK, ChannelRec
  <2> QED
    BY <1>5, <2>1, <2>2 DEF CloseResp, TypeOK, mgrVars
<1>start. ASSUME NEW p \in Procs, NEW call \in OpRec, StartPush(p, call),
                 NeedsChannel(call) => call.ch \in Chans
          PROVE  TypeOK'
  BY <1>start, <1>begin DEF StartPush, TypeOK, mgrVars
<1>id. pushes + 1 \in Nat /\ DOMAIN channelMap \in SUBSET Nat
  BY DEF TypeOK
<1>6. ASSUME NEW p \in Procs, NEW c \in Chans, Direct(p, c)
      PROVE  TypeOK'
  <2>1. [Idle EXCEPT !.pc = "push", !.ch = c, !.msg.id = pushes + 1] \in OpRec
    BY <1>id DEF Idle, OpRec, PC, NoMessage, Message
  <2> QED
    BY <1>6, <2>1, <1>start DEF Direct, Idle
<1>7. ASSUME NEW p \in Procs, NEW seq \in KnownSeqs, PushChannelMsg(p, seq)
      PROVE  TypeOK'
  <2>1. seq \in Nat
    BY DEF KnownSeqs, TypeOK, ChannelRec
  <2>2. [Idle EXCEPT !.pc = "load", !.msg = [dest |-> seq, id |-> pushes + 1]] \in OpRec
    BY <2>1, <1>id DEF Idle, OpRec, PC, NoMessage, Message
  <2> QED
    BY <1>7, <2>2, <1>start DEF PushChannelMsg, Idle, NeedsChannel
<1>8. ASSUME NEW p \in Procs, LoadChannel(p)
      PROVE  TypeOK'
  <2> DEFINE seq == op[p].msg.dest
  <2>1. CASE seq \in DOMAIN channelMap
    <3>1. op[p] \in OpRec /\ channelMap[seq] \in Chans
      BY <2>1, <1>op DEF CallsOK, TypeOK
    <3> DEFINE call == [op[p] EXCEPT !.pc = "push", !.ch = channelMap[seq]]
    <3>2. call \in OpRec /\ call.ch = channelMap[seq]
      BY <3>1 DEF OpRec, PC
    <3>3. op' = [op EXCEPT ![p] = call] /\ UNCHANGED result
      BY <1>8, <2>1 DEF LoadChannel, CallsOK
    <3> HIDE DEF call
    <3>4. CallsOK'
      BY <3>1, <3>2, <3>3, <1>op DEF CallsOK
    <3> QED
      BY <1>8, <3>4 DEF LoadChannel, TypeOK, mgrVars
  <2>2. CASE seq \notin DOMAIN channelMap
    <3>1. CallsOK'
      BY <1>8, <2>2, <1>return DEF LoadChannel, Results
    <3> QED
      BY <1>8, <2>2, <3>1 DEF LoadChannel, TypeOK, mgrVars
  <2> QED
    BY <2>1, <2>2
<1>9. ASSUME NEW p \in Procs, NEW fn \in SUBSET Chans, NEW which \in {"all", "one"},
             PushRange(p, which, fn)
      PROVE  TypeOK'
  <2> DEFINE call == [Idle EXCEPT !.pc = "range", !.range = which, !.fn = fn,
                                  !.keys = DOMAIN channelMap, !.msg.id = pushes + 1]
  <2>1. call \in OpRec /\ ~NeedsChannel(call)
    BY <1>id DEF Idle, OpRec, PC, NoMessage, Message, NeedsChannel
  <2> QED
    BY <1>9, <2>1, <1>start DEF PushRange
<1>10. ASSUME NEW p \in Procs, NEW k \in op[p].keys, RangeVisit(p, k)
       PROVE  TypeOK'
  <2> DEFINE found == k \in DOMAIN channelMap
             ch == IF found THEN channelMap[k] ELSE None
             pc == IF found /\ channelMap[k] \in op[p].fn THEN "push" ELSE "range"
             call == [op[p] EXCEPT !.keys = @ \ {k}, !.ch = ch, !.pc = pc]
  <2>1. /\ op[p] \in OpRec
        /\ ch \in Chans \cup {None} /\ pc \in {"push", "range"} /\ (pc = "push" => ch \in Chans)
    BY <1>op DEF CallsOK, TypeOK
  <2>2. op' = [op EXCEPT ![p] = call] /\ UNCHANGED result
    BY <1>10 DEF RangeVisit, CallsOK
  <2> HIDE DEF ch, pc
  <2>3. call \in OpRec /\ call.ch = ch /\ call.pc = pc
    BY <2>1 DEF OpRec, PC
  <2> HIDE DEF call
  <2>4. CallsOK'
    BY <2>1, <2>2, <2>3, <1>op DEF CallsOK, NeedsChannel
  <2> QED
    BY <1>10, <2>4 DEF RangeVisit, TypeOK, mgrVars
<1>11. ASSUME NEW p \in Procs, RangeEnd(p)
       PROVE  TypeOK'
  <2>1. CallsOK'
    BY <1>11, <1>return DEF RangeEnd, Results
  <2> QED
    BY <1>11, <2>1 DEF RangeEnd, TypeOK, mgrVars
<1>12. ASSUME NEW p \in Procs, Push(p)
       PROVE  TypeOK'
  <2>1. op[p] \in OpRec /\ op[p].ch \in Chans /\ op[p].msg \in Message
    BY <1>12, <1>op DEF Push, CallsOK, NeedsChannel, OpRec
  <2>2. PICK res \in {"nil", "closed", "full"} :
           /\ PushMsg(op[p].ch, op[p].msg, res)
           /\ IF op[p].range = "all"
              THEN /\ op' = [op EXCEPT ![p].pc = "range",
                                       ![p].n = IF res = "nil" THEN @ + 1 ELSE @]
                   /\ UNCHANGED result
              ELSE Return(p, res)
    BY <1>12 DEF Push
  <2>3. chan' \in [Chans -> ChannelRec] /\ accepted' \in [Chans -> Seq(Message)]
    <3> DEFINE c == op[p].ch
    <3>1. /\ chan \in [Chans -> ChannelRec] /\ accepted \in [Chans -> Seq(Message)]
          /\ chan[c].buf \in Seq(Message) /\ accepted[c] \in Seq(Message)
      BY <2>1 DEF TypeOK, ChannelRec
    <3>2. /\ Append(chan[c].buf, op[p].msg) \in Seq(Message)
          /\ Append(accepted[c], op[p].msg) \in Seq(Message)
      BY <2>1, <3>1, AppendProperties
    <3>3. [chan[c] EXCEPT !.buf = Append(@, op[p].msg)] \in ChannelRec
      BY <2>1, <3>1, <3>2 DEF ChannelRec
    <3> QED
      BY <2>1, <2>2, <3>1, <3>2, <3>3 DEF PushMsg
  <2>4. CASE op[p].range = "all"
    <3> DEFINE m == IF res = "nil" THEN op[p].n + 1 ELSE op[p].n
               call == [op[p] EXCEPT !.pc = "range", !.n = m]
    <3>1. m \in Nat
      <4>1. op[p].n \in Nat
        BY <2>1 DEF OpRec
      <4> QED
        BY <4>1
    <3>2. op' = [op EXCEPT ![p] = call] /\ UNCHANGED result
      BY <2>2, <2>4, <1>op DEF CallsOK
    <3> HIDE DEF m
    <3>3. call \in OpRec /\ call.pc = "range"
      BY <2>1, <3>1 DEF OpRec, PC
    <3> HIDE DEF call
    <3> QED
      BY <3>2, <3>3, <2>3, <1>12, <1>op DEF CallsOK, NeedsChannel, Push, TypeOK, mgrVars
  <2>5. CASE op[p].range # "all"
    <3>1. CallsOK'
      BY <2>2, <2>5, <1>return DEF Results
    <3> QED
      BY <1>12, <2>3, <3>1 DEF Push, TypeOK, mgrVars
  <2> QED
    BY <2>4, <2>5
<1>13. ASSUME NEW c \in Chans, Recv(c)
       PROVE  TypeOK'
  <2>1. Head(chan[c].buf) \in Message /\ Tail(chan[c].buf) \in Seq(Message)
    BY <1>13, HeadTailProperties DEF Recv, TypeOK, ChannelRec
  <2>2. [chan[c] EXCEPT !.buf = Tail(@)] \in ChannelRec
    BY <2>1 DEF TypeOK, ChannelRec
  <2>3. Append(delivered[c], Head(chan[c].buf)) \in Seq(Message)
    BY <2>1, AppendProperties DEF TypeOK
  <2>4. chan' \in [Chans -> ChannelRec] /\ delivered' \in [Chans -> Seq(Message)]
    BY <1>13, <2>2, <2>3 DEF Recv, TypeOK
  <2> QED
    BY <1>13, <2>4 DEF Recv, TypeOK, CallsOK, mgrVars
<1>14. CASE UNCHANGED vars
  BY <1>14 DEF vars, mgrVars, TypeOK, CallsOK
<1> QED
  BY <1>1, <1>2, <1>3, <1>4, <1>5, <1>6, <1>7, <1>8, <1>9, <1>10, <1>11, <1>12, <1>13,
     <1>14 DEF Next, Start, Continue
-----------------------------------------------------------------------------
(* The inductive step.  Only NewChannel changes a sequence, only Push and  *)
(* Recv the queues; SameSeqs and SameQueues say so for the other actions.  *)
SameSeqs == /\ rpcSequence' = rpcSequence
            /\ \A c \in Chans : chan'[c].seq = chan[c].seq

SameQueues == /\ UNCHANGED <<accepted, delivered>>
              /\ \A c \in Chans : chan'[c].buf = chan[c].buf

LEMMA Frame ==
    ASSUME TypeOK, CountersUnique, MapMatches, RoutedBySequence, DeliveredIsPrefix
    PROVE  /\ SameSeqs => CountersUnique'
           /\ SameSeqs /\ UNCHANGED channelMap => MapMatches'
           /\ SameSeqs /\ UNCHANGED accepted => RoutedBySequence'
           /\ SameQueues => DeliveredIsPrefix'
<1>1. SameSeqs => CountersUnique'
  BY DEF SameSeqs, CountersUnique, Allocated
<1>2. SameSeqs /\ UNCHANGED channelMap => MapMatches'
  BY DEF SameSeqs, MapMatches, Allocated, TypeOK
<1>3. SameSeqs /\ UNCHANGED accepted => RoutedBySequence'
  BY DEF SameSeqs, RoutedBySequence
<1>4. SameQueues => DeliveredIsPrefix'
  BY DEF SameQueues, DeliveredIsPrefix
<1> QED
  BY <1>1, <1>2, <1>3, <1>4

LEMMA InvStep == IInv /\ [Next]_vars => IInv'
<1> SUFFICES ASSUME IInv, [Next]_vars
             PROVE  IInv'
  OBVIOUS
<1>type. TypeOK /\ TypeOK'
  BY TypeStep DEF IInv
<1>op. /\ op \in [Procs -> OpRec]
       /\ \A p \in Procs : NeedsChannel(op[p]) => op[p].ch \in Chans
       /\ chan \in [Chans -> ChannelRec]
  BY <1>type DEF TypeOK, CallsOK
<1>frame. /\ SameSeqs => CountersUnique'
          /\ SameSeqs /\ UNCHANGED channelMap => MapMatches'
          /\ SameSeqs /\ UNCHANGED accepted => RoutedBySequence'
          /\ SameQueues => DeliveredIsPrefix'
  BY Frame DEF IInv
<1>1. ASSUME NEW p \in Procs, NEW c \in Chans, NEW high8 \in Highs,
             NewChannel(p, c, high8)
      PROVE  IInv'
  <2> DEFINE n == rpcSequence + 1
             seq == Sequence(n, high8)
             call == [Idle EXCEPT !.pc = "store", !.ch = c]
  <2>1. /\ n \in Nat /\ n < SeqShift /\ rpcSequence' = n /\ n >= 1
        /\ UNCHANGED <<channelMap, accepted, delivered>>
    BY <1>1, <1>type DEF NewChannel, TypeOK
  <2>2. seq \in Nat /\ seq >= n /\ Low(seq) = n
    BY <2>1, SequenceParts
  <2>3. /\ chan'[c] = [chan[c] EXCEPT !.seq = seq]
        /\ \A d \in Chans : d # c => chan'[d] = chan[d]
    BY <1>1, <1>op DEF NewChannel
  <2>4. /\ chan'[c].seq = seq /\ chan'[c].buf = chan[c].buf
        /\ chan'[c].closed = chan[c].closed
        /\ chan[c].seq = 0 /\ seq # 0
    <3>1. chan[c] \in ChannelRec
      BY <1>op
    <3>2. chan[c].seq = 0
      BY <1>1 DEF NewChannel, Allocated
    <3> HIDE DEF seq
    <3> QED
      BY <2>1, <2>2, <2>3, <3>1, <3>2 DEF ChannelRec
  <2>5. /\ op'[p] = call /\ call.pc = "store" /\ call.ch = c /\ call.range = "no"
        /\ \A q \in Procs : q # p => op'[q] = op[q]
    BY <1>1, <1>op DEF NewChannel, Begin, Idle
  <2> HIDE DEF n, seq, call
  <2>6. CountersUnique'
    <3>1. \A d \in Chans : d # c /\ Allocated(d) => /\ Low(chan'[d].seq) \in 1 .. rpcSequence
                                                    /\ chan'[d].seq = chan[d].seq
      BY <2>3 DEF IInv, CountersUnique
    <3>2. rpcSequence \in Nat \ {0} /\ n = rpcSequence + 1 /\ rpcSequence' = n
      BY <2>1 DEF IInv, CountersUnique, n
    <3>3. Low(chan'[c].seq) = n
      BY <2>2, <2>4
    <3>4. \A d \in Chans : Allocated(d)' => Low(chan'[d].seq) \in 1 .. n
      <4>1. ASSUME NEW d \in Chans, d # c, Allocated(d)'
            PROVE  Low(chan'[d].seq) \in 1 .. rpcSequence
        BY <4>1, <2>3, <3>1 DEF Allocated
      <4>2. n \in 1 .. n /\ 1 .. rpcSequence \subseteq 1 .. n
        BY <3>2
      <4> QED
        BY <4>1, <4>2, <3>3
    <3>5. \A d, e \in Chans :
             Allocated(d)' /\ Allocated(e)' /\ Low(chan'[d].seq) = Low(chan'[e].seq) => d = e
      <4>1. ASSUME NEW d \in Chans, d # c, Allocated(d)'
            PROVE  Low(chan'[d].seq) # n /\ Allocated(d) /\ Low(chan[d].seq) = Low(chan'[d].seq)
        <5>1. chan'[d] = chan[d] /\ Allocated(d)
          BY <4>1, <2>3 DEF Allocated
        <5>2. Low(chan'[d].seq) \in 1 .. rpcSequence
          BY <4>1, <5>1, <3>1
        <5> QED
          BY <5>1, <5>2, <3>2
      <4> QED
        BY <4>1, <3>3 DEF IInv, CountersUnique
    <3> QED
      BY <3>2, <3>4, <3>5 DEF CountersUnique
  <2>7. MapMatches'
    BY <2>1, <2>3, <2>4, <1>type, ZenonT(30) DEF IInv, MapMatches, Allocated, TypeOK
  <2>8. Lifecycle'
    <3>1. ~Registered(c) /\ ~chan[c].closed
      BY <2>4 DEF IInv, MapMatches, Registered, Allocated, Lifecycle
    <3>2. \A q \in Procs : /\ op[q].pc = "store" => op[q].ch # c
                           /\ op[q].pc \in {"closeClosed", "closeResp"} => op[q].ch # c
      BY <2>4 DEF IInv, Lifecycle, Allocated
    <3>3. \A d \in Chans : Registered(d)' = Registered(d)
      BY <2>1 DEF Registered
    <3>4. \A d \in Chans : chan'[d].closed = chan[d].closed /\ (Allocated(d) => Allocated(d)')
      BY <2>3, <2>4 DEF Allocated
    <3>5. Allocated(c)'
      BY <2>4 DEF Allocated
    <3> QED
      BY <2>5, <3>1, <3>2, <3>3, <3>4, <3>5, <1>op DEF IInv, Lifecycle, NeedsChannel
  <2>9. Addressed'
    <3>1. \A q \in Procs : op[q].pc = "push" => op[q].ch # c
      BY <2>4 DEF IInv, Addressed, Allocated
    <3> QED
      BY <2>3, <2>5, <3>1, <1>op DEF IInv, Addressed, Allocated, NeedsChannel
  <2>10. RoutedBySequence'
    BY <2>1, <2>3, <2>4 DEF IInv, RoutedBySequence
  <2>11. DeliveredIsPrefix'
    BY <2>1, <2>3, <2>4, ZenonT(30) DEF IInv, DeliveredIsPrefix
  <2> QED
    BY <1>type, <2>6, <2>7, <2>8, <2>9, <2>10, <2>11 DEF IInv
<1>2. ASSUME NEW p \in Procs, NewChannelStore(p)
      PROVE  IInv'
  <2> DEFINE c == op[p].ch
             k == chan[c].seq
  <2>1. /\ c \in Chans /\ Allocated(c) /\ ~chan[c].closed
        /\ \A q \in Procs :
              /\ op[q].pc = "store" /\ op[q].ch = c => q = p
              /\ op[q].pc \in {"closeClosed", "closeResp"} => op[q].ch # c
    BY <1>2, <1>op DEF NewChannelStore, NeedsChannel, IInv, Lifecycle
  <2>2. /\ SameSeqs /\ SameQueues /\ UNCHANGED chan
        /\ channelMap' = MapStore(channelMap, k, c)
    BY <1>2 DEF NewChannelStore, SameSeqs, SameQueues
  <2>3. op'[p] = Idle /\ \A q \in Procs : q # p => op'[q] = op[q]
    BY <1>2, <1>op DEF NewChannelStore, Return
  <2> HIDE DEF c
  <2>4. MapMatches'
    BY <2>1, <2>2 DEF IInv, MapMatches, MapStore, Allocated
  <2>5. \A d \in Chans : Registered(d)' => d = c \/ Registered(d)
    BY <2>2 DEF Registered, MapStore
  <2>6. Lifecycle'
    <3>1. \A q \in Procs : op'[q].pc \in {"store", "closeClosed", "closeResp"} => q # p
      BY <2>3 DEF Idle
    <3> QED
      BY <2>1, <2>2, <2>3, <2>5, <3>1, <1>op DEF IInv, Lifecycle, NeedsChannel, Allocated
  <2>7. Addressed'
    BY <2>2, <2>3 DEF IInv, Addressed, Allocated, Idle
  <2> QED
    BY <1>type, <1>frame, <2>2, <2>4, <2>6, <2>7 DEF IInv, SameQueues
<1>3. ASSUME NEW p \in Procs, NEW c \in Chans, DelChannel(p, c)
      PROVE  IInv'
  <2> DEFINE call == [Idle EXCEPT !.pc = "closeClosed", !.ch = c]
  <2>1. /\ Allocated(c)
        /\ \A q \in Procs : op[q].pc = "store" => op[q].ch # c
    BY <1>3 DEF DelChannel, Returned
  <2>2. /\ SameSeqs /\ SameQueues /\ UNCHANGED <<chan, accepted>>
        /\ channelMap' = MapDelete(channelMap, chan[c].seq)
    BY <1>3 DEF DelChannel, SameSeqs, SameQueues
  <2>3. /\ op'[p] = call /\ call.pc = "closeClosed" /\ call.ch = c /\ call.range = "no"
        /\ \A q \in Procs : q # p => op'[q] = op[q]
    BY <1>3, <1>op DEF DelChannel, Begin, Idle
  <2> HIDE DEF call
  <2>4. MapMatches'
    BY <2>2 DEF IInv, MapMatches, MapDelete, Allocated
  <2>5. ~Registered(c)' /\ \A d \in Chans : Registered(d)' => Registered(d)
    BY <2>2 DEF IInv, MapMatches, Registered, MapDelete
  <2>6. Lifecycle'
    BY <2>1, <2>2, <2>3, <2>5, <1>op DEF IInv, Lifecycle, NeedsChannel, Allocated
  <2>7. Addressed'
    BY <2>2, <2>3 DEF IInv, Addressed, Allocated
  <2> QED
    BY <1>type, <1>frame, <2>2, <2>4, <2>6, <2>7 DEF IInv
<1>4. ASSUME NEW p \in Procs, CloseClosed(p)
      PROVE  IInv'
  <2> DEFINE c == op[p].ch
  <2>1. c \in Chans /\ Allocated(c) /\ ~Registered(c)
    BY <1>4, <1>op DEF CloseClosed, NeedsChannel, IInv, Lifecycle
  <2>2. \A q \in Procs : op[q].pc = "store" => op[q].ch # c
    BY <1>4 DEF CloseClosed, IInv, Lifecycle
  <2>3. /\ UNCHANGED <<mgrVars, accepted, delivered>>
        /\ \/ UNCHANGED chan
           \/ chan' = [chan EXCEPT ![c].closed = TRUE]
    BY <1>4 DEF CloseClosed
  <2>4. \A d \in Chans : /\ chan'[d].seq = chan[d].seq /\ chan'[d].buf = chan[d].buf
                         /\ chan'[d].closed => chan[d].closed \/ d = c
    BY <2>1, <2>3, <1>op DEF ChannelRec
  <2>5. SameSeqs /\ SameQueues /\ UNCHANGED <<channelMap, accepted>>
    BY <2>3, <2>4 DEF SameSeqs, SameQueues, mgrVars
  <2>6. /\ \/ op'[p] = Idle
           \/ op'[p].pc = "closeResp" /\ op'[p].ch = c /\ op'[p].range = op[p].range
        /\ \A q \in Procs : q # p => op'[q] = op[q]
    <3>1. CASE chan[c].closed
      BY <1>4, <3>1, <1>op DEF CloseClosed, Return
    <3>2. CASE ~chan[c].closed
      <4>1. op' = [op EXCEPT ![p].pc = "closeResp"]
        BY <1>4, <3>2 DEF CloseClosed
      <4> QED
        BY <4>1, <1>op DEF OpRec
    <3> QED
      BY <3>1, <3>2
  <2> HIDE DEF c
  <2>7. Lifecycle'
    <3>1. \A d \in Chans : Registered(d)' = Registered(d) /\ Allocated(d)' = Allocated(d)
      BY <2>4, <2>5 DEF Registered, Allocated
    <3>2. op'[p].pc # "store"
      BY <2>6 DEF Idle
    <3>3. op'[p].pc \in {"closeClosed", "closeResp"} => op'[p].ch = c
      BY <2>6 DEF Idle
    <3> QED
      BY <2>1, <2>2, <2>4, <2>6, <3>1, <3>2, <3>3, <1>op DEF IInv, Lifecycle, NeedsChannel
  <2>8. Addressed'
    <3>1. op'[p].pc \notin {"range", "push"} /\ op'[p].range # "all"
      BY <1>4, <2>6 DEF Idle, CloseClosed, IInv, Addressed
    <3> QED
      BY <2>4, <2>6, <3>1, <1>op DEF IInv, Addressed, Allocated, NeedsChannel
  <2> QED
    BY <1>type, <1>frame, <2>5, <2>7, <2>8 DEF IInv
<1>5. ASSUME NEW p \in Procs, CloseResp(p)
      PROVE  IInv'
  <2>1. \A d \in Chans : /\ chan'[d].seq = chan[d].seq /\ chan'[d].buf = chan[d].buf
                         /\ chan'[d].closed = chan[d].closed
    BY <1>5, <1>op DEF CloseResp, ChannelRec
  <2>2. SameSeqs /\ SameQueues /\ UNCHANGED <<channelMap, accepted>>
    BY <1>5, <2>1 DEF CloseResp, SameSeqs, SameQueues, mgrVars
  <2>3. op'[p] = Idle /\ \A q \in Procs : q # p => op'[q] = op[q]
    BY <1>5, <1>op DEF CloseResp, Return
  <2>4. Lifecycle'
    <3>1. \A d \in Chans : Registered(d)' = Registered(d) /\ Allocated(d)' = Allocated(d)
      BY <2>1, <2>2 DEF Registered, Allocated
    <3>2. op'[p].pc \notin {"store", "closeClosed", "closeResp"}
      BY <2>3 DEF Idle
    <3> QED
      BY <2>1, <2>3, <3>1, <3>2, <1>op DEF IInv, Lifecycle, NeedsChannel
  <2>5. Addressed'
    <3>1. op'[p].pc \notin {"range", "push"} /\ op'[p].range # "all"
      BY <2>3 DEF Idle
    <3> QED
      BY <2>1, <2>3, <3>1, <1>op DEF IInv, Addressed, Allocated, NeedsChannel
  <2> QED
    BY <1>type, <1>frame, <2>2, <2>4, <2>5 DEF IInv
(* A call that only reads: its new program point needs no channel, or one  *)
(* found in the map.                                                       *)
<1>read. ASSUME NEW p \in Procs, UNCHANGED <<mgrVars, chan, accepted, delivered>>,
                \A q \in Procs : q # p => op'[q] = op[q],
                op'[p].pc \in {"idle", "load", "range", "push"},
                op'[p].pc = "range" => op'[p].msg.dest = 0,
                op'[p].range = "all" =>
                    op'[p].pc \in {"range", "push"} /\ op'[p].msg.dest = 0,
                op'[p].pc = "push" => /\ Allocated(op'[p].ch)
                                      /\ op'[p].msg.dest \in {0, chan[op'[p].ch].seq}
         PROVE  IInv'
  <2>1. SameSeqs /\ SameQueues /\ UNCHANGED <<channelMap, chan, accepted>>
    BY <1>read DEF SameSeqs, SameQueues, mgrVars
  <2>2. Lifecycle'
    BY <1>read, <2>1 DEF IInv, Lifecycle, Allocated, Registered
  <2>3. Addressed'
    BY <1>read DEF IInv, Addressed, Allocated
  <2> QED
    BY <1>type, <1>frame, <2>1, <2>2, <2>3 DEF IInv
<1>6. ASSUME NEW p \in Procs, NEW c \in Chans, Direct(p, c)
      PROVE  IInv'
  <2> DEFINE call == [Idle EXCEPT !.pc = "push", !.ch = c, !.msg.id = pushes + 1]
  <2>1. call.pc = "push" /\ call.ch = c /\ call.msg.dest = 0 /\ call.range = "no"
    BY DEF Idle, NoMessage
  <2>2. op'[p] = call /\ \A q \in Procs : q # p => op'[q] = op[q]
    BY <1>6, <1>op DEF Direct, StartPush, Begin
  <2> HIDE DEF call
  <2> QED
    BY <1>6, <2>1, <2>2, <1>read DEF Direct, StartPush, Returned
<1>7. ASSUME NEW p \in Procs, NEW seq \in KnownSeqs, PushChannelMsg(p, seq)
      PROVE  IInv'
  <2>1. op'[p].pc = "load" /\ op'[p].range = "no" /\ \A q \in Procs : q # p => op'[q] = op[q]
    BY <1>7, <1>op DEF PushChannelMsg, StartPush, Begin, Idle
  <2> QED
    BY <1>7, <2>1, <1>read DEF PushChannelMsg, StartPush
<1>8. ASSUME NEW p \in Procs, LoadChannel(p)
      PROVE  IInv'
  <2> DEFINE seq == op[p].msg.dest
  <2>1. \A q \in Procs : q # p => op'[q] = op[q]
    BY <1>8, <1>op DEF LoadChannel, Return
  <2>2. CASE seq \in DOMAIN channelMap
    <3>1. Allocated(channelMap[seq]) /\ chan[channelMap[seq]].seq = seq
      BY <2>2 DEF IInv, MapMatches
    <3>2. /\ op'[p].pc = "push" /\ op'[p].ch = channelMap[seq]
          /\ op'[p].msg.dest = seq /\ op'[p].range = op[p].range
      BY <1>8, <2>2, <1>op DEF LoadChannel, OpRec
    <3>3. op[p].range # "all"
      BY <1>8 DEF LoadChannel, IInv, Addressed
    <3> QED
      BY <1>8, <2>1, <3>1, <3>2, <3>3, <1>read DEF LoadChannel
  <2>3. CASE seq \notin DOMAIN channelMap
    <3>1. op'[p].pc = "idle" /\ op'[p].range = "no"
      BY <1>8, <2>3, <1>op DEF LoadChannel, Return, Idle
    <3> QED
      BY <1>8, <2>1, <3>1, <1>read DEF LoadChannel
  <2> QED
    BY <2>2, <2>3
<1>9. ASSUME NEW p \in Procs, NEW fn \in SUBSET Chans, NEW which \in {"all", "one"},
             PushRange(p, which, fn)
      PROVE  IInv'
  <2> DEFINE call == [Idle EXCEPT !.pc = "range", !.range = which, !.fn = fn,
                                  !.keys = DOMAIN channelMap, !.msg.id = pushes + 1]
  <2>1. call.pc = "range" /\ call.msg.dest = 0
    BY DEF Idle, NoMessage
  <2>2. op'[p] = call /\ \A q \in Procs : q # p => op'[q] = op[q]
    BY <1>9, <1>op DEF PushRange, StartPush, Begin
  <2> HIDE DEF call
  <2> QED
    BY <1>9, <2>1, <2>2, <1>read DEF PushRange, StartPush
<1>10. ASSUME NEW p \in Procs, NEW k \in op[p].keys, RangeVisit(p, k)
       PROVE  IInv'
  <2>1. /\ op'[p].msg = op[p].msg /\ op[p].msg.dest = 0
        /\ \A q \in Procs : q # p => op'[q] = op[q]
    BY <1>10, <1>op DEF RangeVisit, OpRec, IInv, Addressed
  <2>2. /\ op'[p].pc \in {"push", "range"}
        /\ op'[p].pc = "push" => k \in DOMAIN channelMap /\ op'[p].ch = channelMap[k]
    BY <1>10, <1>op DEF RangeVisit, OpRec
  <2>3. op'[p].pc = "push" => Allocated(op'[p].ch)
    BY <2>2 DEF IInv, MapMatches
  <2> QED
    BY <1>10, <2>1, <2>2, <2>3, <1>read DEF RangeVisit
<1>11. ASSUME NEW p \in Procs, RangeEnd(p)
       PROVE  IInv'
  <2>1. op'[p].pc = "idle" /\ op'[p].range = "no" /\ \A q \in Procs : q # p => op'[q] = op[q]
    BY <1>11, <1>op DEF RangeEnd, Return, Idle
  <2> QED
    BY <1>11, <2>1, <1>read DEF RangeEnd
<1>12. ASSUME NEW p \in Procs, Push(p)
       PROVE  IInv'
  <2> DEFINE c == op[p].ch
             m == op[p].msg
  <2>1. /\ c \in Chans /\ m \in Message /\ Allocated(c)
        /\ m.dest \in {0, chan[c].seq}
        /\ op[p].range = "all" => m.dest = 0
    BY <1>12, <1>op DEF Push, NeedsChannel, OpRec, IInv, Addressed
  <2>2. PICK res \in {"nil", "closed", "full"} :
           /\ PushMsg(c, m, res)
           /\ IF op[p].range = "all"
              THEN op' = [op EXCEPT ![p].pc = "range",
                                    ![p].n = IF res = "nil" THEN @ + 1 ELSE @]
              ELSE Return(p, res)
    BY <1>12 DEF Push
  <2>3. /\ \A q \in Procs : q # p => op'[q] = op[q]
        /\ \/ op'[p].pc = "range" /\ op'[p].msg.dest = 0
           \/ op'[p].pc = "idle" /\ op'[p].range = "no"
    <3>1. CASE op[p].range = "all"
      BY <2>1, <2>2, <3>1, <1>op DEF OpRec
    <3>2. CASE op[p].range # "all"
      BY <2>2, <3>2, <1>op DEF Return, Idle
    <3> QED
      BY <3>1, <3>2
  <2>4. UNCHANGED <<mgrVars, delivered>>
    BY <1>12 DEF Push
  <2> HIDE DEF c, m
  <2>5. \/ UNCHANGED <<chan, accepted>>
        \/ /\ chan' = [chan EXCEPT ![c].buf = Append(@, m)]
           /\ accepted' = [accepted EXCEPT ![c] = Append(@, m)]
    BY <2>2 DEF PushMsg
  <2>6. \A d \in Chans : chan'[d].seq = chan[d].seq /\ chan'[d].closed = chan[d].closed
    BY <2>1, <2>5, <1>op DEF ChannelRec
  <2>7. SameSeqs /\ UNCHANGED channelMap
    BY <2>4, <2>6 DEF SameSeqs, mgrVars
  <2>8. Lifecycle'
    <3>1. \A d \in Chans : Registered(d)' = Registered(d) /\ Allocated(d)' = Allocated(d)
      BY <2>6, <2>7 DEF Registered, Allocated
    <3> QED
      BY <2>3, <2>6, <3>1, <1>op DEF IInv, Lifecycle, NeedsChannel
  <2>9. Addressed'
    BY <2>3, <2>6, <1>op DEF IInv, Addressed, Allocated, NeedsChannel
  <2>10. /\ accepted \in [Chans -> Seq(Message)] /\ delivered \in [Chans -> Seq(Message)]
         /\ chan[c].buf \in Seq(Message)
    BY <2>1, <1>type, <1>op DEF TypeOK, ChannelRec
  <2>11. RoutedBySequence'
    <3>1. CASE UNCHANGED accepted
      BY <3>1, <2>7, <1>frame
    <3>2. CASE accepted' = [accepted EXCEPT ![c] = Append(@, m)]
      <4>1. \A d \in Chans : d # c => accepted'[d] = accepted[d]
        BY <3>2, <2>10
      <4>2. accepted'[c] = Append(accepted[c], m)
        BY <2>1, <2>10, <3>2
      <4>3. \A i \in DOMAIN accepted'[c] :
               accepted'[c][i] = m \/ (i \in DOMAIN accepted[c]
                                       /\ accepted'[c][i] = accepted[c][i])
        BY <2>1, <2>10, <4>2, AppendProperties, LenProperties
      <4> QED
        BY <2>1, <2>6, <4>1, <4>3 DEF IInv, RoutedBySequence
    <3> QED
      BY <2>5, <3>1, <3>2
  <2>12. DeliveredIsPrefix'
    <3>1. CASE UNCHANGED <<chan, accepted>>
      BY <3>1, <2>4 DEF IInv, DeliveredIsPrefix
    <3>2. CASE /\ chan' = [chan EXCEPT ![c].buf = Append(@, m)]
               /\ accepted' = [accepted EXCEPT ![c] = Append(@, m)]
      <4>1. /\ chan'[c].buf = Append(chan[c].buf, m)
            /\ accepted'[c] = Append(accepted[c], m)
            /\ \A d \in Chans : d # c => /\ chan'[d].buf = chan[d].buf
                                         /\ accepted'[d] = accepted[d]
        BY <2>1, <2>10, <3>2, <1>op DEF ChannelRec
      <4>2. accepted[c] = delivered[c] \o chan[c].buf
        BY <2>1 DEF IInv, DeliveredIsPrefix
      <4>3. accepted'[c] = delivered'[c] \o chan'[c].buf
        <5>1. delivered[c] \in Seq(Message)
          BY <2>1, <2>10
        <5>2. Append(delivered[c] \o chan[c].buf, m) = delivered[c] \o Append(chan[c].buf, m)
          <6>1. \A d, b \in Seq(Message) : \A l \in Message :
                   Append(d \o b, l) = d \o Append(b, l)
            BY AppendAfter
          <6> QED
            BY <2>1, <2>10, <5>1, <6>1
        <5>3. delivered' = delivered
          BY <2>4
        <5> QED
          BY <4>1, <4>2, <5>2, <5>3
      <4> QED
        BY <2>4, <4>1, <4>3 DEF IInv, DeliveredIsPrefix
    <3> QED
      BY <2>5, <3>1, <3>2
  <2> QED
    BY <1>type, <1>frame, <2>7, <2>8, <2>9, <2>11, <2>12 DEF IInv
<1>13. ASSUME NEW c \in Chans, Recv(c)
       PROVE  IInv'
  <2>1. /\ chan[c].buf # << >> /\ chan[c].buf \in Seq(Message)
        /\ delivered \in [Chans -> Seq(Message)]
        /\ UNCHANGED <<mgrVars, op, accepted>>
        /\ chan' = [chan EXCEPT ![c].buf = Tail(@)]
        /\ delivered' = [delivered EXCEPT ![c] = Append(@, Head(chan[c].buf))]
    BY <1>13, <1>type, <1>op DEF Recv, TypeOK, ChannelRec
  <2>2. \A d \in Chans : chan'[d].seq = chan[d].seq /\ chan'[d].closed = chan[d].closed
    BY <2>1, <1>op DEF ChannelRec
  <2>3. SameSeqs /\ UNCHANGED <<channelMap, accepted>>
    BY <2>1, <2>2 DEF SameSeqs, mgrVars
  <2>4. Lifecycle' /\ Addressed'
    <3>1. \A d \in Chans : Registered(d)' = Registered(d) /\ Allocated(d)' = Allocated(d)
      BY <2>2, <2>3 DEF Registered, Allocated
    <3>2. Lifecycle'
      BY <2>1, <2>2, <3>1, <1>op DEF IInv, Lifecycle, NeedsChannel
    <3>3. Addressed'
      BY <2>1, <2>2, <3>1, <1>op DEF IInv, Addressed, NeedsChannel
    <3> QED
      BY <3>2, <3>3
  <2>5. DeliveredIsPrefix'
    <3>1. /\ chan'[c].buf = Tail(chan[c].buf)
          /\ delivered'[c] = Append(delivered[c], Head(chan[c].buf))
          /\ \A d \in Chans : d # c => /\ chan'[d].buf = chan[d].buf
                                       /\ delivered'[d] = delivered[d]
      BY <2>1, <1>op DEF ChannelRec
    <3>2. delivered[c] \in Seq(Message) /\ accepted[c] = delivered[c] \o chan[c].buf
      BY <2>1 DEF IInv, DeliveredIsPrefix
    <3>3. accepted[c] = delivered'[c] \o chan'[c].buf
      <4>1. delivered[c] \o chan[c].buf
              = Append(delivered[c], Head(chan[c].buf)) \o Tail(chan[c].buf)
        BY <2>1, <3>2, MoveHead
      <4> QED
        BY <3>1, <3>2, <4>1
    <3> QED
      BY <2>1, <3>1, <3>3 DEF IInv, DeliveredIsPrefix
  <2> QED
    BY <1>type, <1>frame, <2>3, <2>4, <2>5 DEF IInv
<1>14. CASE UNCHANGED vars
  <2>1. SameSeqs /\ SameQueues /\ UNCHANGED <<channelMap, chan, op, accepted>>
    BY <1>14 DEF vars, mgrVars, SameSeqs, SameQueues
  <2>2. Lifecycle' /\ Addressed'
    BY <2>1 DEF IInv, Lifecycle, Addressed, Allocated, Registered
  <2> QED
    BY <1>type, <1>frame, <2>1, <2>2 DEF IInv
<1> QED
  BY <1>1, <1>2, <1>3, <1>4, <1>5, <1>6, <1>7, <1>8, <1>9, <1>10, <1>11, <1>12, <1>13,
     <1>14 DEF Next, Start, Continue

(* The inductive invariant holds in every reachable state.                 *)
THEOREM Invariance == Spec => []IInv
  BY InitIInv, InvStep, PTL DEF Spec

(* TypeOK, for every value of the constants.                               *)
THEOREM Typing == Spec => []TypeOK
  BY Invariance, PTL DEF IInv
-----------------------------------------------------------------------------
(* Two channels of a manager never share a sequence: the atomic counter    *)
(* never repeats, and no high byte reaches into it (channel.go:63-72).     *)
THEOREM UniqueSequences == Spec => []SequencesUnique
<1>1. IInv => SequencesUnique
  BY DEF IInv, CountersUnique, SequencesUnique, Allocated
<1> QED
  BY <1>1, Invariance, PTL

(* PushChannelMsg never queues a message in another channel than the one   *)
(* of its sequence, however its two steps interleave with other calls.     *)
THEOREM Routing == Spec => []RoutedBySequence
  BY Invariance, PTL DEF IInv

(* Received messages are the accepted ones in order, none lost or twice.   *)
THEOREM Delivery == Spec => []DeliveredIsPrefix
  BY Invariance, PTL DEF IInv

(* A channel whose closed signal fired is out of the map and stays out.    *)
THEOREM Unregistered == Spec => []ClosedIsUnregistered
<1>1. IInv => ClosedIsUnregistered
  BY DEF IInv, Lifecycle, Registered, ClosedIsUnregistered
<1> QED
  BY <1>1, Invariance, PTL
-----------------------------------------------------------------------------
(* PushMsg that reports success has queued the message, unless the last    *)
(* step of a Close came before it: no interleaving of pushes and closes    *)
(* loses a message that its sender was told is queued.                     *)
THEOREM NilMeansQueued == Spec => NilMeansQueuedUntilClosed
<1>1. ASSUME TypeOK, NEW p \in Procs, Push(p), accepted' = accepted,
             ~chan[op[p].ch].respClosed
      PROVE  IF op[p].range = "all" THEN op'[p].n = op[p].n ELSE result'[p] # "nil"
  <2> DEFINE c == op[p].ch
  <2>1. PICK res \in {"nil", "closed", "full"} :
           /\ PushMsg(c, op[p].msg, res)
           /\ IF op[p].range = "all"
              THEN op' = [op EXCEPT ![p].pc = "range", ![p].n = IF res = "nil" THEN @ + 1 ELSE @]
              ELSE Return(p, res)
    BY <1>1 DEF Push
  <2>2. /\ c \in Chans /\ accepted \in [Chans -> Seq(Message)] /\ op[p].msg \in Message
        /\ op \in [Procs -> OpRec] /\ result \in [Procs -> Results]
    BY <1>1 DEF Push, TypeOK, CallsOK, NeedsChannel, OpRec
  <2>3. accepted' # [accepted EXCEPT ![c] = Append(@, op[p].msg)]
    <3>1. accepted[c] \in Seq(Message) BY <2>2
    <3>2. Append(accepted[c], op[p].msg) # accepted[c] BY <2>2, <3>1
    <3> QED BY <1>1, <2>2, <3>2
  <2>4. res # "nil" BY <1>1, <2>1, <2>3 DEF PushMsg
  <2>5. CASE op[p].range = "all"
    <3>1. op' = [op EXCEPT ![p].pc = "range", ![p].n = op[p].n] BY <2>1, <2>2, <2>4, <2>5
    <3> QED BY <2>2, <2>5, <3>1 DEF OpRec
  <2>6. CASE op[p].range # "all"
    <3>1. result' = [result EXCEPT ![p] = res] BY <2>1, <2>6 DEF Return
    <3> QED BY <2>2, <2>4, <2>6, <3>1
  <2> QED BY <2>5, <2>6
<1> DEFINE Told == \A p \in Procs :
              LET c == op[p].ch IN
              Push(p) /\ accepted' = accepted /\ ~chan[c].respClosed
                => IF op[p].range = "all" THEN op'[p].n = op[p].n ELSE result'[p] # "nil"
<1>2. TypeOK /\ [Next]_vars => [Told]_vars
  BY <1>1
<1> HIDE DEF Told
<1>3. [][Told]_vars => NilMeansQueuedUntilClosed
  BY DEF Told, NilMeansQueuedUntilClosed
<1> QED
  BY <1>2, <1>3, Typing, PTL DEF Spec
-----------------------------------------------------------------------------
(* The two Go channels of a Channel are closed in order: respChan only     *)
(* when the closed signal has fired, which the Close at hand has seen to.  *)
CloseOrder ==
    /\ \A c \in Chans : chan[c].respClosed => chan[c].closed
    /\ \A p \in Procs : op[p].pc = "closeResp" => chan[op[p].ch].closed

LEMMA CloseOrderKept ==
    ASSUME TypeOK, CloseOrder,
           \A c \in Chans : /\ chan'[c].closed = chan[c].closed
                             /\ chan'[c].respClosed = chan[c].respClosed,
           \A p \in Procs : op'[p].pc = "closeResp" => op'[p] = op[p]
    PROVE  CloseOrder'
<1>1. ASSUME NEW p \in Procs, op'[p].pc = "closeResp" PROVE chan'[op'[p].ch].closed
  <2>1. op[p].pc = "closeResp" /\ op'[p].ch = op[p].ch BY <1>1
  <2>2. op[p].ch \in Chans BY <2>1 DEF TypeOK, CallsOK, NeedsChannel
  <2> QED BY <2>1, <2>2 DEF CloseOrder
<1> QED BY <1>1 DEF CloseOrder

LEMMA CallTypes == ASSUME TypeOK
    PROVE /\ op \in [Procs -> OpRec] /\ chan \in [Chans -> ChannelRec]
          /\ \A p \in Procs : NeedsChannel(op[p]) => op[p].ch \in Chans
          /\ Idle.pc = "idle"
  BY DEF TypeOK, CallsOK, Idle

(* What a new call looks like to CloseOrder.                               *)
LEMMA BeginKeeps ==
    ASSUME TypeOK, NEW p \in Procs, NEW call, call.pc # "closeResp", Begin(p, call)
    PROVE  \A q \in Procs : op'[q].pc = "closeResp" => op'[q] = op[q]
  BY CallTypes DEF Begin

LEMMA ReturnKeeps ==
    ASSUME TypeOK, NEW p \in Procs, NEW res, Return(p, res)
    PROVE  \A q \in Procs : op'[q].pc = "closeResp" => op'[q] = op[q]
<1>1. PICK idle : idle = Idle OBVIOUS
<1>2. op' = [op EXCEPT ![p] = idle] /\ idle.pc # "closeResp" BY <1>1, CallTypes DEF Return
<1> QED BY <1>2, CallTypes

(* The steps that close, and what each other step leaves of a Channel.     *)
LEMMA ClosedStep == ASSUME TypeOK, NEW p \in Procs, CloseClosed(p)
    PROVE \/ /\ chan' = chan
             /\ \A q \in Procs : op'[q].pc = "closeResp" => op'[q] = op[q]
          \/ LET c == op[p].ch IN
             /\ c \in Chans /\ ~chan[c].closed
             /\ chan' = [chan EXCEPT ![c] = [@ EXCEPT !.closed = TRUE]]
             /\ op'[p].ch = c
             /\ \A q \in Procs : q # p => op'[q] = op[q]
<1>1. op[p].ch \in Chans BY CallTypes DEF CloseClosed, NeedsChannel
<1>2. CASE Return(p, "panic") /\ chan' = chan BY <1>2, ReturnKeeps
<1>3. CASE /\ ~chan[op[p].ch].closed
           /\ chan' = [chan EXCEPT ![op[p].ch].closed = TRUE]
           /\ op' = [op EXCEPT ![p].pc = "closeResp"]
  <2>1. op[p] \in OpRec BY CallTypes
  <2>2. op'[p] = [op[p] EXCEPT !.pc = "closeResp"] BY <1>3, CallTypes
  <2>3. op'[p].ch = op[p].ch BY <2>1, <2>2 DEF OpRec
  <2>4. \A q \in Procs : q # p => op'[q] = op[q] BY <1>3, CallTypes
  <2> QED BY <1>1, <1>3, <2>3, <2>4
<1> QED BY <1>2, <1>3 DEF CloseClosed

LEMMA RespStep == ASSUME TypeOK, NEW p \in Procs, CloseResp(p)
    PROVE /\ op[p].ch \in Chans /\ op[p].pc = "closeResp"
          /\ chan' = [chan EXCEPT ![op[p].ch] = [@ EXCEPT !.respClosed = TRUE]]
          /\ \A q \in Procs : op'[q].pc = "closeResp" => op'[q] = op[q]
<1>1. op[p].ch \in Chans BY CallTypes DEF CloseResp, NeedsChannel
<1>2. \A q \in Procs : op'[q].pc = "closeResp" => op'[q] = op[q] BY ReturnKeeps DEF CloseResp
<1> QED BY <1>1, <1>2 DEF CloseResp

LEMMA PushStep == ASSUME TypeOK, NEW p \in Procs, Push(p)
    PROVE LET c == op[p].ch IN
          /\ c \in Chans /\ op[p].pc = "push"
          /\ \/ chan' = chan
             \/ /\ HasRoom(c)
                /\ chan' = [chan EXCEPT ![c] = [@ EXCEPT !.buf = Append(chan[c].buf, op[p].msg)]]
          /\ \A q \in Procs : op'[q].pc = "closeResp" => op'[q] = op[q]
<1> DEFINE c == op[p].ch
<1>1. c \in Chans /\ op[p].pc = "push" BY CallTypes DEF Push, NeedsChannel
<1>2. PICK res \in {"nil", "closed", "full"} :
         /\ PushMsg(c, op[p].msg, res)
         /\ IF op[p].range = "all"
            THEN op' = [op EXCEPT ![p].pc = "range", ![p].n = IF res = "nil" THEN @ + 1 ELSE @]
            ELSE Return(p, res)
  BY DEF Push
<1>3. \/ chan' = chan
      \/ HasRoom(c) /\ chan' = [chan EXCEPT ![c] = [@ EXCEPT !.buf = Append(chan[c].buf, op[p].msg)]]
  BY <1>2 DEF PushMsg
<1>4. \A q \in Procs : op'[q].pc = "closeResp" => op'[q] = op[q]
  <2>1. CASE op[p].range = "all"
    <3>1. PICK n : op' = [op EXCEPT ![p].pc = "range", ![p].n = n] BY <1>2, <2>1
    <3>2. PICK r : r = [[op[p] EXCEPT !.pc = "range"] EXCEPT !.n = n] OBVIOUS
    <3>3. op' = [op EXCEPT ![p] = r] BY <3>1, <3>2, CallTypes
    <3>4. r.pc = "range" BY <3>2, CallTypes DEF OpRec
    <3> QED BY <3>3, <3>4, CallTypes
  <2>2. CASE op[p].range # "all" BY <1>2, <2>2, ReturnKeeps
  <2> QED BY <2>1, <2>2
<1> QED BY <1>1, <1>3, <1>4

LEMMA NewStep ==
    ASSUME TypeOK, NEW p \in Procs, NEW c \in Chans, NEW high8 \in Highs, NewChannel(p, c, high8)
    PROVE  /\ ~Allocated(c)
           /\ chan' = [chan EXCEPT ![c] = [@ EXCEPT !.seq = Sequence(rpcSequence + 1, high8)]]
           /\ \A q \in Procs : op'[q].pc = "closeResp" => op'[q] = op[q]
<1>1. PICK call : call = [Idle EXCEPT !.pc = "store", !.ch = c] OBVIOUS
<1>2. call.pc = "store" BY <1>1 DEF Idle
<1>3. Begin(p, call) BY <1>1 DEF NewChannel
<1>4. \A q \in Procs : op'[q].pc = "closeResp" => op'[q] = op[q] BY <1>2, <1>3, BeginKeeps
<1> QED BY <1>4 DEF NewChannel

LEMMA OtherSteps ==
    ASSUME TypeOK, NEW p \in Procs,
           \/ NewChannelStore(p) \/ LoadChannel(p) \/ RangeEnd(p)
           \/ \E k \in op[p].keys : RangeVisit(p, k)
           \/ \E c \in Chans : DelChannel(p, c) \/ Direct(p, c)
           \/ \E seq \in KnownSeqs : PushChannelMsg(p, seq)
           \/ \E fn \in SUBSET Chans \ {{}}, which \in {"all", "one"} : PushRange(p, which, fn)
    PROVE  chan' = chan /\ \A q \in Procs : op'[q].pc = "closeResp" => op'[q] = op[q]
<1> DEFINE Keeps == \A q \in Procs : op'[q].pc = "closeResp" => op'[q] = op[q]
<1>1. CASE NewChannelStore(p) BY <1>1, ReturnKeeps DEF NewChannelStore
<1>2. CASE LoadChannel(p)
  <2>1. CASE op' = [op EXCEPT ![p].pc = "push", ![p].ch = channelMap[op[p].msg.dest]]
    <3>1. PICK r : r = [[op[p] EXCEPT !.pc = "push"] EXCEPT !.ch = channelMap[op[p].msg.dest]]
      OBVIOUS
    <3>2. op' = [op EXCEPT ![p] = r] BY <2>1, <3>1, CallTypes
    <3>3. r.pc = "push" BY <3>1, CallTypes DEF OpRec
    <3> QED BY <1>2, <3>2, <3>3, CallTypes DEF LoadChannel
  <2>2. CASE Return(p, "notFound") BY <1>2, <2>2, ReturnKeeps DEF LoadChannel
  <2> QED BY <1>2, <2>1, <2>2 DEF LoadChannel
<1>3. CASE RangeEnd(p)
  <2>1. PICK res : res = IF op[p].range = "all" THEN "count" ELSE "nil" OBVIOUS
  <2>2. Return(p, res) /\ chan' = chan BY <1>3, <2>1 DEF RangeEnd
  <2> QED BY <2>2, ReturnKeeps
<1>4. ASSUME NEW k \in op[p].keys, RangeVisit(p, k) PROVE chan' = chan /\ Keeps
  <2>1. PICK ch, pc : /\ op' = [op EXCEPT ![p].keys = @ \ {k}, ![p].ch = ch, ![p].pc = pc]
                      /\ pc \in {"push", "range"}
    BY <1>4 DEF RangeVisit
  <2>2. PICK r : r = [[[op[p] EXCEPT !.keys = @ \ {k}] EXCEPT !.ch = ch] EXCEPT !.pc = pc]
    OBVIOUS
  <2>3. op' = [op EXCEPT ![p] = r] BY <2>1, <2>2, CallTypes
  <2>4. r.pc # "closeResp" BY <2>1, <2>2, CallTypes DEF OpRec
  <2> QED BY <1>4, <2>3, <2>4, CallTypes DEF RangeVisit
<1>5. ASSUME NEW c \in Chans, DelChannel(p, c) PROVE chan' = chan /\ Keeps
  <2>1. PICK call : call = [Idle EXCEPT !.pc = "closeClosed", !.ch = c] OBVIOUS
  <2>2. call.pc = "closeClosed" BY <2>1 DEF Idle
  <2>3. Begin(p, call) /\ chan' = chan BY <1>5, <2>1 DEF DelChannel
  <2> QED BY <2>2, <2>3, BeginKeeps
<1>6. ASSUME NEW c \in Chans, Direct(p, c) PROVE chan' = chan /\ Keeps
  <2>1. PICK call : call = [Idle EXCEPT !.pc = "push", !.ch = c, !.msg.id = pushes + 1] OBVIOUS
  <2>2. call.pc = "push" BY <2>1 DEF Idle
  <2>3. Begin(p, call) /\ chan' = chan BY <1>6, <2>1 DEF Direct, StartPush
  <2> QED BY <2>2, <2>3, BeginKeeps
<1>7. ASSUME NEW seq, PushChannelMsg(p, seq) PROVE chan' = chan /\ Keeps
  <2>1. PICK call : call = [Idle EXCEPT !.pc = "load", !.msg = [dest |-> seq, id |-> pushes + 1]]
    OBVIOUS
  <2>2. call.pc = "load" BY <2>1 DEF Idle
  <2>3. Begin(p, call) /\ chan' = chan BY <1>7, <2>1 DEF PushChannelMsg, StartPush
  <2> QED BY <2>2, <2>3, BeginKeeps
<1>8. ASSUME NEW fn, NEW which, PushRange(p, which, fn) PROVE chan' = chan /\ Keeps
  <2>1. PICK call : call = [Idle EXCEPT !.pc = "range", !.range = which, !.fn = fn,
                                       !.keys = DOMAIN channelMap, !.msg.id = pushes + 1]
    OBVIOUS
  <2>2. call.pc = "range" BY <2>1 DEF Idle
  <2>3. Begin(p, call) /\ chan' = chan BY <1>8, <2>1 DEF PushRange, StartPush
  <2> QED BY <2>2, <2>3, BeginKeeps
<1> QED BY <1>1, <1>2, <1>3, <1>4, <1>5, <1>6, <1>7, <1>8

(* What the refinement needs.                                              *)
BInv == IInv /\ CloseOrder

(* What a step comes to for the mailboxes, by what it does to one Channel. *)
LEMMA Untouched == ASSUME chan' = chan PROVE UNCHANGED Boxes!boxVars
  BY DEF Boxes!boxVars, Stage, Allocated

LEMMA Touched ==
    ASSUME TypeOK, NEW c \in Chans, NEW r \in ChannelRec, chan' = [chan EXCEPT ![c] = r]
    PROVE  /\ [d \in Chans |-> chan[d].buf]' = [[d \in Chans |-> chan[d].buf] EXCEPT ![c] = r.buf]
           /\ [d \in Chans |-> Stage(d)]' = [[d \in Chans |-> Stage(d)] EXCEPT ![c] = Stage(c)']
           /\ chan'[c] = r
<1>1. chan \in [Chans -> ChannelRec] BY CallTypes
<1>2. chan'[c] = r /\ \A d \in Chans \ {c} : chan'[d] = chan[d] BY <1>1
<1>3. \A d \in Chans \ {c} : Stage(d)' = Stage(d) BY <1>2 DEF Stage, Allocated
<1>4. [d \in Chans |-> Stage(d)]' = [[d \in Chans |-> Stage(d)] EXCEPT ![c] = Stage(c)']
  BY <1>3
<1>5. [d \in Chans |-> chan[d].buf]' = [[d \in Chans |-> chan[d].buf] EXCEPT ![c] = r.buf]
  <2>1. chan'[c].buf = r.buf BY <1>2
  <2>2. \A d \in Chans : d # c => chan'[d].buf = chan[d].buf BY <1>2
  <2>3. PICK q : q = [d \in Chans |-> chan[d].buf] OBVIOUS
  <2>4. PICK q2 : q2 = [d \in Chans |-> chan[d].buf]' OBVIOUS
  <2>5. q2 = [q EXCEPT ![c] = r.buf] BY <2>1, <2>2, <2>3, <2>4
  <2> QED BY <2>3, <2>4, <2>5
<1> QED BY <1>2, <1>4, <1>5

(* A step of Channel is a step of one mailbox, or none for any.            *)
LEMMA BoxStep ==
    ASSUME ChannelAssumption, BInv, [Next]_vars
    PROVE  CloseOrder' /\ [Boxes!BoxNext]_(Boxes!boxVars)
<1> USE DEF BInv
<1>types. TypeOK /\ chan \in [Chans -> ChannelRec] BY CallTypes DEF IInv
<1> DEFINE stg == [d \in Chans |-> Stage(d)]
           que == [d \in Chans |-> chan[d].buf]
           Closes == \A q \in Procs : op'[q].pc = "closeResp" => op'[q] = op[q]
<1>still. ASSUME chan' = chan, Closes PROVE CloseOrder' /\ [Boxes!BoxNext]_(Boxes!boxVars)
  <2>1. CloseOrder' BY <1>types, <1>still, CloseOrderKept
  <2> QED BY <1>still, <2>1, Untouched
<1>1. ASSUME NEW p \in Procs, NEW c \in Chans, NEW high8 \in Highs, NewChannel(p, c, high8)
      PROVE  CloseOrder' /\ [Boxes!BoxNext]_(Boxes!boxVars)
  <2>1. PICK seq : seq = Sequence(rpcSequence + 1, high8) OBVIOUS
  <2>2. PICK r : r = [chan[c] EXCEPT !.seq = seq] OBVIOUS
  <2>3. /\ ~Allocated(c) /\ chan' = [chan EXCEPT ![c] = r] /\ Closes
    BY <1>1, <1>types, <2>1, <2>2, NewStep
  <2>4. seq \in Nat /\ seq # 0
    <3>1. rpcSequence + 1 \in Nat /\ rpcSequence + 1 < SeqShift /\ rpcSequence + 1 # 0
      BY <1>1 DEF NewChannel, IInv, TypeOK
    <3> QED BY <2>1, <3>1, SequenceParts
  <2>5. /\ r \in ChannelRec /\ r.seq = seq /\ r.buf = chan[c].buf
        /\ r.closed = chan[c].closed /\ r.respClosed = chan[c].respClosed
    BY <1>types, <2>2, <2>4 DEF ChannelRec
  <2>6. ~chan[c].closed /\ ~chan[c].respClosed
    BY <2>3 DEF IInv, Lifecycle, CloseOrder
  <2>7. CloseOrder'
    <3>1. \A d \in Chans : /\ chan'[d].closed = chan[d].closed
                           /\ chan'[d].respClosed = chan[d].respClosed
      BY <1>types, <2>3, <2>5
    <3> QED BY <1>types, <2>3, <3>1, CloseOrderKept
  <2>8. que' = [que EXCEPT ![c] = r.buf] /\ stg' = [stg EXCEPT ![c] = Stage(c)'] /\ chan'[c] = r
    BY <1>types, <2>3, <2>5, Touched
  <2>9. Stage(c) = "none" /\ Stage(c)' = "open"
    BY <2>3, <2>4, <2>5, <2>6, <2>8 DEF Stage, Allocated
  <2>10. que' = que BY <2>5, <2>8
  <2>11. Boxes!Create(c) BY <2>8, <2>9, <2>10 DEF Boxes!Create
  <2> QED BY <2>7, <2>11 DEF Boxes!BoxNext
<1>2. ASSUME NEW p \in Procs, CloseClosed(p) PROVE CloseOrder' /\ [Boxes!BoxNext]_(Boxes!boxVars)
  <2>0. PICK c : c = op[p].ch OBVIOUS
  <2>1. CASE chan' = chan /\ Closes BY <1>still, <2>1
  <2>2. CASE /\ c \in Chans /\ ~chan[c].closed
             /\ chan' = [chan EXCEPT ![c] = [@ EXCEPT !.closed = TRUE]]
             /\ op'[p].ch = c
             /\ \A q \in Procs : q # p => op'[q] = op[q]
    <3>1. PICK r : r = [chan[c] EXCEPT !.closed = TRUE] OBVIOUS
    <3>2. chan' = [chan EXCEPT ![c] = r] /\ c \in Chans BY <2>2, <3>1
    <3>3. /\ r \in ChannelRec /\ r.seq = chan[c].seq /\ r.buf = chan[c].buf
          /\ r.closed /\ r.respClosed = chan[c].respClosed
      BY <1>types, <3>1, <3>2 DEF ChannelRec
    <3>4. ~chan[c].respClosed BY <2>2 DEF CloseOrder
    <3>5. Allocated(c)
      BY <1>2, <2>0 DEF IInv, Lifecycle, CloseClosed
    <3>6. que' = [que EXCEPT ![c] = r.buf] /\ stg' = [stg EXCEPT ![c] = Stage(c)'] /\ chan'[c] = r
      BY <1>types, <3>2, <3>3, Touched
    <3>7. CloseOrder'
      <4>1. \A d \in Chans : chan'[d].respClosed = chan[d].respClosed /\ (chan[d].closed => chan'[d].closed)
        BY <1>types, <3>2, <3>3
      <4>2. \A q \in Procs \ {p} : op[q].pc = "closeResp" => op[q].ch \in Chans
        BY <1>types, CallTypes DEF NeedsChannel
      <4>3. chan'[op'[p].ch].closed BY <2>2, <3>3, <3>6
      <4> QED BY <2>2, <4>1, <4>2, <4>3 DEF CloseOrder
    <3>8. Stage(c) = "open" /\ Stage(c)' = "closing"
      BY <2>2, <3>3, <3>4, <3>5, <3>6 DEF Stage, Allocated
    <3>9. que' = que BY <3>3, <3>6
    <3>10. Boxes!BeginClose(c) BY <3>2, <3>6, <3>8, <3>9 DEF Boxes!BeginClose
    <3> QED BY <3>2, <3>7, <3>10 DEF Boxes!BoxNext
  <2> QED BY <1>2, <1>types, <2>0, <2>1, <2>2, ClosedStep
<1>3. ASSUME NEW p \in Procs, CloseResp(p) PROVE CloseOrder' /\ [Boxes!BoxNext]_(Boxes!boxVars)
  <2>0. PICK c : c = op[p].ch OBVIOUS
  <2>1. PICK r : r = [chan[c] EXCEPT !.respClosed = TRUE] OBVIOUS
  <2>2. c \in Chans /\ op[p].pc = "closeResp" /\ chan' = [chan EXCEPT ![c] = r] /\ Closes
    BY <1>3, <1>types, <2>0, <2>1, RespStep
  <2>3. /\ r \in ChannelRec /\ r.seq = chan[c].seq /\ r.buf = chan[c].buf
        /\ r.closed = chan[c].closed /\ r.respClosed
    BY <1>types, <2>1, <2>2 DEF ChannelRec
  <2>4. chan[c].closed BY <1>3, <2>0 DEF CloseResp, CloseOrder
  <2>5. que' = [que EXCEPT ![c] = r.buf] /\ stg' = [stg EXCEPT ![c] = Stage(c)'] /\ chan'[c] = r
    BY <1>types, <2>2, <2>3, Touched
  <2>6. CloseOrder'
    <3>1. \A d \in Chans : /\ chan'[d].closed = chan[d].closed
                           /\ d # c => chan'[d].respClosed = chan[d].respClosed
      BY <1>types, <2>2, <2>3
    <3>2. \A d \in Chans : chan'[d].respClosed => chan'[d].closed
      BY <2>4, <3>1 DEF CloseOrder
    <3>3. \A q \in Procs : op'[q].pc = "closeResp" => op[q].ch \in Chans
      BY <1>types, <2>2, CallTypes DEF NeedsChannel
    <3>4. \A q \in Procs : op'[q].pc = "closeResp" => chan'[op'[q].ch].closed
      BY <2>2, <3>1, <3>3 DEF CloseOrder
    <3> QED BY <3>2, <3>4 DEF CloseOrder
  <2>7. que' = que /\ Stage(c)' = "closed" BY <2>3, <2>5, ZenonT(30) DEF Stage
  <2>8. CASE chan[c].respClosed
    <3>1. Stage(c) = "closed" BY <2>8 DEF Stage
    <3>2. stg' = stg BY <2>5, <2>7, <3>1
    <3> QED BY <2>6, <2>7, <3>2 DEF Boxes!boxVars
  <2>9. CASE ~chan[c].respClosed
    <3>1. Stage(c) = "closing" BY <2>4, <2>9 DEF Stage
    <3>2. Boxes!EndClose(c) BY <2>2, <2>5, <2>7, <3>1 DEF Boxes!EndClose
    <3> QED BY <2>2, <2>6, <3>2 DEF Boxes!BoxNext
  <2> QED BY <2>8, <2>9
<1>4. ASSUME NEW p \in Procs, Push(p) PROVE CloseOrder' /\ [Boxes!BoxNext]_(Boxes!boxVars)
  <2>0. PICK c : c = op[p].ch OBVIOUS
  <2>1. c \in Chans /\ op[p].pc = "push" /\ Closes
        /\ \/ chan' = chan
           \/ /\ HasRoom(c)
              /\ chan' = [chan EXCEPT ![c] =
                            [@ EXCEPT !.buf = Append(chan[c].buf, op[p].msg)]]
    BY <1>4, <1>types, <2>0, PushStep
  <2>2. CASE chan' = chan BY <1>still, <2>1, <2>2
  <2>3. CASE /\ HasRoom(c)
             /\ chan' = [chan EXCEPT ![c] = [@ EXCEPT !.buf = Append(chan[c].buf, op[p].msg)]]
    <3>1. PICK buf, m : m = op[p].msg /\ buf = Append(chan[c].buf, m) OBVIOUS
    <3>2. PICK r : r = [chan[c] EXCEPT !.buf = buf] OBVIOUS
    <3>3. chan' = [chan EXCEPT ![c] = r] /\ c \in Chans BY <2>1, <2>3, <3>1, <3>2
    <3>4. m \in Message /\ chan[c].buf \in Seq(Message)
      BY <1>types, <2>0, <2>1, <3>1, CallTypes DEF OpRec, ChannelRec
    <3>5. /\ buf \in Seq(Message) /\ Len(buf) = Len(chan[c].buf) + 1
          /\ buf[Len(buf)] = m
      BY <3>1, <3>4
    <3>6. /\ r \in ChannelRec /\ r.seq = chan[c].seq /\ r.buf = buf
          /\ r.closed = chan[c].closed /\ r.respClosed = chan[c].respClosed
      BY <1>types, <3>2, <3>3, <3>5 DEF ChannelRec
    <3>7. que' = [que EXCEPT ![c] = buf] /\ stg' = [stg EXCEPT ![c] = Stage(c)'] /\ chan'[c] = r
      BY <1>types, <3>3, <3>6, Touched
    <3>8. Stage(c)' = Stage(c) BY <3>6, <3>7 DEF Stage, Allocated
    <3>9. stg' = stg BY <3>7, <3>8
    <3>10. Stage(c) \in {"open", "closing"}
      BY <2>0, <2>1, <2>3 DEF Stage, HasRoom, IInv, Addressed
    <3>11. Boxes!Accept(c)
      <4>1. que'[c] = buf /\ que[c] = chan[c].buf BY <3>3, <3>7
      <4>2. Len(que[c]) < ChLen BY <2>3, <4>1 DEF HasRoom
      <4>3. que' = [que EXCEPT ![c] = Append(@, buf[Len(buf)])] BY <3>1, <3>5, <3>7, <4>1
      <4>4. stg[c] \in {"open", "closing"} BY <3>3, <3>10
      <4> HIDE DEF que, stg
      <4>5. /\ stg[c] \in {"open", "closing"} /\ Len(que[c]) < ChLen
            /\ Len(que'[c]) = Len(que[c]) + 1
            /\ que' = [que EXCEPT ![c] = Append(@, que'[c][Len(que'[c])])]
            /\ stg' = stg
        BY <3>5, <3>9, <4>1, <4>2, <4>3, <4>4
      <4> QED BY <4>5 DEF Boxes!Accept, que, stg
    <3>12. CloseOrder'
      <4>1. \A d \in Chans : chan'[d].closed = chan[d].closed /\ chan'[d].respClosed = chan[d].respClosed
        BY <1>types, <3>3, <3>6
      <4> QED BY <1>types, <2>1, <4>1, CloseOrderKept
    <3> QED BY <3>3, <3>11, <3>12 DEF Boxes!BoxNext
  <2> QED BY <2>1, <2>2, <2>3
<1>5. ASSUME NEW c \in Chans, Recv(c) PROVE CloseOrder' /\ [Boxes!BoxNext]_(Boxes!boxVars)
  <2>1. PICK buf : buf = Tail(chan[c].buf) OBVIOUS
  <2>2. PICK r : r = [chan[c] EXCEPT !.buf = buf] OBVIOUS
  <2>3. chan' = [chan EXCEPT ![c] = r] /\ op' = op /\ chan[c].buf # << >>
    BY <1>5, <2>1, <2>2 DEF Recv
  <2>4. chan[c].buf \in Seq(Message) /\ buf \in Seq(Message)
    BY <1>types, <2>1, <2>3 DEF ChannelRec
  <2>5. /\ r \in ChannelRec /\ r.seq = chan[c].seq /\ r.buf = buf
        /\ r.closed = chan[c].closed /\ r.respClosed = chan[c].respClosed
    BY <1>types, <2>2, <2>4 DEF ChannelRec
  <2>6. que' = [que EXCEPT ![c] = buf] /\ stg' = [stg EXCEPT ![c] = Stage(c)'] /\ chan'[c] = r
    BY <1>types, <2>3, <2>5, Touched
  <2>7. Stage(c)' = Stage(c) BY <2>5, <2>6 DEF Stage, Allocated
  <2>8. stg' = stg BY <2>6, <2>7
  <2>9. que' = [que EXCEPT ![c] = Tail(@)] BY <2>1, <2>6
  <2>10. Boxes!Take(c) BY <2>3, <2>8, <2>9 DEF Boxes!Take
  <2>11. CloseOrder'
    <3>1. \A d \in Chans : /\ chan'[d].closed = chan[d].closed
                           /\ chan'[d].respClosed = chan[d].respClosed
      BY <1>types, <2>3, <2>5
    <3> QED BY <1>types, <2>3, <3>1, CloseOrderKept
  <2> QED BY <2>10, <2>11 DEF Boxes!BoxNext
<1>6. CASE UNCHANGED vars BY <1>still, <1>6 DEF vars
<1> QED BY <1>types, <1>still, <1>1, <1>2, <1>3, <1>4, <1>5, <1>6, OtherSteps
     DEF Next, Start, Continue

(* The Channels implement the abstract mailboxes: whatever calls race, a   *)
(* letter enters an open mailbox with room and nowhere else, a Close that  *)
(* is cut short leaves nothing half closed but its signal, and no mailbox  *)
(* is opened again.                                                        *)
THEOREM MailboxesImplemented == Spec => Boxes!BoxInit /\ [][Boxes!BoxNext]_(Boxes!boxVars)
<1>1. Init => Boxes!BoxInit
  BY DEF Init, Boxes!BoxInit, Stage, Allocated, Unallocated
<1>2. Init => CloseOrder BY DEF Init, CloseOrder, Unallocated, Idle
<1>3. IInv /\ CloseOrder /\ [Next]_vars => CloseOrder' /\ [Boxes!BoxNext]_(Boxes!boxVars)
  BY ChannelAssumption, BoxStep DEF BInv
<1> QED BY <1>1, <1>2, <1>3, Invariance, PTL DEF Spec
=============================================================================
