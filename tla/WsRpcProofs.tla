----------------------------- MODULE WsRpcProofs ------------------------------
(***************************************************************************)
(* Theorems about WsRpc, for any number of calls.  The inductive invariant *)
(* for any peer, AnyInv, says whose entry sndmap holds and that a message  *)
(* is handed only to the call whose number it carries.  With a peer that   *)
(* puts no number in the Chk of its own requests (with one that does, a    *)
(* call can be handed a request: run ws_peer) IInv also counts the         *)
(* replies: those a call was given, has in its channel or is about to have *)
(* are no more than were read.                                             *)
(***************************************************************************)
EXTENDS WsRpc, TLAPS

BrowserPeer == PeerNumbers = {}

CallPC == {"idle", "begin", "send", "wait", "delete", "close", "done"}
Outcomes == {"none", "notReady", "notSent", "reply", "timeout"}
Msgs == [kind : {"none", "rsp", "req"}, chk : Nat, from : Calls \cup {NoCall}]
CallType == [pc : CallPC, id : Nat, inLoop : BOOLEAN, out : Outcomes,
             buf : {<< >>} \cup {<<m>> : m \in Msgs}, open : BOOLEAN, got : Msgs]
RecvType == [pc : {"read", "send", "request", "handle", "down"}, k : Calls \cup {NoCall}, m : Msgs]

TypeOK == /\ up \in BOOLEAN /\ coSche \in BOOLEAN /\ sndid \in Nat
          /\ call \in [Calls -> CallType] /\ recv \in RecvType
          /\ replies \in [Calls -> Nat]
          /\ sndmap \in [DOMAIN sndmap -> Calls]

Reply(k) == Msg("rsp", call[k].id, k)

(* A call has its number from Register on; it is its own.                  *)
Active(k) == call[k].pc \in {"send", "wait", "delete", "close"}

CallOK(k) ==
    /\ call[k].id <= sndid
    /\ call[k].open <=> Active(k)
    /\ call[k].id # 0 <=> Active(k) \/ call[k].out \in {"notSent", "reply", "timeout"}
    /\ call[k].out = "none" <=> call[k].pc \in {"idle", "begin", "send", "wait"}
    /\ call[k].out = "notReady" => call[k].pc = "done"

CallsOK ==
    /\ \A k \in Calls : CallOK(k)
    /\ \A j, k \in Calls : call[j].id # 0 /\ call[j].id = call[k].id => j = k

MapOK == \A n \in DOMAIN sndmap : /\ n # 0 /\ call[sndmap[n]].id = n
                                  /\ call[sndmap[n]].pc \in {"send", "wait", "delete"}

(* What a reply channel, a caller or the loop holds for a call is a reply  *)
(* to its request, or a request of the peer's under the same number.       *)
Handed(m, k) ==
    m = Reply(k) \/ (call[k].id \in PeerNumbers /\ m = Msg("req", call[k].id, NoCall))

Carried(k) == /\ call[k].buf # << >> => Handed(Head(call[k].buf), k)
              /\ call[k].out = "reply" => Handed(call[k].got, k)
              /\ call[k].buf # << >> \/ call[k].out = "reply" => call[k].id # 0

CarriesOwn ==
    /\ \A k \in Calls : Carried(k)
    /\ recv.pc = "send" => /\ recv.k \in Calls /\ call[recv.k].id # 0
                           /\ Handed(recv.m, recv.k)

AnyInv == TypeOK /\ CallsOK /\ MapOK /\ CarriesOwn

(* With a peer that numbers none, they hold only replies, and the loop     *)
(* holds one only for a call that has sent its request.                    *)
Given(k) == /\ call[k].buf \in {<< >>, <<Reply(k)>>}
            /\ call[k].out = "reply" => call[k].got = Reply(k)
            /\ call[k].buf # << >> \/ call[k].out = "reply" => call[k].id # 0

Answerable(k) == call[k].id # 0 /\ (call[k].pc = "wait" \/ call[k].out \in {"reply", "timeout"})

RepliesOwn ==
    /\ \A k \in Calls : Given(k)
    /\ recv.pc = "send" => recv.k \in Calls /\ recv.m = Reply(recv.k) /\ Answerable(recv.k)

(* The replies read are at least those that went somewhere.                *)
Count(k) == (IF recv.pc = "send" /\ recv.k = k THEN 1 ELSE 0)
            + (IF call[k].buf # << >> THEN 1 ELSE 0)
            + (IF call[k].out = "reply" THEN 1 ELSE 0)

CountsOK == \A k \in Calls : /\ Count(k) <= replies[k]
                             /\ replies[k] # 0 => call[k].id # 0

IInv == AnyInv /\ RepliesOwn /\ CountsOK
-----------------------------------------------------------------------------
(* The steps of a call, field by field.                                    *)
Sets(k, pc, id, out, buf, open, got) ==
    /\ call' \in [Calls -> CallType]
    /\ \A j \in Calls \ {k} : call'[j] = call[j]
    /\ call'[k].pc = pc /\ call'[k].id = id /\ call'[k].out = out
    /\ call'[k].buf = buf /\ call'[k].open = open /\ call'[k].got = got

(* A record of the type, and what a write to some of its fields leaves.    *)
LEMMA Fields ==
    ASSUME NEW c \in CallType
    PROVE  /\ c.pc \in CallPC /\ c.id \in Nat /\ c.out \in Outcomes /\ c.open \in BOOLEAN
           /\ c.buf \in {<< >>} \cup {<<m>> : m \in Msgs} /\ c.got \in Msgs
  BY DEF CallType

(* Writing one call.                                                       *)
LEMMA WriteCall ==
    ASSUME call \in [Calls -> CallType], NEW k \in Calls, NEW r \in CallType,
           call' = [call EXCEPT ![k] = r]
    PROVE  Sets(k, r.pc, r.id, r.out, r.buf, r.open, r.got)
  BY DEF Sets

(* Each handler, in these terms.                                           *)
LEMMA CallEffects ==
    ASSUME TypeOK, NEW k \in Calls
    PROVE  LET c == call[k] IN
           /\ \A inLoop \in BOOLEAN : Begin(k, inLoop) =>
                Sets(k, "begin", 0, "none", << >>, FALSE, NoMsg) /\ c = CallIdle
           /\ Register(k) =>
                \/ Sets(k, "done", c.id, "notReady", c.buf, c.open, c.got)
                     /\ UNCHANGED <<sndid, sndmap>>
                \/ Sets(k, "send", sndid + 1, c.out, c.buf, TRUE, c.got)
                     /\ sndid' = sndid + 1 /\ sndmap' = MapStore(sndmap, sndid + 1, k)
           /\ SendRpc(k) => \/ Sets(k, "wait", c.id, c.out, c.buf, c.open, c.got)
                            \/ Sets(k, "delete", c.id, "notSent", c.buf, c.open, NoMsg)
           /\ TakeReply(k) =>
                Sets(k, "delete", c.id, "reply", << >>, c.open, Head(c.buf))
           /\ Timeout(k) => Sets(k, "delete", c.id, "timeout", c.buf, c.open, NoMsg)
           /\ DeleteReplyChan(k) => Sets(k, "close", c.id, c.out, c.buf, c.open, c.got)
           /\ CloseReplyChan(k) => Sets(k, "done", c.id, c.out, c.buf, FALSE, c.got)
<1> DEFINE c == call[k]
<1>0. call \in [Calls -> CallType] /\ c \in CallType /\ sndid + 1 \in Nat
  BY DEF TypeOK
<1>a. NoMsg \in Msgs
  BY DEF NoMsg, Msg, Msgs
<1>1. ASSUME NEW inLoop \in BOOLEAN, Begin(k, inLoop)
      PROVE  Sets(k, "begin", 0, "none", << >>, FALSE, NoMsg) /\ c = CallIdle
  <2>1. c = CallIdle
    BY <1>1 DEF Begin
  <2>2. PICK r : r = [[c EXCEPT !.pc = "begin"] EXCEPT !.inLoop = inLoop]
    OBVIOUS
  <2>3. /\ r \in CallType /\ r.pc = "begin" /\ r.id = c.id /\ r.out = c.out /\ r.buf = c.buf
        /\ r.open = c.open /\ r.got = c.got
    BY <1>0, <2>2 DEF CallType, CallPC
  <2>4. call' = [call EXCEPT ![k] = r]
    BY <1>0, <1>1, <2>2 DEF Begin
  <2>5. Sets(k, r.pc, r.id, r.out, r.buf, r.open, r.got)
    BY <1>0, <2>3, <2>4, WriteCall
  <2>6. c.id = 0 /\ c.out = "none" /\ c.buf = << >> /\ c.open = FALSE /\ c.got = NoMsg
    BY <2>1 DEF CallIdle
  <2> QED
    BY <2>1, <2>3, <2>5, <2>6
<1>2. ASSUME Register(k)
      PROVE  \/ Sets(k, "done", c.id, "notReady", c.buf, c.open, c.got)
                  /\ UNCHANGED <<sndid, sndmap>>
             \/ Sets(k, "send", sndid + 1, c.out, c.buf, TRUE, c.got)
                  /\ sndid' = sndid + 1 /\ sndmap' = MapStore(sndmap, sndid + 1, k)
  <2>1. ASSUME call' = [call EXCEPT ![k].pc = "done", ![k].out = "notReady"]
        PROVE  Sets(k, "done", c.id, "notReady", c.buf, c.open, c.got)
    <3>1. PICK r : r = [[c EXCEPT !.pc = "done"] EXCEPT !.out = "notReady"]
      OBVIOUS
    <3>2. /\ r \in CallType /\ r.pc = "done" /\ r.id = c.id /\ r.out = "notReady"
          /\ r.buf = c.buf /\ r.open = c.open /\ r.got = c.got
      BY <1>0, <3>1 DEF CallType, CallPC, Outcomes
    <3>3. call' = [call EXCEPT ![k] = r]
      BY <1>0, <2>1, <3>1
    <3> QED
      BY <1>0, <3>2, <3>3, WriteCall
  <2>2. ASSUME call' = [call EXCEPT ![k].pc = "send", ![k].id = sndid + 1, ![k].open = TRUE]
        PROVE  Sets(k, "send", sndid + 1, c.out, c.buf, TRUE, c.got)
    <3>1. PICK r : r = [[[c EXCEPT !.pc = "send"] EXCEPT !.id = sndid + 1] EXCEPT !.open = TRUE]
      OBVIOUS
    <3>2. /\ r \in CallType /\ r.pc = "send" /\ r.id = sndid + 1 /\ r.out = c.out
          /\ r.buf = c.buf /\ r.open = TRUE /\ r.got = c.got
      BY <1>0, <3>1 DEF CallType, CallPC
    <3>3. call' = [call EXCEPT ![k] = r]
      BY <1>0, <2>2, <3>1
    <3> QED
      BY <1>0, <3>2, <3>3, WriteCall
  <2>3. \/ /\ call' = [call EXCEPT ![k].pc = "done", ![k].out = "notReady"]
           /\ UNCHANGED <<sndid, sndmap>>
        \/ /\ call' = [call EXCEPT ![k].pc = "send", ![k].id = sndid + 1, ![k].open = TRUE]
           /\ sndid' = sndid + 1 /\ sndmap' = MapStore(sndmap, sndid + 1, k)
    BY <1>2 DEF Register
  <2> HIDE DEF c
  <2> QED
    BY <2>1, <2>2, <2>3
<1>3. ASSUME NEW out \in Outcomes, Finish(k, out, NoMsg)
      PROVE  Sets(k, "delete", c.id, out, c.buf, c.open, NoMsg)
  <2>1. PICK r : r = [[[c EXCEPT !.pc = "delete"] EXCEPT !.out = out] EXCEPT !.got = NoMsg]
    OBVIOUS
  <2>2. /\ r \in CallType /\ r.pc = "delete" /\ r.id = c.id /\ r.out = out
        /\ r.buf = c.buf /\ r.open = c.open /\ r.got = NoMsg
    BY <1>0, <1>a, <2>1 DEF CallType, CallPC
  <2>3. call' = [call EXCEPT ![k] = r]
    BY <1>0, <1>3, <2>1 DEF Finish
  <2> QED
    BY <1>0, <2>2, <2>3, WriteCall
<1>4. ASSUME NEW pc \in CallPC, call' = [call EXCEPT ![k].pc = pc]
      PROVE  Sets(k, pc, c.id, c.out, c.buf, c.open, c.got)
  <2>1. PICK r : r = [c EXCEPT !.pc = pc]
    OBVIOUS
  <2>2. /\ r \in CallType /\ r.pc = pc /\ r.id = c.id /\ r.out = c.out
        /\ r.buf = c.buf /\ r.open = c.open /\ r.got = c.got
    BY <1>0, <2>1 DEF CallType
  <2>3. call' = [call EXCEPT ![k] = r]
    BY <1>0, <1>4, <2>1
  <2> QED
    BY <1>0, <2>2, <2>3, WriteCall
<1>5. SendRpc(k) => \/ Sets(k, "wait", c.id, c.out, c.buf, c.open, c.got)
                    \/ Sets(k, "delete", c.id, "notSent", c.buf, c.open, NoMsg)
  BY <1>3, <1>4 DEF SendRpc, CallPC, Outcomes
<1>6. ASSUME TakeReply(k) PROVE Sets(k, "delete", c.id, "reply", << >>, c.open, Head(c.buf))
  <2>1. PICK r : r = [[[[c EXCEPT !.pc = "delete"] EXCEPT !.out = "reply"]
                         EXCEPT !.got = Head(c.buf)] EXCEPT !.buf = << >>]
    OBVIOUS
  <2>2. Head(c.buf) \in Msgs
    BY <1>0, <1>6, Fields DEF TakeReply
  <2>3. /\ r \in CallType /\ r.pc = "delete" /\ r.id = c.id /\ r.out = "reply"
        /\ r.buf = << >> /\ r.open = c.open /\ r.got = Head(c.buf)
    BY <1>0, <2>1, <2>2 DEF CallType, CallPC, Outcomes
  <2>4. call' = [call EXCEPT ![k] = r]
    BY <1>0, <1>6, <2>1 DEF TakeReply
  <2> QED
    BY <1>0, <2>3, <2>4, WriteCall
<1>7. Timeout(k) => Sets(k, "delete", c.id, "timeout", c.buf, c.open, NoMsg)
  BY <1>3 DEF Timeout, Outcomes
<1>8. DeleteReplyChan(k) => Sets(k, "close", c.id, c.out, c.buf, c.open, c.got)
  BY <1>4 DEF DeleteReplyChan, CallPC
<1>9. ASSUME CloseReplyChan(k) PROVE Sets(k, "done", c.id, c.out, c.buf, FALSE, c.got)
  <2>1. PICK r : r = [[c EXCEPT !.pc = "done"] EXCEPT !.open = FALSE]
    OBVIOUS
  <2>2. /\ r \in CallType /\ r.pc = "done" /\ r.id = c.id /\ r.out = c.out
        /\ r.buf = c.buf /\ r.open = FALSE /\ r.got = c.got
    BY <1>0, <2>1 DEF CallType, CallPC
  <2>3. call' = [call EXCEPT ![k] = r]
    BY <1>0, <1>9, <2>1 DEF CloseReplyChan
  <2> QED
    BY <1>0, <2>2, <2>3, WriteCall
<1> QED
  BY <1>1, <1>2, <1>5, <1>6, <1>7, <1>8, <1>9

(* The hand-over fills the channel of the call it is for.                  *)
LEMMA HandOverEffect ==
    ASSUME TypeOK, HandOver, recv.k \in Calls
    PROVE  LET c == call[recv.k] IN
           Sets(recv.k, c.pc, c.id, c.out, <<recv.m>>, c.open, c.got)
<1> DEFINE c == call[recv.k]
<1>0. call \in [Calls -> CallType] /\ c \in CallType /\ recv.m \in Msgs
  BY DEF TypeOK, RecvType
<1>1. PICK r : r = [c EXCEPT !.buf = <<recv.m>>]
  OBVIOUS
<1>2. /\ r \in CallType /\ r.pc = c.pc /\ r.id = c.id /\ r.out = c.out
      /\ r.buf = <<recv.m>> /\ r.open = c.open /\ r.got = c.got
  BY <1>0, <1>1 DEF CallType
<1>3. call' = [call EXCEPT ![recv.k] = r]
  BY <1>0, <1>1 DEF HandOver
<1> QED
  BY <1>0, <1>2, <1>3, WriteCall
-----------------------------------------------------------------------------
(* The receive loop.                                                       *)
RecvTo(pc, k, m) == recv' \in RecvType /\ recv'.pc = pc /\ recv'.k = k /\ recv'.m = m

(* Where a message goes.                                                   *)
LEMMA DispatchEffect ==
    ASSUME TypeOK, NEW m \in Msgs, Dispatch(m)
    PROVE  \/ /\ m.chk # 0 /\ m.chk \in DOMAIN sndmap
              /\ RecvTo("send", sndmap[m.chk], m)
           \/ RecvTo("request", NoCall, NoMsg)
<1>0. NoMsg \in Msgs
  BY DEF NoMsg, Msg, Msgs
<1>1. CASE m.chk # 0 /\ m.chk \in DOMAIN sndmap
  <2>1. recv' = [pc |-> "send", k |-> sndmap[m.chk], m |-> m]
    BY <1>1 DEF Dispatch
  <2>2. sndmap[m.chk] \in Calls
    BY <1>1 DEF TypeOK
  <2> QED
    BY <1>1, <2>1, <2>2 DEF RecvTo, RecvType
<1>2. CASE ~(m.chk # 0 /\ m.chk \in DOMAIN sndmap)
  <2>1. recv' = [pc |-> "request", k |-> NoCall, m |-> NoMsg]
    BY <1>2 DEF Dispatch, Reading
  <2> QED
    BY <1>0, <2>1 DEF RecvTo, RecvType
<1> QED
  BY <1>1, <1>2

(* The loop does not come to hold a reply.                                 *)
Quiet == recv' \in RecvType /\ (recv' = recv \/ recv'.pc # "send")

(* A request of the peer's carries a number that is in sndmap.             *)
PeerMatches ==
    /\ UNCHANGED <<call, sndid, sndmap, replies>>
    /\ \E n \in PeerNumbers \cap DOMAIN sndmap :
          RecvTo("send", sndmap[n], Msg("req", n, NoCall))

(* What a step is, for the calls: nothing, the begin of one, a step of     *)
(* one, a reply read, such a request read, or a message handed over.       *)
LEMMA Steps ==
    ASSUME TypeOK, [Next]_vars
    PROVE  \/ UNCHANGED <<call, sndid, sndmap, replies>> /\ Quiet
           \/ PeerMatches
           \/ \E k \in Calls, inLoop \in BOOLEAN :
                 Begin(k, inLoop) /\ UNCHANGED <<sndid, sndmap, replies>> /\ Quiet
           \/ \E k \in Calls : CallStep(k) \/ RecvReply(k)
           \/ HandOver
<1>0. recv \in RecvType /\ NoMsg \in Msgs /\ coSche \in BOOLEAN
  BY DEF TypeOK, NoMsg, Msg, Msgs
<1>1. /\ Reading \in RecvType /\ Reading.pc = "read" /\ Down \in RecvType /\ Down.pc = "down"
      /\ \A k \in Calls : /\ [Reading EXCEPT !.pc = "handle", !.k = k] \in RecvType
                          /\ [Reading EXCEPT !.pc = "handle", !.k = k].pc = "handle"
  BY <1>0 DEF Reading, Down, RecvType
<1>2. CASE UNCHANGED vars
  BY <1>0, <1>2 DEF vars, Quiet
<1>3. ASSUME NEW k \in Calls, AppCall(k)
      PROVE  Begin(k, FALSE) /\ UNCHANGED <<sndid, sndmap, replies>> /\ Quiet
  BY <1>0, <1>3 DEF AppCall, Quiet
<1>4. ASSUME RecvPeerRequest
      PROVE  PeerMatches \/ (UNCHANGED <<call, sndid, sndmap, replies>> /\ Quiet)
  <2>1. PICK n \in PeerNumbers \cup {0} : Dispatch(Msg("req", n, NoCall))
    BY <1>4 DEF RecvPeerRequest
  <2>2. UNCHANGED <<call, sndid, sndmap, replies>>
    BY <1>4 DEF RecvPeerRequest
  <2>3. Msg("req", n, NoCall) \in Msgs /\ Msg("req", n, NoCall).chk = n
    BY WsRpcAssumption DEF Msg, Msgs
  <2>4. \/ n # 0 /\ n \in DOMAIN sndmap /\ RecvTo("send", sndmap[n], Msg("req", n, NoCall))
        \/ RecvTo("request", NoCall, NoMsg)
    BY <2>1, <2>3, DispatchEffect
  <2> QED
    BY <2>2, <2>4 DEF RecvTo, Quiet, PeerMatches
<1>5. CASE Handle
  <2>1. UNCHANGED <<sndid, sndmap, replies>>
    BY <1>5 DEF Handle
  <2>2. CASE recv' = Reading /\ UNCHANGED call
    BY <1>1, <2>1, <2>2 DEF Quiet
  <2>3. CASE \E k \in Calls :
               /\ Begin(k, ~coSche)
               /\ recv' = IF coSche THEN Reading ELSE [Reading EXCEPT !.pc = "handle", !.k = k]
    <3>1. PICK k \in Calls :
               /\ Begin(k, ~coSche)
               /\ recv' = IF coSche THEN Reading ELSE [Reading EXCEPT !.pc = "handle", !.k = k]
      BY <2>3
    <3>2. Quiet
      BY <1>1, <3>1 DEF Quiet
    <3>3. (~coSche) \in BOOLEAN
      OBVIOUS
    <3> QED
      BY <2>1, <3>1, <3>2, <3>3
  <2> QED
    BY <1>5, <2>2, <2>3 DEF Handle
<1>6. CASE HandOverPanics \/ HandlerBack \/ ConnFails \/ Redial
  <2>1. UNCHANGED <<call, sndid, sndmap, replies>> /\ recv' \in {Reading, Down}
    BY <1>6 DEF HandOverPanics, HandlerBack, ConnFails, Redial
  <2> QED
    BY <1>1, <2>1 DEF Quiet
<1> QED
  BY <1>2, <1>3, <1>4, <1>5, <1>6 DEF Next, RecvStep

(* A peer that numbers none does not send such a request.                  *)
LEMMA NoPeerMatches == BrowserPeer => ~PeerMatches
  BY DEF BrowserPeer, PeerMatches

(* A reply read goes to the call it answers, if that is still registered.  *)
LEMMA ReplyRead ==
    ASSUME TypeOK, CallsOK, MapOK, NEW k \in Calls, RecvReply(k)
    PROVE  /\ UNCHANGED <<call, sndid, sndmap>> /\ recv.pc = "read"
           /\ replies' \in [Calls -> Nat] /\ replies'[k] = replies[k] + 1
           /\ \A j \in Calls \ {k} : replies'[j] = replies[j]
           /\ call[k].id # 0 /\ (call[k].pc = "wait" \/ call[k].out \in {"reply", "timeout"})
           /\ \/ RecvTo("send", k, Reply(k)) \/ RecvTo("request", NoCall, NoMsg)
<1>1. call[k].id \in Nat /\ Reply(k) \in Msgs /\ Reply(k).chk = call[k].id
  BY Fields DEF TypeOK, Reply, Msg, Msgs
<1>2. Dispatch(Reply(k)) /\ call[k].id # 0
  BY DEF RecvReply, Reply
<1>3. call[k].id \in DOMAIN sndmap => sndmap[call[k].id] = k
  BY <1>2 DEF MapOK, CallsOK, TypeOK
<1>4. RecvTo("send", k, Reply(k)) \/ RecvTo("request", NoCall, NoMsg)
  BY <1>1, <1>2, <1>3, DispatchEffect
<1> QED
  BY <1>2, <1>4 DEF RecvReply, TypeOK

(* Every step keeps the types.                                             *)
LEMMA TypeStep ==
    ASSUME AnyInv, [Next]_vars
    PROVE  TypeOK'
<1>0. TypeOK /\ CallsOK /\ MapOK /\ CarriesOwn
  BY DEF AnyInv
<1>1. up' \in BOOLEAN /\ coSche' \in BOOLEAN
  BY <1>0 DEF TypeOK, Next, vars, AppCall, CallStep, Register, SendRpc, TakeReply, Timeout,
     DeleteReplyChan, CloseReplyChan, RecvReply, RecvPeerRequest, RecvStep, HandOver,
     HandOverPanics, Handle, HandlerBack, ConnFails, Redial
<1>2. CASE UNCHANGED <<call, sndid, sndmap, replies>> /\ Quiet
  BY <1>0, <1>1, <1>2 DEF TypeOK, Quiet
<1>3. ASSUME NEW k \in Calls, NEW inLoop \in BOOLEAN, Begin(k, inLoop),
             UNCHANGED <<sndid, sndmap, replies>> /\ Quiet
      PROVE  TypeOK'
  BY <1>0, <1>1, <1>3, CallEffects DEF TypeOK, Quiet, Sets
<1>4. ASSUME NEW k \in Calls, CallStep(k) PROVE TypeOK'
  <2>1. UNCHANGED <<recv, replies>>
    BY <1>4 DEF CallStep, Register, SendRpc, TakeReply, Timeout, DeleteReplyChan, CloseReplyChan
  <2>2. call' \in [Calls -> CallType]
    BY <1>0, <1>4, CallEffects DEF CallStep, Sets
  <2>3. sndid' \in Nat /\ sndmap' \in [DOMAIN sndmap' -> Calls]
    <3>1. CASE Register(k)
      <4>1. MapStore(sndmap, sndid + 1, k) \in [DOMAIN MapStore(sndmap, sndid + 1, k) -> Calls]
        BY <1>0 DEF TypeOK, MapStore
      <4> QED
        BY <1>0, <3>1, <4>1 DEF TypeOK, Register
    <3>2. CASE DeleteReplyChan(k)
      BY <1>0, <3>2 DEF TypeOK, MapDelete, DeleteReplyChan
    <3>3. CASE SendRpc(k) \/ TakeReply(k) \/ Timeout(k) \/ CloseReplyChan(k)
      BY <1>0, <3>3 DEF TypeOK, SendRpc, TakeReply, Timeout, CloseReplyChan
    <3> QED
      BY <1>4, <3>1, <3>2, <3>3 DEF CallStep
  <2> QED
    BY <1>0, <1>1, <2>1, <2>2, <2>3 DEF TypeOK
<1>5. ASSUME NEW k \in Calls, RecvReply(k) PROVE TypeOK'
  BY <1>0, <1>1, <1>5, ReplyRead DEF TypeOK, RecvTo
<1>6. CASE HandOver
  <2>1. recv.k \in Calls
    BY <1>0, <1>6 DEF CarriesOwn, HandOver
  <2>2. Reading \in RecvType
    BY DEF Reading, RecvType, NoMsg, Msg, Msgs
  <2>3. call' \in [Calls -> CallType]
    BY <1>0, <1>6, <2>1, HandOverEffect DEF Sets
  <2> QED
    BY <1>0, <1>1, <1>6, <2>2, <2>3 DEF TypeOK, HandOver
<1>7. CASE PeerMatches
  BY <1>0, <1>1, <1>7 DEF TypeOK, PeerMatches, RecvTo
<1> QED
  BY <1>0, <1>2, <1>3, <1>4, <1>5, <1>6, <1>7, Steps
-----------------------------------------------------------------------------
(* A write to one call keeps CallsOK when the new fields do and its number *)
(* is the old one, none, or the next one.                                  *)
LEMMA CallSet ==
    ASSUME TypeOK, CallsOK, NEW k \in Calls,
           NEW pc, NEW id, NEW out, NEW buf, NEW open, NEW got,
           Sets(k, pc, id, out, buf, open, got),
           sndid' \in Nat, sndid <= sndid',
           \/ id \in {0, call[k].id}
           \/ id = sndid + 1 /\ sndid' = sndid + 1,
           open <=> pc \in {"send", "wait", "delete", "close"},
           id # 0 <=> \/ pc \in {"send", "wait", "delete", "close"}
                      \/ out \in {"notSent", "reply", "timeout"},
           out = "none" <=> pc \in {"idle", "begin", "send", "wait"},
           out = "notReady" => pc = "done"
    PROVE  CallsOK'
<1>0. sndid \in Nat /\ \A j \in Calls : call[j].id \in Nat /\ call[j].id <= sndid
  BY Fields DEF TypeOK, CallsOK, CallOK
<1>1. CallOK(k)'
  <2>1. id <= sndid'
    BY <1>0
  <2> QED
    BY <2>1 DEF Sets, CallOK, Active
<1>2. \A j \in Calls \ {k} : CallOK(j)'
  BY <1>0 DEF Sets, CallsOK, CallOK, Active
<1>3. \A i, j \in Calls : call'[i].id # 0 /\ call'[i].id = call'[j].id => i = j
  <2>1. \A j \in Calls \ {k} : call'[j].id = call[j].id /\ call'[j].id <= sndid
    BY <1>0 DEF Sets
  <2>2. call'[k].id = id
    BY DEF Sets
  <2>3. \A j \in Calls \ {k} : id # 0 => call'[j].id # id
    BY <1>0, <2>1 DEF CallsOK
  <2>4. \A i, j \in Calls \ {k} : call'[i].id # 0 /\ call'[i].id = call'[j].id => i = j
    BY <2>1 DEF CallsOK
  <2> QED
    BY <2>2, <2>3, <2>4
<1> QED
  BY <1>1, <1>2, <1>3 DEF CallsOK

(* Every number given is a new one.                                        *)
LEMMA CallsStep ==
    ASSUME AnyInv, [Next]_vars
    PROVE  CallsOK'
<1>0. TypeOK /\ CallsOK /\ MapOK /\ CarriesOwn /\ sndid \in Nat
  BY DEF AnyInv, TypeOK
<1>1. CASE UNCHANGED <<call, sndid>>
  BY <1>0, <1>1 DEF CallsOK, CallOK, Active
<1>2. ASSUME NEW k \in Calls, NEW inLoop \in BOOLEAN, Begin(k, inLoop), sndid' = sndid
      PROVE  CallsOK'
  <2>1. PICK no : no = FALSE
    OBVIOUS
  <2>2. Sets(k, "begin", 0, "none", << >>, no, NoMsg)
    BY <1>0, <1>2, <2>1, CallEffects
  <2> QED
    BY <1>0, <1>2, <2>1, <2>2, CallSet
<1>3. ASSUME NEW k \in Calls, CallStep(k) PROVE CallsOK'
  <2> DEFINE c == call[k]
  <2>0. /\ c.open <=> Active(k)
        /\ c.id # 0 <=> Active(k) \/ c.out \in {"notSent", "reply", "timeout"}
        /\ c.out = "none" <=> c.pc \in {"idle", "begin", "send", "wait"}
        /\ c.out = "notReady" => c.pc = "done"
    BY <1>0 DEF CallsOK, CallOK
  <2>1. CASE Register(k)
    <3>0. c.pc = "begin"
      BY <2>1 DEF Register
    <3>1. CASE Sets(k, "done", c.id, "notReady", c.buf, c.open, c.got) /\ sndid' = sndid
      BY <1>0, <2>0, <3>0, <3>1, CallSet DEF Active
    <3>2. CASE Sets(k, "send", sndid + 1, c.out, c.buf, TRUE, c.got) /\ sndid' = sndid + 1
      <4>1. PICK yes : yes = TRUE
        OBVIOUS
      <4>2. Sets(k, "send", sndid + 1, c.out, c.buf, yes, c.got)
        BY <3>2, <4>1
      <4>3. /\ sndid' \in Nat /\ sndid <= sndid' /\ sndid + 1 # 0
            /\ c.out = "none"
        BY <1>0, <2>0, <3>0, <3>2
      <4> HIDE DEF c
      <4> QED
        BY <1>0, <3>2, <4>1, <4>2, <4>3, CallSet
    <3> QED
      BY <1>0, <2>1, <3>1, <3>2, CallEffects
  <2>2. CASE SendRpc(k)
    <3>0. c.pc = "send" /\ sndid' = sndid
      BY <2>2 DEF SendRpc
    <3>1. CASE Sets(k, "wait", c.id, c.out, c.buf, c.open, c.got)
      BY <1>0, <2>0, <3>0, <3>1, CallSet DEF Active
    <3>2. CASE Sets(k, "delete", c.id, "notSent", c.buf, c.open, NoMsg)
      BY <1>0, <2>0, <3>0, <3>2, CallSet DEF Active
    <3> QED
      BY <1>0, <2>2, <3>1, <3>2, CallEffects
  <2>3. CASE TakeReply(k)
    <3>0. c.pc = "wait" /\ sndid' = sndid
      BY <2>3 DEF TakeReply
    <3>1. Sets(k, "delete", c.id, "reply", << >>, c.open, Head(c.buf))
      BY <1>0, <2>3, CallEffects
    <3> QED
      BY <1>0, <2>0, <3>0, <3>1, CallSet DEF Active
  <2>4. CASE Timeout(k)
    <3>0. c.pc = "wait" /\ sndid' = sndid
      BY <2>4 DEF Timeout
    <3>1. Sets(k, "delete", c.id, "timeout", c.buf, c.open, NoMsg)
      BY <1>0, <2>4, CallEffects
    <3> QED
      BY <1>0, <2>0, <3>0, <3>1, CallSet DEF Active
  <2>5. CASE DeleteReplyChan(k)
    <3>0. c.pc = "delete" /\ sndid' = sndid
      BY <2>5 DEF DeleteReplyChan
    <3>1. Sets(k, "close", c.id, c.out, c.buf, c.open, c.got)
      BY <1>0, <2>5, CallEffects
    <3> QED
      BY <1>0, <2>0, <3>0, <3>1, CallSet DEF Active
  <2>6. CASE CloseReplyChan(k)
    <3>0. c.pc = "close" /\ sndid' = sndid
      BY <2>6 DEF CloseReplyChan
    <3>a. PICK no : no = FALSE
      OBVIOUS
    <3>1. Sets(k, "done", c.id, c.out, c.buf, no, c.got)
      BY <1>0, <2>6, <3>a, CallEffects
    <3>2. c.out \in {"notSent", "reply", "timeout"}
      BY <1>0, <2>0, <3>0, Fields DEF TypeOK, Outcomes
    <3> QED
      BY <1>0, <2>0, <3>0, <3>a, <3>1, <3>2, CallSet DEF Active
  <2> QED
    BY <1>3, <2>1, <2>2, <2>3, <2>4, <2>5, <2>6 DEF CallStep
<1>4. ASSUME NEW k \in Calls, RecvReply(k) PROVE CallsOK'
  BY <1>1, <1>4 DEF RecvReply
<1>5. CASE HandOver
  <2> DEFINE c == call[recv.k]
  <2>1. recv.k \in Calls /\ sndid' = sndid
    BY <1>0, <1>5 DEF CarriesOwn, HandOver
  <2>2. Sets(recv.k, c.pc, c.id, c.out, <<recv.m>>, c.open, c.got)
    BY <1>0, <1>5, <2>1, HandOverEffect
  <2>3. CallOK(recv.k)
    BY <1>0, <2>1 DEF CallsOK
  <2> QED
    BY <1>0, <2>1, <2>2, <2>3, CallSet DEF CallOK, Active
<1>6. CASE PeerMatches
  BY <1>1, <1>6 DEF PeerMatches
<1> QED
  BY <1>0, <1>1, <1>2, <1>3, <1>4, <1>5, <1>6, Steps
-----------------------------------------------------------------------------
(* The steps of a call, with the program counter they start from.          *)
LEMMA Moves ==
    ASSUME TypeOK, NEW k \in Calls, CallStep(k)
    PROVE  LET c == call[k] IN
           /\ UNCHANGED <<recv, replies>>
           /\ \/ /\ c.pc = "begin" /\ Sets(k, "done", c.id, "notReady", c.buf, c.open, c.got)
                 /\ UNCHANGED sndmap
              \/ /\ c.pc = "begin" /\ Sets(k, "send", sndid + 1, c.out, c.buf, TRUE, c.got)
                 /\ sndmap' = MapStore(sndmap, sndid + 1, k)
              \/ /\ c.pc = "send" /\ Sets(k, "wait", c.id, c.out, c.buf, c.open, c.got)
                 /\ UNCHANGED sndmap
              \/ /\ c.pc = "send" /\ Sets(k, "delete", c.id, "notSent", c.buf, c.open, NoMsg)
                 /\ UNCHANGED sndmap
              \/ /\ c.pc = "wait" /\ c.buf # << >>
                 /\ Sets(k, "delete", c.id, "reply", << >>, c.open, Head(c.buf))
                 /\ UNCHANGED sndmap
              \/ /\ c.pc = "wait" /\ Sets(k, "delete", c.id, "timeout", c.buf, c.open, NoMsg)
                 /\ UNCHANGED sndmap
              \/ /\ c.pc = "delete" /\ Sets(k, "close", c.id, c.out, c.buf, c.open, c.got)
                 /\ sndmap' = MapDelete(sndmap, c.id)
              \/ /\ c.pc = "close" /\ Sets(k, "done", c.id, c.out, c.buf, FALSE, c.got)
                 /\ UNCHANGED sndmap
<1> DEFINE c == call[k]
<1>1. CASE Register(k)
  <2>1. c.pc = "begin" /\ UNCHANGED <<recv, replies>>
    BY <1>1 DEF Register
  <2> QED
    BY <1>1, <2>1, CallEffects
<1>2. CASE SendRpc(k)
  <2>1. c.pc = "send" /\ UNCHANGED <<recv, replies, sndmap>>
    BY <1>2 DEF SendRpc
  <2> QED
    BY <1>2, <2>1, CallEffects
<1>3. CASE TakeReply(k)
  <2>1. c.pc = "wait" /\ c.buf # << >> /\ UNCHANGED <<recv, replies, sndmap>>
    BY <1>3 DEF TakeReply
  <2> QED
    BY <1>3, <2>1, CallEffects
<1>4. CASE Timeout(k)
  <2>1. c.pc = "wait" /\ UNCHANGED <<recv, replies, sndmap>>
    BY <1>4 DEF Timeout
  <2> QED
    BY <1>4, <2>1, CallEffects
<1>5. CASE DeleteReplyChan(k)
  <2>1. c.pc = "delete" /\ UNCHANGED <<recv, replies>> /\ sndmap' = MapDelete(sndmap, c.id)
    BY <1>5 DEF DeleteReplyChan
  <2> QED
    BY <1>5, <2>1, CallEffects
<1>6. CASE CloseReplyChan(k)
  <2>1. c.pc = "close" /\ UNCHANGED <<recv, replies, sndmap>>
    BY <1>6 DEF CloseReplyChan
  <2> QED
    BY <1>6, <2>1, CallEffects
<1> QED
  BY <1>1, <1>2, <1>3, <1>4, <1>5, <1>6 DEF CallStep

(* Writing a call that is not registered, or that stays so under its       *)
(* number, leaves the map right.                                           *)
LEMMA MapSet ==
    ASSUME MapOK, NEW k \in Calls,
           NEW pc, NEW id, NEW out, NEW buf, NEW open, NEW got,
           Sets(k, pc, id, out, buf, open, got), UNCHANGED sndmap,
           sndmap \in [DOMAIN sndmap -> Calls],
           call[k].pc \in {"send", "wait", "delete"} =>
              pc \in {"send", "wait", "delete"} /\ id = call[k].id
    PROVE  MapOK'
  BY DEF Sets, MapOK

(* An entry of the map is the entry of the call that has its number, from  *)
(* Register to the deferred Delete.                                        *)
LEMMA MapStep ==
    ASSUME AnyInv, [Next]_vars
    PROVE  MapOK'
<1>0. TypeOK /\ MapOK /\ CarriesOwn /\ sndid \in Nat /\ sndmap \in [DOMAIN sndmap -> Calls]
  BY DEF AnyInv, TypeOK
<1>1. CASE UNCHANGED <<call, sndmap>>
  BY <1>0, <1>1 DEF MapOK
<1>2. ASSUME NEW k \in Calls, NEW inLoop \in BOOLEAN, Begin(k, inLoop), sndmap' = sndmap
      PROVE  MapOK'
  <2>1. Sets(k, "begin", 0, "none", << >>, FALSE, NoMsg) /\ call[k] = CallIdle
    BY <1>0, <1>2, CallEffects
  <2>2. call[k].pc = "idle"
    BY <2>1 DEF CallIdle
  <2> QED
    BY <1>0, <1>2, <2>1, <2>2, MapSet
<1>3. ASSUME NEW k \in Calls, CallStep(k) PROVE MapOK'
  <2> DEFINE c == call[k]
  <2>1. CASE /\ c.pc = "begin" /\ Sets(k, "send", sndid + 1, c.out, c.buf, TRUE, c.got)
             /\ sndmap' = MapStore(sndmap, sndid + 1, k)
    <3>1. /\ DOMAIN sndmap' = DOMAIN sndmap \cup {sndid + 1}
          /\ sndmap'[sndid + 1] = k
          /\ \A n \in DOMAIN sndmap \ {sndid + 1} : sndmap'[n] = sndmap[n]
      BY <2>1 DEF MapStore
    <3>2. \A n \in DOMAIN sndmap : sndmap[n] \in Calls \ {k}
      BY <1>0, <2>1 DEF MapOK
    <3> QED
      BY <1>0, <2>1, <3>1, <3>2 DEF MapOK, Sets
  <2>2. CASE /\ c.pc = "delete" /\ Sets(k, "close", c.id, c.out, c.buf, c.open, c.got)
             /\ sndmap' = MapDelete(sndmap, c.id)
    <3>1. /\ DOMAIN sndmap' = DOMAIN sndmap \ {c.id}
          /\ \A n \in DOMAIN sndmap \ {c.id} : sndmap'[n] = sndmap[n]
      BY <2>2 DEF MapDelete
    <3>2. \A n \in DOMAIN sndmap \ {c.id} : sndmap[n] \in Calls \ {k}
      BY <1>0, <2>2 DEF MapOK
    <3> QED
      BY <1>0, <2>2, <3>1, <3>2 DEF MapOK, Sets
  <2>3. CASE /\ UNCHANGED sndmap
             /\ \E pc, out, buf, open, got :
                  /\ Sets(k, pc, c.id, out, buf, open, got)
                  /\ c.pc \in {"send", "wait", "delete"} => pc \in {"send", "wait", "delete"}
    BY <1>0, <2>3, MapSet
  <2> QED
    BY <1>0, <1>3, <2>1, <2>2, <2>3, Moves
<1>4. ASSUME NEW k \in Calls, RecvReply(k) PROVE MapOK'
  BY <1>1, <1>4 DEF RecvReply
<1>5. CASE HandOver
  <2> DEFINE c == call[recv.k]
  <2>1. recv.k \in Calls /\ sndmap' = sndmap
    BY <1>0, <1>5 DEF CarriesOwn, HandOver
  <2>2. Sets(recv.k, c.pc, c.id, c.out, <<recv.m>>, c.open, c.got)
    BY <1>0, <1>5, <2>1, HandOverEffect
  <2> QED
    BY <1>0, <2>1, <2>2, MapSet
<1>6. CASE PeerMatches
  BY <1>1, <1>6 DEF PeerMatches
<1> QED
  BY <1>0, <1>1, <1>2, <1>3, <1>4, <1>5, <1>6, Steps
-----------------------------------------------------------------------------
(* A step of a call carries over what it holds, and what is held for it.   *)
LEMMA CarriedByCall ==
    ASSUME AnyInv, NEW k \in Calls, CallStep(k)
    PROVE  /\ \A j \in Calls : Carried(j)'
           /\ \A j \in Calls : call[j].id # 0 => call'[j].id = call[j].id
           /\ recv' = recv
<1> DEFINE c == call[k]
<1>0. TypeOK /\ CallOK(k) /\ c \in CallType /\ Carried(k)
  BY DEF AnyInv, CallsOK, TypeOK, CarriesOwn
<1>1. \A j \in Calls \ {k} : call'[j] = call[j]
  BY <1>0, Moves DEF Sets
<1>2. \A j \in Calls \ {k} : Carried(j)'
  BY <1>1 DEF AnyInv, CarriesOwn, Carried, Handed, Reply
<1>3. /\ c.id # 0 => call'[k].id = c.id
      /\ \/ /\ call'[k].buf = c.buf
            /\ call'[k].out = "reply" => c.out = "reply" /\ call'[k].got = c.got
         \/ /\ call'[k].buf = << >> /\ call'[k].out = "reply" /\ c.buf # << >>
            /\ call'[k].got = Head(c.buf)
  BY <1>0, Moves DEF Sets, CallOK, Active
<1>4. Carried(k)'
  BY <1>0, <1>3 DEF Carried, Handed, Reply
<1>5. recv' = recv
  BY <1>0, Moves
<1> QED
  BY <1>1, <1>2, <1>3, <1>4, <1>5

(* A message goes to the call whose number it carries.                     *)
LEMMA CarriesStep ==
    ASSUME AnyInv, [Next]_vars
    PROVE  CarriesOwn'
<1> DEFINE Held == recv'.pc = "send" =>
              /\ recv'.k \in Calls /\ call'[recv'.k].id # 0
              /\ \/ recv'.m = Msg("rsp", call'[recv'.k].id, recv'.k)
                 \/ /\ call'[recv'.k].id \in PeerNumbers
                    /\ recv'.m = Msg("req", call'[recv'.k].id, NoCall)
<1>0. TypeOK /\ CallsOK /\ MapOK /\ CarriesOwn
  BY DEF AnyInv
<1>1. \A j \in Calls : Carried(j)
  BY <1>0 DEF CarriesOwn
<1>2. recv.pc = "send" => /\ recv.k \in Calls /\ call[recv.k].id # 0
                          /\ Handed(recv.m, recv.k)
  BY <1>0 DEF CarriesOwn
<1>3. SUFFICES (\A j \in Calls : Carried(j)') /\ Held
  BY DEF CarriesOwn, Handed, Reply
<1>4. ASSUME UNCHANGED call PROVE \A j \in Calls : Carried(j)'
  BY <1>1, <1>4 DEF Carried, Handed, Reply
<1>5. ASSUME Quiet \/ recv' = recv, \A j \in Calls : call[j].id # 0 => call'[j].id = call[j].id
      PROVE  Held
  BY <1>2, <1>5 DEF Quiet, Handed, Reply
<1>6. ASSUME NEW k \in Calls, NEW inLoop \in BOOLEAN, Begin(k, inLoop), Quiet
      PROVE  (\A j \in Calls : Carried(j)') /\ Held
  <2>1. Sets(k, "begin", 0, "none", << >>, FALSE, NoMsg) /\ call[k] = CallIdle
    BY <1>0, <1>6, CallEffects
  <2>2. call[k].id = 0
    BY <2>1 DEF CallIdle
  <2>3. \A j \in Calls : Carried(j)'
    BY <1>1, <2>1 DEF Sets, Carried, Handed, Reply
  <2>4. \A j \in Calls : call[j].id # 0 => call'[j].id = call[j].id
    BY <2>1, <2>2 DEF Sets
  <2> QED
    BY <1>5, <1>6, <2>3, <2>4
<1>7. ASSUME NEW k \in Calls, CallStep(k) PROVE (\A j \in Calls : Carried(j)') /\ Held
  BY <1>5, <1>7, CarriedByCall
<1>8. ASSUME NEW k \in Calls, RecvReply(k) PROVE (\A j \in Calls : Carried(j)') /\ Held
  <2>1. /\ UNCHANGED call /\ call[k].id # 0
        /\ RecvTo("send", k, Reply(k)) \/ RecvTo("request", NoCall, NoMsg)
    BY <1>0, <1>8, ReplyRead
  <2> QED
    BY <1>4, <2>1 DEF Reply, RecvTo
<1>9. ASSUME PeerMatches PROVE (\A j \in Calls : Carried(j)') /\ Held
  <2>1. UNCHANGED call
    BY <1>9 DEF PeerMatches
  <2>2. PICK n \in PeerNumbers \cap DOMAIN sndmap :
           RecvTo("send", sndmap[n], Msg("req", n, NoCall))
    BY <1>9 DEF PeerMatches
  <2>3. sndmap[n] \in Calls /\ call[sndmap[n]].id = n /\ n # 0
    BY <1>0 DEF TypeOK, MapOK
  <2>4. recv'.k = sndmap[n] /\ recv'.m = Msg("req", n, NoCall)
    BY <2>2 DEF RecvTo
  <2> QED
    BY <1>4, <2>1, <2>3, <2>4
<1>10. ASSUME HandOver PROVE (\A j \in Calls : Carried(j)') /\ Held
  <2> DEFINE c == call[recv.k]
  <2>1. recv.k \in Calls /\ c.id # 0 /\ Handed(recv.m, recv.k) /\ recv' = Reading
    BY <1>2, <1>10 DEF HandOver
  <2>2. Sets(recv.k, c.pc, c.id, c.out, <<recv.m>>, c.open, c.got)
    BY <1>0, <1>10, <2>1, HandOverEffect
  <2>3. recv'.pc # "send"
    BY <2>1 DEF Reading
  <2>4. \A j \in Calls \ {recv.k} : Carried(j)'
    BY <1>1, <2>2 DEF Sets, Carried, Handed, Reply
  <2>5. Head(<<recv.m>>) = recv.m
    OBVIOUS
  <2>6. Carried(recv.k)
    BY <1>1, <2>1
  <2>7. \A j \in {recv.k} : Carried(j)'
    BY <2>1, <2>2, <2>5, <2>6 DEF Sets, Carried, Handed, Reply
  <2> QED
    BY <2>1, <2>3, <2>4, <2>7
<1> QED
  BY <1>0, <1>4, <1>5, <1>6, <1>7, <1>8, <1>9, <1>10, Steps
-----------------------------------------------------------------------------
(* A step of a call does not spoil what the call or the others were given, *)
(* nor what the loop holds for one of them.                                *)
LEMMA GivenByCall ==
    ASSUME IInv, NEW k \in Calls, CallStep(k)
    PROVE  /\ \A j \in Calls : Given(j)'
           /\ \A j \in Calls : Answerable(j) => Answerable(j)' /\ Reply(j)' = Reply(j)
<1> DEFINE c == call[k]
<1>0. TypeOK /\ CallsOK /\ CallOK(k) /\ RepliesOwn /\ c \in CallType
  BY DEF IInv, AnyInv, CallsOK, TypeOK
<1>1. \A j \in Calls : Given(j)
  BY <1>0 DEF RepliesOwn
<1>2. \A j \in Calls \ {k} : call'[j] = call[j]
  BY <1>0, Moves DEF Sets
<1>3. \A j \in Calls \ {k} : Given(j)' /\ Reply(j)' = Reply(j) /\ (Answerable(j) => Answerable(j)')
  BY <1>1, <1>2 DEF Given, Reply, Answerable
<1>4. CASE c.pc = "begin" /\ Sets(k, "send", sndid + 1, c.out, c.buf, TRUE, c.got)
  <2>1. c.id = 0 /\ c.out = "none"
    BY <1>0, <1>4 DEF CallOK, Active
  <2>2. c.buf = << >> /\ ~Answerable(k)
    BY <1>1, <2>1 DEF Given, Answerable
  <2>3. Given(k)'
    BY <1>4, <2>1, <2>2 DEF Given, Sets
  <2> QED
    BY <1>3, <2>2, <2>3
<1>5. CASE c.pc = "wait" /\ c.buf # << >> /\ Sets(k, "delete", c.id, "reply", << >>, c.open, Head(c.buf))
  <2>1. c.buf = <<Reply(k)>> /\ c.id # 0
    BY <1>0, <1>1, <1>5 DEF Given, CallOK, Active
  <2>2. Head(c.buf) = Reply(k) /\ Reply(k)' = Reply(k)
    BY <1>5, <2>1 DEF Reply, Sets
  <2>3. Given(k)' /\ Answerable(k)'
    BY <1>5, <2>1, <2>2 DEF Given, Answerable, Sets
  <2> QED
    BY <1>3, <2>2, <2>3
<1>6. CASE \E pc, out, open, got :
             /\ Sets(k, pc, c.id, out, c.buf, open, got)
             /\ \/ out = c.out /\ got = c.got /\ c.pc # "wait"
                \/ out = c.out /\ got = c.got /\ pc = "wait"
                \/ out \in {"notReady", "notSent"} /\ c.pc \in {"begin", "send"}
                \/ out = "timeout"
  <2>1. PICK pc, out, open, got :
             /\ Sets(k, pc, c.id, out, c.buf, open, got)
             /\ \/ out = c.out /\ got = c.got /\ c.pc # "wait"
                \/ out = c.out /\ got = c.got /\ pc = "wait"
                \/ out \in {"notReady", "notSent"} /\ c.pc \in {"begin", "send"}
                \/ out = "timeout"
    BY <1>6
  <2>2. /\ call'[k].pc = pc /\ call'[k].id = c.id /\ call'[k].buf = c.buf
        /\ call'[k].out = out /\ call'[k].got = got
    BY <2>1 DEF Sets
  <2>3. Reply(k)' = Reply(k)
    BY <2>2 DEF Reply
  <2>4. Given(k)'
    BY <1>1, <2>1, <2>2, <2>3 DEF Given
  <2>5. Answerable(k) => Answerable(k)'
    BY <1>0, <2>1, <2>2 DEF Answerable, CallOK
  <2> QED
    BY <1>3, <2>3, <2>4, <2>5
<1>7. \/ c.pc = "begin" /\ Sets(k, "done", c.id, "notReady", c.buf, c.open, c.got)
      \/ c.pc = "begin" /\ Sets(k, "send", sndid + 1, c.out, c.buf, TRUE, c.got)
      \/ c.pc = "send" /\ Sets(k, "wait", c.id, c.out, c.buf, c.open, c.got)
      \/ c.pc = "send" /\ Sets(k, "delete", c.id, "notSent", c.buf, c.open, NoMsg)
      \/ c.pc = "wait" /\ c.buf # << >> /\ Sets(k, "delete", c.id, "reply", << >>, c.open, Head(c.buf))
      \/ c.pc = "wait" /\ Sets(k, "delete", c.id, "timeout", c.buf, c.open, NoMsg)
      \/ c.pc = "delete" /\ Sets(k, "close", c.id, c.out, c.buf, c.open, c.got)
      \/ c.pc = "close" /\ Sets(k, "done", c.id, c.out, c.buf, FALSE, c.got)
  BY <1>0, Moves
<1> HIDE DEF c
<1> QED
  BY <1>4, <1>5, <1>6, <1>7

(* Replies go to the request they answer.                                  *)
LEMMA RepliesOwnStep ==
    ASSUME IInv, BrowserPeer, [Next]_vars
    PROVE  RepliesOwn'
<1>0. TypeOK /\ CallsOK /\ MapOK /\ RepliesOwn
  BY DEF IInv, AnyInv
<1>1. \A j \in Calls : Given(j)
  BY <1>0 DEF RepliesOwn
<1>2. recv.pc = "send" => recv.k \in Calls /\ recv.m = Reply(recv.k) /\ Answerable(recv.k)
  BY <1>0 DEF RepliesOwn
<1>3. SUFFICES
      /\ \A j \in Calls : Given(j)'
      /\ recv'.pc = "send" =>
           /\ recv'.k \in Calls
           /\ recv'.m = Msg("rsp", call'[recv'.k].id, recv'.k)
           /\ call'[recv'.k].id # 0
           /\ call'[recv'.k].pc = "wait" \/ call'[recv'.k].out \in {"reply", "timeout"}
  BY DEF RepliesOwn, Given, Reply, Answerable
<1>4. CASE UNCHANGED call /\ Quiet
  BY <1>1, <1>2, <1>4 DEF Given, Quiet, Reply, Answerable
<1>5. ASSUME NEW k \in Calls, NEW inLoop \in BOOLEAN, Begin(k, inLoop), Quiet
      PROVE  /\ \A j \in Calls : Given(j)'
             /\ recv'.pc = "send" =>
                  /\ recv'.k \in Calls
                  /\ recv'.m = Msg("rsp", call'[recv'.k].id, recv'.k)
                  /\ call'[recv'.k].id # 0
                  /\ call'[recv'.k].pc = "wait" \/ call'[recv'.k].out \in {"reply", "timeout"}
  <2>1. Sets(k, "begin", 0, "none", << >>, FALSE, NoMsg) /\ call[k] = CallIdle
    BY <1>0, <1>5, CallEffects
  <2>2. ~Answerable(k)
    BY <2>1 DEF CallIdle, Answerable
  <2>3. \A j \in Calls : Given(j)'
    BY <1>1, <2>1 DEF Sets, Given, Reply
  <2> QED
    BY <1>2, <1>5, <2>1, <2>2, <2>3 DEF Sets, Quiet, Answerable, Reply
<1>6. ASSUME NEW k \in Calls, CallStep(k)
      PROVE  /\ \A j \in Calls : Given(j)'
             /\ recv'.pc = "send" =>
                  /\ recv'.k \in Calls
                  /\ recv'.m = Msg("rsp", call'[recv'.k].id, recv'.k)
                  /\ call'[recv'.k].id # 0
                  /\ call'[recv'.k].pc = "wait" \/ call'[recv'.k].out \in {"reply", "timeout"}
  <2>1. recv' = recv
    BY <1>0, <1>6, Moves
  <2>2. /\ \A j \in Calls : Given(j)'
        /\ \A j \in Calls : Answerable(j) => Answerable(j)' /\ Reply(j)' = Reply(j)
    BY <1>6, GivenByCall
  <2>3. \A j \in Calls : Answerable(j) => /\ call'[j].id # 0
                                          /\ call'[j].pc = "wait" \/ call'[j].out \in {"reply", "timeout"}
    BY <2>2 DEF Answerable
  <2>4. \A j \in Calls : Answerable(j) => Reply(j) = Msg("rsp", call'[j].id, j)
    BY <2>2 DEF Reply
  <2> QED
    BY <1>2, <2>1, <2>2, <2>3, <2>4
<1>7. ASSUME NEW k \in Calls, RecvReply(k)
      PROVE  /\ \A j \in Calls : Given(j)'
             /\ recv'.pc = "send" =>
                  /\ recv'.k \in Calls
                  /\ recv'.m = Msg("rsp", call'[recv'.k].id, recv'.k)
                  /\ call'[recv'.k].id # 0
                  /\ call'[recv'.k].pc = "wait" \/ call'[recv'.k].out \in {"reply", "timeout"}
  <2>1. /\ UNCHANGED call
        /\ call[k].id # 0 /\ (call[k].pc = "wait" \/ call[k].out \in {"reply", "timeout"})
        /\ \/ RecvTo("send", k, Reply(k)) \/ RecvTo("request", NoCall, NoMsg)
    BY <1>0, <1>7, ReplyRead
  <2> QED
    BY <1>1, <2>1 DEF Given, Reply, RecvTo
<1>8. ASSUME HandOver
      PROVE  /\ \A j \in Calls : Given(j)'
             /\ recv'.pc # "send"
  <2> DEFINE c == call[recv.k]
  <2>1. /\ recv.k \in Calls /\ recv.m = Reply(recv.k) /\ Answerable(recv.k)
        /\ recv' = Reading
    BY <1>2, <1>8 DEF HandOver
  <2>2. Sets(recv.k, c.pc, c.id, c.out, <<recv.m>>, c.open, c.got)
    BY <1>0, <1>8, <2>1, HandOverEffect
  <2>3. recv'.pc # "send"
    BY <2>1 DEF Reading
  <2>4. \A j \in Calls \ {recv.k} : Given(j)'
    BY <1>1, <2>2 DEF Sets, Given, Reply
  <2>5. \A j \in {recv.k} : Given(j)'
    BY <1>1, <2>1, <2>2 DEF Sets, Given, Reply, Answerable
  <2> QED
    BY <2>1, <2>3, <2>4, <2>5
<1> QED
  BY <1>0, <1>4, <1>5, <1>6, <1>7, <1>8, Steps, NoPeerMatches
-----------------------------------------------------------------------------
(* Every reply is counted once, wherever it has come to.                   *)
LEMMA CountsStep ==
    ASSUME IInv, BrowserPeer, [Next]_vars
    PROVE  CountsOK'
<1>0. TypeOK /\ CallsOK /\ MapOK /\ RepliesOwn /\ CountsOK
  BY DEF IInv, AnyInv
<1>1. \A j \in Calls : /\ Count(j) <= replies[j] /\ Count(j) \in Nat /\ replies[j] \in Nat
                       /\ replies[j] # 0 => call[j].id # 0
  BY <1>0 DEF CountsOK, Count, TypeOK
<1>2. ASSUME NEW k \in Calls, Quiet \/ recv' = recv, UNCHANGED replies,
             \A j \in Calls \ {k} : call'[j] = call[j],
             call[k].id # 0 => call'[k].id # 0,
             \/ call'[k].buf = call[k].buf /\ (call'[k].out = "reply" => call[k].out = "reply")
             \/ call'[k].buf = << >> /\ call'[k].out = "reply" /\ call[k].buf # << >>
             \/ call'[k].buf = << >> /\ call'[k].out # "reply"
      PROVE  CountsOK'
  <2>1. recv'.pc = "send" => recv' = recv
    BY <1>2 DEF Quiet
  <2>2. \A j \in Calls \ {k} : Count(j)' <= Count(j)
    BY <1>2, <2>1 DEF Count
  <2>3. Count(k)' <= Count(k)
    BY <1>2, <2>1 DEF Count
  <2>4. \A j \in Calls : Count(j)' \in Nat
    BY DEF Count
  <2>5. \A j \in Calls : Count(j)' <= replies'[j] /\ (replies'[j] # 0 => call'[j].id # 0)
    BY <1>1, <1>2, <2>2, <2>3, <2>4
  <2> QED
    BY <2>5 DEF CountsOK
<1>3. CASE UNCHANGED <<call, replies>> /\ Quiet
  <2>1. recv'.pc = "send" => recv' = recv
    BY <1>3 DEF Quiet
  <2>2. \A j \in Calls : Count(j)' <= Count(j) /\ Count(j)' \in Nat
    BY <1>3, <2>1 DEF Count
  <2> QED
    BY <1>1, <1>3, <2>2 DEF CountsOK
<1>4. ASSUME NEW k \in Calls, NEW inLoop \in BOOLEAN, Begin(k, inLoop), Quiet, UNCHANGED replies
      PROVE  CountsOK'
  <2>1. Sets(k, "begin", 0, "none", << >>, FALSE, NoMsg) /\ call[k] = CallIdle
    BY <1>0, <1>4, CallEffects
  <2>2. call[k].id = 0
    BY <2>1 DEF CallIdle
  <2> QED
    BY <1>2, <1>4, <2>1, <2>2 DEF Sets
<1>5. ASSUME NEW k \in Calls, CallStep(k) PROVE CountsOK'
  <2> DEFINE c == call[k]
  <2>1. UNCHANGED <<recv, replies>>
    BY <1>0, <1>5, Moves
  <2>2. sndid + 1 # 0
    BY <1>0 DEF TypeOK
  <2>4. /\ \A j \in Calls \ {k} : call'[j] = call[j]
        /\ c.id # 0 => call'[k].id # 0
        /\ \/ call'[k].buf = c.buf /\ (call'[k].out = "reply" => c.out = "reply")
           \/ call'[k].buf = << >> /\ call'[k].out = "reply" /\ c.buf # << >>
    BY <1>0, <1>5, <2>2, Moves DEF Sets
  <2> QED
    BY <1>2, <2>1, <2>4
<1>6. ASSUME NEW k \in Calls, RecvReply(k) PROVE CountsOK'
  <2>1. /\ UNCHANGED call /\ recv.pc = "read"
        /\ replies' \in [Calls -> Nat] /\ replies'[k] = replies[k] + 1
        /\ \A j \in Calls \ {k} : replies'[j] = replies[j]
        /\ call[k].id # 0
        /\ recv'.pc = "send" => recv'.k = k
    BY <1>0, <1>6, ReplyRead DEF RecvTo
  <2>2. Count(k)' <= Count(k) + 1 /\ Count(k)' \in Nat
    BY <2>1 DEF Count
  <2>3. \A j \in Calls \ {k} : Count(j)' = Count(j)
    BY <2>1 DEF Count
  <2>4. \A j \in Calls : Count(j)' <= replies'[j] /\ (replies'[j] # 0 => call'[j].id # 0)
    BY <1>1, <2>1, <2>2, <2>3
  <2> QED
    BY <2>4 DEF CountsOK
<1>7. CASE HandOver
  <2> DEFINE c == call[recv.k]
  <2>1. recv.k \in Calls /\ recv.pc = "send" /\ c.buf = << >> /\ recv' = Reading /\ replies' = replies
    BY <1>0, <1>7 DEF RepliesOwn, HandOver
  <2>2. Sets(recv.k, c.pc, c.id, c.out, <<recv.m>>, c.open, c.got)
    BY <1>0, <1>7, <2>1, HandOverEffect
  <2>3. recv'.pc # "send"
    BY <2>1 DEF Reading
  <2>4. /\ call'[recv.k].out = c.out /\ call'[recv.k].id = c.id
        /\ \A j \in Calls \ {recv.k} : call'[j] = call[j]
    BY <2>2 DEF Sets
  <2>5. \A j \in Calls : Count(j)' <= Count(j) /\ Count(j)' \in Nat
    BY <2>1, <2>3, <2>4 DEF Count
  <2>6. \A j \in Calls : call'[j].id = call[j].id
    BY <2>4
  <2>7. \A j \in Calls : Count(j)' <= replies'[j] /\ (replies'[j] # 0 => call'[j].id # 0)
    BY <1>1, <2>1, <2>5, <2>6
  <2> QED
    BY <2>7 DEF CountsOK
<1> QED
  BY <1>0, <1>3, <1>4, <1>5, <1>6, <1>7, Steps, NoPeerMatches
-----------------------------------------------------------------------------
(* Nothing has been called and nothing read.                               *)
LEMMA InvInit == ASSUME Init PROVE IInv
<1>1. /\ CallIdle \in CallType /\ NoMsg \in Msgs /\ CallIdle.pc = "idle" /\ CallIdle.id = 0
      /\ CallIdle.out = "none" /\ CallIdle.buf = << >> /\ CallIdle.open = FALSE
  BY DEF CallIdle, CallType, CallPC, Outcomes, NoMsg, Msg, Msgs
<1>2. \A k \in Calls : call[k] = CallIdle /\ replies[k] = 0
  BY DEF Init
<1>3. DOMAIN sndmap = {}
  BY DEF Init, NoEntries
<1>4. recv \in RecvType /\ recv.pc # "send"
  BY <1>1 DEF Init, Reading, Down, RecvType
<1>5. TypeOK
  BY <1>1, <1>3, <1>4 DEF Init, TypeOK, NoEntries
<1>6. CallsOK
  BY <1>1, <1>2 DEF CallsOK, CallOK, Active, Init
<1>7. MapOK
  BY <1>3 DEF MapOK
<1>8. RepliesOwn
  BY <1>1, <1>2, <1>4 DEF RepliesOwn, Given
<1>9. CountsOK
  BY <1>1, <1>2, <1>4 DEF CountsOK, Count
<1>10. CarriesOwn
  BY <1>1, <1>2, <1>4 DEF CarriesOwn, Carried
<1> QED
  BY <1>5, <1>6, <1>7, <1>8, <1>9, <1>10 DEF IInv, AnyInv

(* The invariant for any peer is inductive, ...                            *)
LEMMA AnyInductive == AnyInv /\ [Next]_vars => AnyInv'
  BY TypeStep, CallsStep, MapStep, CarriesStep DEF AnyInv

(* ... and so is the one for a peer that numbers none.                     *)
LEMMA Inductive == ASSUME IInv, BrowserPeer, [Next]_vars PROVE IInv'
  BY AnyInductive, RepliesOwnStep, CountsStep DEF IInv

(* WsRpc's invariant: numbers are not given twice, sndmap holds what waits *)
(* for a reply under the number it was given, and no call is handed the    *)
(* reply to another (websock.go:379-408).                                  *)
THEOREM Invariant == ASSUME BrowserPeer PROVE Spec => []IInv
  BY InvInit, Inductive, PTL DEF Spec

(* Whatever numbers the peer puts in its own requests, and however late or *)
(* often it replies: what a call takes for its reply is the reply to its   *)
(* request or a request of the peer's under the same number, never the     *)
(* reply to another call (websock.go:398-402).                             *)
TakesByNumber ==
    \A k \in Calls : call[k].out = "reply" =>
        \/ call[k].got = Reply(k)
        \/ call[k].id \in PeerNumbers /\ call[k].got = Msg("req", call[k].id, NoCall)

THEOREM OnlyByNumber == Spec => []TakesByNumber
<1>1. Init => AnyInv
  BY InvInit DEF IInv
<1>2. AnyInv => TakesByNumber
  BY DEF AnyInv, CarriesOwn, Carried, Handed, TakesByNumber
<1> QED
  BY <1>1, <1>2, AnyInductive, PTL DEF Spec
-----------------------------------------------------------------------------
(* A connection is torn down by a reply only when its call had timed out   *)
(* or had another reply already (websock.go:402,518): what the loop holds  *)
(* answers a request that was sent, so a closed channel is one of a call   *)
(* that ended, and if it ended with a reply, two have been read.           *)
THEOREM ToreLate == ASSUME BrowserPeer PROVE Spec => TornByLateReply
<1> DEFINE Torn == recv.pc = "send" /\ recv'.pc = "down"
           Late == \/ call[recv.k].out = "timeout"
                   \/ call[recv.k].out = "reply" /\ replies[recv.k] > 1
<1>1. ASSUME IInv, [Next]_vars, Torn PROVE Late
  <2>0. TypeOK /\ CallsOK /\ RepliesOwn /\ CountsOK
    BY <1>1 DEF IInv, AnyInv
  <2>1. HandOverPanics
    <3>1. HandOver => recv'.pc = "read"
      BY DEF HandOver, Reading
    <3>2. ASSUME NEW k \in Calls, CallStep(k) PROVE recv' = recv
      BY <2>0, <3>2, Moves
    <3> QED
      BY <1>1, <3>1, <3>2 DEF Next, vars, AppCall, RecvReply, RecvPeerRequest, RecvStep, Handle,
         HandlerBack, ConnFails, Redial
  <2> DEFINE c == call[recv.k]
  <2>2. recv.k \in Calls /\ Answerable(recv.k) /\ ~c.open
    BY <1>1, <2>0, <2>1 DEF RepliesOwn, HandOverPanics
  <2>3. c.out \in {"reply", "timeout"}
    BY <2>0, <2>2 DEF CallsOK, CallOK, Active, Answerable
  <2>4. c.out = "reply" => Count(recv.k) >= 2 /\ Count(recv.k) \in Nat
    BY <1>1 DEF Count
  <2>5. Count(recv.k) <= replies[recv.k] /\ replies[recv.k] \in Nat
    BY <2>0, <2>2 DEF CountsOK, TypeOK
  <2> QED
    BY <2>3, <2>4, <2>5
<1>2. ASSUME IInv, [Next]_vars PROVE [Torn => Late]_vars
  BY <1>1, <1>2
<1>3. (Torn => Late) <=> ((recv.pc = "send" /\ recv'.pc = "down")
                            => LET k == recv.k IN
                               \/ call[k].out = "timeout"
                               \/ call[k].out = "reply" /\ replies[k] > 1)
  OBVIOUS
<1> QED
  BY <1>2, <1>3, Invariant, PTL DEF Spec, TornByLateReply
-----------------------------------------------------------------------------
(* Where a call stands for its caller: under the invariant it is never     *)
(* misled.                                                                 *)
LEMMA StageOf ==
    ASSUME IInv, NEW k \in Calls
    PROVE  /\ call[k].pc = "idle" => Stage(k) = "idle"
           /\ call[k].pc # "idle" /\ call[k].out = "none" => Stage(k) = "open"
           /\ call[k].out = "reply" => Stage(k) = "answered"
           /\ call[k].out \in {"notReady", "notSent", "timeout"} => Stage(k) = "failed"
<1>1. call[k].out # "none" => call[k].pc # "idle"
  BY DEF IInv, AnyInv, CallsOK, CallOK
<1>2. call[k].out = "reply" => call[k].got = Msg("rsp", call[k].id, k)
  BY DEF IInv, AnyInv, RepliesOwn, Given, Reply
<1> QED
  BY <1>1, <1>2 DEF Stage

(* What a step does to the stages of the calls and to the answers given.   *)
LEMMA StageStep ==
    ASSUME IInv, IInv', BrowserPeer, [Next]_vars
    PROVE  \/ replies' = replies /\ \A k \in Calls : Stage(k)' = Stage(k)
           \/ /\ replies' = replies
              /\ \E k \in Calls :
                   /\ \A j \in Calls \ {k} : Stage(j)' = Stage(j)
                   /\ \/ Stage(k) = "idle" /\ Stage(k)' = "open"
                      \/ Stage(k) = "open" /\ Stage(k)' = "answered" /\ replies[k] > 0
                      \/ Stage(k) = "open" /\ Stage(k)' = "failed"
           \/ /\ \A k \in Calls : Stage(k)' = Stage(k)
              /\ \E k \in Calls : /\ Stage(k) # "idle" /\ replies'[k] = replies[k] + 1
                                  /\ \A j \in Calls \ {k} : replies'[j] = replies[j]
<1>0. TypeOK /\ CallsOK /\ MapOK /\ RepliesOwn /\ CountsOK
  BY DEF IInv, AnyInv
<1>1. \A k \in Calls :
           /\ call[k].out \in Outcomes
           /\ call[k].pc = "idle" => Stage(k) = "idle"
           /\ call[k].pc # "idle" /\ call[k].out = "none" => Stage(k) = "open"
           /\ call[k].out = "reply" => Stage(k) = "answered"
           /\ call[k].out \in {"notReady", "notSent", "timeout"} => Stage(k) = "failed"
  BY <1>0, StageOf, Fields DEF TypeOK
<1>2. \A k \in Calls :
           /\ call'[k].pc = "idle" => Stage(k)' = "idle"
           /\ call'[k].pc # "idle" /\ call'[k].out = "none" => Stage(k)' = "open"
           /\ call'[k].out = "reply" => Stage(k)' = "answered"
           /\ call'[k].out \in {"notReady", "notSent", "timeout"} => Stage(k)' = "failed"
  <2>1. TAKE k \in Calls
  <2> QED
    <3>1. call'[k].out # "none" => call'[k].pc # "idle"
      BY DEF IInv, AnyInv, CallsOK, CallOK
    <3>2. call'[k].out = "reply" => call'[k].got = Msg("rsp", call'[k].id, k)
      BY DEF IInv, AnyInv, RepliesOwn, Given, Reply
    <3> QED
      BY <3>1, <3>2 DEF Stage
<1>3. CASE UNCHANGED <<call, replies>>
  BY <1>3 DEF Stage
<1>4. ASSUME NEW k \in Calls, NEW inLoop \in BOOLEAN, Begin(k, inLoop)
      PROVE  /\ \A j \in Calls \ {k} : Stage(j)' = Stage(j)
             /\ Stage(k) = "idle" /\ Stage(k)' = "open"
  <2>1. Sets(k, "begin", 0, "none", << >>, FALSE, NoMsg) /\ call[k] = CallIdle
    BY <1>0, <1>4, CallEffects
  <2>2. call[k].pc = "idle"
    BY <2>1 DEF CallIdle
  <2>3. /\ \A j \in Calls \ {k} : call'[j] = call[j]
        /\ call'[k].pc = "begin" /\ call'[k].out = "none"
    BY <2>1 DEF Sets
  <2>4. \A j \in Calls \ {k} : Stage(j)' = Stage(j)
    BY <2>3 DEF Stage
  <2> QED
    BY <1>1, <1>2, <2>2, <2>3, <2>4
<1>5. ASSUME NEW k \in Calls, CallStep(k)
      PROVE  /\ replies' = replies
             /\ \A j \in Calls \ {k} : Stage(j)' = Stage(j)
             /\ \/ Stage(k)' = Stage(k)
                \/ Stage(k) = "open" /\ Stage(k)' = "answered" /\ replies[k] > 0
                \/ Stage(k) = "open" /\ Stage(k)' = "failed"
  <2> DEFINE c == call[k]
  <2>1. /\ replies' = replies
        /\ \A j \in Calls \ {k} : call'[j] = call[j]
        /\ c.pc # "idle" /\ call'[k].pc # "idle"
        /\ \/ call'[k].out = c.out
           \/ c.pc \in {"begin", "send", "wait"} /\ call'[k].out \in {"notReady", "notSent", "timeout"}
           \/ c.pc = "wait" /\ c.buf # << >> /\ call'[k].out = "reply"
    BY <1>0, <1>5, Moves DEF Sets
  <2>2. \A j \in Calls \ {k} : Stage(j)' = Stage(j)
    BY <2>1 DEF Stage
  <2>3. c.pc \in {"begin", "send", "wait"} => c.out = "none"
    BY <1>0 DEF CallsOK, CallOK
  <2>4. c.buf # << >> => replies[k] > 0
    BY <1>0 DEF CountsOK, Count, TypeOK
  <2>5. call'[k].out = c.out => Stage(k)' = Stage(k)
    BY <1>1, <1>2, <2>1 DEF Outcomes
  <2> QED
    BY <1>1, <1>2, <2>1, <2>2, <2>3, <2>4, <2>5
<1>6. ASSUME NEW k \in Calls, RecvReply(k)
      PROVE  /\ \A j \in Calls : Stage(j)' = Stage(j)
             /\ Stage(k) # "idle" /\ replies'[k] = replies[k] + 1
             /\ \A j \in Calls \ {k} : replies'[j] = replies[j]
  <2>1. /\ UNCHANGED call /\ replies'[k] = replies[k] + 1
        /\ \A j \in Calls \ {k} : replies'[j] = replies[j]
        /\ call[k].pc = "wait" \/ call[k].out \in {"reply", "timeout"}
    BY <1>0, <1>6, ReplyRead
  <2>2. Stage(k) # "idle"
    BY <1>0, <1>1, <2>1 DEF CallsOK, CallOK
  <2> QED
    BY <2>1, <2>2 DEF Stage
<1>7. ASSUME HandOver PROVE replies' = replies /\ \A j \in Calls : Stage(j)' = Stage(j)
  <2>1. PICK k \in Calls : k = recv.k
    BY <1>0, <1>7 DEF RepliesOwn, HandOver
  <2>2. /\ \A j \in Calls \ {k} : call'[j] = call[j]
        /\ call'[k].pc = call[k].pc /\ call'[k].out = call[k].out
    BY <1>0, <1>7, <2>1, HandOverEffect DEF Sets
  <2>3. \A j \in Calls \ {k} : Stage(j)' = Stage(j)
    BY <2>2 DEF Stage
  <2>4. Stage(k)' = Stage(k)
    BY <1>1, <1>2, <2>2 DEF Outcomes
  <2> QED
    BY <1>7, <2>3, <2>4 DEF HandOver
<1> QED
  BY <1>0, <1>3, <1>4, <1>5, <1>6, <1>7, Steps, NoPeerMatches

(* So every step is a step of RpcCall, or none.                            *)
LEMMA RpcStep ==
    ASSUME IInv, IInv', BrowserPeer, [Next]_vars
    PROVE  [Rpc!RpcNext]_(Rpc!rpcVars)
<1> DEFINE stage == [k \in Calls |-> Stage(k)]
           answers == {k \in Calls : replies[k] > 0}
<1>0. replies \in [Calls -> Nat] /\ replies' \in [Calls -> Nat]
  BY DEF IInv, AnyInv, TypeOK
<1>1. CASE replies' = replies /\ \A k \in Calls : Stage(k)' = Stage(k)
  <2>1. stage' = stage /\ answers' = answers
    BY <1>1
  <2> QED
    BY <2>1 DEF Rpc!rpcVars
<1>2. ASSUME NEW k \in Calls, replies' = replies,
             \A j \in Calls \ {k} : Stage(j)' = Stage(j),
             \/ Stage(k) = "idle" /\ Stage(k)' = "open"
             \/ Stage(k) = "open" /\ Stage(k)' = "answered" /\ replies[k] > 0
             \/ Stage(k) = "open" /\ Stage(k)' = "failed"
      PROVE  Rpc!RpcNext
  <2>1. stage' = [stage EXCEPT ![k] = Stage(k)'] /\ stage[k] = Stage(k)
    BY <1>2
  <2>2. answers' = answers /\ (replies[k] > 0 => k \in answers)
    BY <1>2
  <2>3. Rpc!Open(k) \/ Rpc!Succeed(k) \/ Rpc!Fail(k)
    BY <1>2, <2>1, <2>2 DEF Rpc!Open, Rpc!Succeed, Rpc!Fail
  <2> QED
    BY <2>3 DEF Rpc!RpcNext
<1>3. ASSUME NEW k \in Calls, Stage(k) # "idle", replies'[k] = replies[k] + 1,
             \A j \in Calls \ {k} : replies'[j] = replies[j],
             \A j \in Calls : Stage(j)' = Stage(j)
      PROVE  Rpc!RpcNext
  <2>1. stage' = stage /\ stage[k] = Stage(k)
    BY <1>3
  <2>2. answers' = answers \cup {k}
    BY <1>0, <1>3
  <2>3. Rpc!Answer(k)
    BY <1>3, <2>1, <2>2 DEF Rpc!Answer
  <2> QED
    BY <2>3 DEF Rpc!RpcNext
<1> QED
  BY <1>1, <1>2, <1>3, StageStep

(* WsRpc implements the safety of RpcCall: every call goes from idle to    *)
(* open, and from open to failed or, if its own request was answered, to   *)
(* answered, and never moves again (websock.go:360-408).                   *)
THEOREM CallsImplementRpc ==
    ASSUME BrowserPeer PROVE Spec => Rpc!RpcInit /\ [][Rpc!RpcNext]_(Rpc!rpcVars)
<1>1. Init => Rpc!RpcInit
  BY DEF Init, Rpc!RpcInit, Stage, CallIdle
<1> QED
  BY <1>1, RpcStep, Invariant, PTL DEF Spec
=============================================================================
