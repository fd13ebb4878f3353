---------------------------- MODULE NatsRpcProofs ----------------------------
(***************************************************************************)
(* Theorems about NatsRpc, for any number of calls, channel sequences and  *)
(* messages, any queue lengths and any watermark.  The inductive invariant *)
(* follows a number from PubWithResponse through the queue, the network    *)
(* and ch_recv back to the call: at each place it is the number of the     *)
(* execution that made the request, and above the watermark numbers of     *)
(* different executions differ.                                            *)
(***************************************************************************)
EXTENDS NatsRpc, TLAPS

(* A request was made under the number of this execution.                  *)
Asked(k) == k \in Calls /\ call[k].by # "none"

(* It is an execution of PubWithResponse.                                  *)
Started(k) == call[k].by \in {"client", "handler", "loop"}

(* It is between its Store and its Delete.                                 *)
Active(k) == call[k].pc \in {"publish", "wait", "delete"}

(* Numbers of PubWithResponse lie above the watermark and differ.          *)
CallsOK ==
    /\ sndid >= LowWatermark
    /\ \A k \in Calls :
         /\ call[k].by = "none" => /\ call[k].pc = "idle" /\ call[k].out = "none"
                                   /\ call[k].id = 0
         /\ call[k].by = "channel" => /\ call[k].pc = "done" /\ call[k].out = "none"
                                      /\ call[k].id < LowWatermark
         /\ call[k].by = "answer" => /\ call[k].pc \in {"reply", "done"}
                                     /\ call[k].out = "none" /\ call[k].id = 0
         /\ Started(k) => /\ call[k].pc # "idle"
                          /\ LowWatermark < call[k].id /\ call[k].id <= sndid
                          /\ call[k].pc \in {"publish", "wait"} <=> call[k].out = "none"
    /\ \A j, k \in Calls : Started(j) /\ Started(k) /\ call[j].id = call[k].id => j = k

(* sndmap is the inverse of the numbers of the active calls.               *)
MapOK ==
    /\ \A i \in DOMAIN sndmap : Active(sndmap[i]) /\ call[sndmap[i]].id = i
    /\ \A k \in Calls : Active(k) => /\ call[k].id \in DOMAIN sndmap
                                     /\ sndmap[call[k].id] = k

(* Every message carries the number of the execution it comes from.        *)
SentOK(m) == m.kind = "req" => Asked(m.from) /\ m.cid = call[m.from].id
ReceivedOK(m) ==
    m.kind = "rsp" => Asked(m.from) /\ m.cid = call[m.from].id /\ m.from \in answered

MsgsOK ==
    /\ \A i \in DOMAIN sendq.buf : SentOK(sendq.buf[i])
    /\ \A i \in DOMAIN recvq.buf : ReceivedOK(recvq.buf[i])
    /\ \A r \in DOMAIN wire : Asked(r) /\ wire[r] = call[r].id

(* What the loop hands over, and what was handed over, is one's own; and   *)
(* while a call made inside the loop runs, the loop waits for it.          *)
SendsOwn == loop.pc = "send" => loop.ans = loop.k /\ loop.k \in answered /\ Started(loop.k)

HandedOwn == \A k \in Calls : call[k].out = "reply" => call[k].ans = k /\ k \in answered

LoopWaits == \A k \in Calls : call[k].by = "loop" =>
    /\ call[k].out # "reply"
    /\ call[k].pc # "done" => loop.pc = "handle" /\ loop.k = k

LoopOK == SendsOwn /\ HandedOwn /\ LoopWaits

IInv == TypeOK /\ CallsOK /\ MapOK /\ MsgsOK /\ LoopOK
-----------------------------------------------------------------------------
(* A call moves on, or a new one enters: k alone changes.                  *)
Moves(k, pc, out, ans) ==
    /\ \A j \in Calls \ {k} : call'[j] = call[j]
    /\ call'[k].pc = pc /\ call'[k].out = out /\ call'[k].ans = ans
    /\ call'[k].id = call[k].id /\ call'[k].by = call[k].by

Enters(k, pc, id, by) ==
    /\ \A j \in Calls \ {k} : call'[j] = call[j]
    /\ call'[k].pc = pc /\ call'[k].out = "none" /\ call'[k].ans = NoCall
    /\ call'[k].id = id /\ call'[k].by = by

CallTyped == call \in [Calls -> CallState]

(* Each way of writing call[k] in NatsRpc is a move or an entry of k, and  *)
(* keeps the type: the end of the wait, ...                                *)
LEMMA FinishMoves ==
    ASSUME CallTyped, NEW k \in Calls, NEW out \in {"reply"} \cup Errors,
           NEW ans \in Requesters, Finish(k, out, ans)
    PROVE  CallTyped' /\ Moves(k, "delete", out, ans)
<1>1. call[k] \in CallState
  BY DEF CallTyped
<1>2. [call[k] EXCEPT !.pc = "delete", !.out = out, !.ans = ans] \in CallState
  BY <1>1 DEF CallState, CallPC
<1>3. call' = [call EXCEPT ![k] = [call[k] EXCEPT !.pc = "delete", !.out = out, !.ans = ans]]
  BY <1>1 DEF Finish, CallTyped
<1> QED
  BY <1>1, <1>2, <1>3 DEF Moves, CallTyped, CallState

(* ... a step to the next statement, ...                                   *)
LEMMA GotoMoves ==
    ASSUME CallTyped, NEW k \in Calls, NEW pc \in CallPC, Goto(k, pc)
    PROVE  CallTyped' /\ Moves(k, pc, call[k].out, call[k].ans)
<1>1. call[k] \in CallState
  BY DEF CallTyped
<1>2. [call[k] EXCEPT !.pc = pc] \in CallState
  BY <1>1 DEF CallState
<1> QED
  BY <1>1, <1>2 DEF Moves, Goto, CallTyped, CallState

(* ... the close of the reply channel, ...                                 *)
LEMMA CloseMoves ==
    ASSUME CallTyped, NEW k \in Calls, CloseReplyChan(k)
    PROVE  /\ CallTyped'
           /\ \E pc \in {"done", "reply"} : Moves(k, pc, call[k].out, call[k].ans)
<1> DEFINE pc == IF call[k].by = "client" THEN "done" ELSE "reply"
<1>1. call[k] \in CallState
  BY DEF CallTyped
<1>2. [call[k] EXCEPT !.open = FALSE, !.pc = pc] \in CallState
  BY <1>1 DEF CallState, CallPC
<1>3. call' = [call EXCEPT ![k] = [call[k] EXCEPT !.open = FALSE, !.pc = pc]]
  BY <1>1 DEF CloseReplyChan, CallTyped
<1>4. call'[k] = [call[k] EXCEPT !.open = FALSE, !.pc = pc]
  BY <1>3 DEF CallTyped
<1>5. CallTyped' /\ Moves(k, pc, call[k].out, call[k].ans)
  BY <1>1, <1>2, <1>3, <1>4 DEF Moves, CallTyped, CallState
<1> QED
  BY <1>5 DEF Moves

(* ... the start of PubWithResponse, ...                                   *)
LEMMA BeginEnters ==
    ASSUME CallTyped, sndid \in Nat, NEW k \in Calls, NEW by \in {"client", "handler", "loop"},
           Begin(k, by)
    PROVE  CallTyped' /\ Enters(k, "publish", sndid + 1, by)
<1> DEFINE new == [CallIdle EXCEPT !.pc = "publish", !.id = sndid + 1, !.by = by, !.open = TRUE]
<1>1. CallIdle \in CallState /\ CallIdle.out = "none" /\ CallIdle.ans = NoCall
  BY DEF CallIdle, CallState, CallPC, Requesters
<1>a. sndid + 1 \in Nat
  OBVIOUS
<1>2. new \in CallState
  BY <1>1, <1>a DEF CallState, CallPC
<1>3. call' = [call EXCEPT ![k] = new]
  BY DEF Begin
<1> QED
  BY <1>1, <1>2, <1>3 DEF Enters, CallTyped, CallState

(* ... a handler that makes no call, ...                                   *)
LEMMA AnswerEnters ==
    ASSUME CallTyped, NEW k \in Calls, AnswerOnly(k)
    PROVE  CallTyped' /\ Enters(k, "reply", 0, "answer")
<1>1. call[k] = CallIdle /\ call[k] \in CallState
  BY DEF AnswerOnly, CallTyped
<1>2. call[k].out = "none" /\ call[k].ans = NoCall /\ call[k].id = 0
  BY <1>1 DEF CallIdle
<1>3. [call[k] EXCEPT !.pc = "reply", !.by = "answer"] \in CallState
  BY <1>1 DEF CallState, CallPC
<1>4. call' = [call EXCEPT ![k] = [call[k] EXCEPT !.pc = "reply", !.by = "answer"]]
  BY <1>1 DEF AnswerOnly, CallTyped
<1> QED
  BY <1>1, <1>2, <1>3, <1>4 DEF Enters, CallTyped, CallState

(* ... and PubByChannel.                                                   *)
LEMMA ChannelEnters ==
    ASSUME CallTyped, NEW k \in Calls, NEW seq \in ChanSeqs, PubByChannel(k, seq)
    PROVE  CallTyped' /\ Enters(k, "done", seq, "channel")
<1>1. call[k] = CallIdle /\ call[k] \in CallState
  BY DEF PubByChannel, CallTyped
<1>2. call[k].out = "none" /\ call[k].ans = NoCall
  BY <1>1 DEF CallIdle
<1>3. [call[k] EXCEPT !.pc = "done", !.by = "channel", !.id = seq] \in CallState
  BY <1>1, NatsAssumption DEF CallState, CallPC
<1>4. call' = [call EXCEPT ![k] = [call[k] EXCEPT !.pc = "done", !.by = "channel", !.id = seq]]
  BY <1>1 DEF PubByChannel, CallTyped
<1> QED
  BY <1>1, <1>2, <1>3, <1>4 DEF Enters, CallTyped, CallState
-----------------------------------------------------------------------------
(* The ways in which a call in progress moves on: it ends with an error or *)
(* with what the loop hands over, and nothing changes the outcome later.   *)
Advances(k, pc, out, ans) ==
    \/ /\ call[k].pc \in {"publish", "wait"} /\ pc = "delete"
       /\ \/ out \in Errors /\ ans = NoCall
          \/ out = "reply" /\ loop.pc = "send" /\ loop.k = k /\ ans = loop.ans
    \/ /\ out = call[k].out /\ ans = call[k].ans
       /\ \/ call[k].pc = "publish" /\ pc = "wait"
          \/ call[k].pc = "delete" /\ pc = "close"
          \/ call[k].pc \in {"close", "reply"} /\ pc \in {"reply", "done"}

Advance(k) ==
    /\ sndid' = sndid
    /\ sndmap' = IF call[k].pc = "delete" THEN MapDelete(sndmap, call[k].id) ELSE sndmap
    /\ \E pc \in CallPC, out \in {"none", "reply"} \cup Errors, ans \in Requesters :
          Advances(k, pc, out, ans) /\ Moves(k, pc, out, ans)

(* A call made inside the loop leaves the loop waiting for it.             *)
Begins(k, by) ==
    /\ Begin(k, by)
    /\ by = "loop" => loop.pc = "select" /\ loop'.pc = "handle" /\ loop'.k = k

(* What a step may do to the calls, the counter and sndmap.                *)
CallChange ==
    \/ UNCHANGED <<call, sndid, sndmap>>
    \/ \E k \in Calls, by \in {"client", "handler", "loop"} : Begins(k, by)
    \/ \E k \in Calls, seq \in ChanSeqs : PubByChannel(k, seq)
    \/ \E k \in Calls : AnswerOnly(k)
    \/ \E k \in Calls : Advance(k)

(* Every step of the service does one of these, and keeps the calls' type. *)
LEMMA CallChanges ==
    ASSUME TypeOK, [Next]_vars
    PROVE  CallTyped' /\ CallChange
<1>a. CallTyped /\ sndid \in Nat
  BY DEF TypeOK, CallTyped
<1>b. \A k \in Calls : call[k].out \in {"none", "reply"} \cup Errors /\ call[k].ans \in Requesters
  BY DEF TypeOK, CallState
<1>c. /\ Errors = {"noService", "closed", "full", "timeout"}
      /\ CallPC = {"idle", "publish", "wait", "delete", "close", "reply", "done"}
  BY DEF Errors, CallPC
<1>d. NoCall \in Requesters /\ Calls \subseteq Requesters
  BY DEF Requesters
<1>1. ASSUME UNCHANGED <<call, sndid, sndmap>> PROVE CallTyped' /\ CallChange
  BY <1>a, <1>1 DEF CallTyped, CallChange
<1>2. ASSUME NEW k \in Calls, NEW by \in {"client", "handler", "loop"}, Begins(k, by)
      PROVE  CallTyped' /\ CallChange
  BY <1>a, <1>2, BeginEnters DEF CallChange, Begins
<1>3. ASSUME NEW k \in Calls, NEW seq \in ChanSeqs, PubByChannel(k, seq)
      PROVE  CallTyped' /\ CallChange
  BY <1>a, <1>3, ChannelEnters DEF CallChange
<1>4. ASSUME NEW k \in Calls, NEW out \in {"reply"} \cup Errors, NEW ans \in Requesters,
             call[k].pc \in {"publish", "wait"}, Finish(k, out, ans), UNCHANGED <<sndid, sndmap>>,
             \/ out \in Errors /\ ans = NoCall
             \/ out = "reply" /\ loop.pc = "send" /\ loop.k = k /\ ans = loop.ans
      PROVE  CallTyped' /\ CallChange
  <2>1. CallTyped' /\ Moves(k, "delete", out, ans)
    BY <1>a, <1>4, FinishMoves
  <2>2. Advance(k)
    BY <1>4, <1>c, <2>1 DEF Advance, Advances
  <2> QED
    BY <2>1, <2>2 DEF CallChange
<1>5. ASSUME NEW k \in Calls, PubSubjMsg(k) PROVE CallTyped' /\ CallChange
  <2>1. ASSUME NEW out \in Errors, Finish(k, out, NoCall) PROVE CallTyped' /\ CallChange
    BY <1>4, <1>5, <1>d, <2>1 DEF PubSubjMsg
  <2>2. ASSUME Goto(k, "wait") PROVE CallTyped' /\ CallChange
    <3>1. CallTyped' /\ Moves(k, "wait", call[k].out, call[k].ans)
      BY <1>a, <1>c, <2>2, GotoMoves
    <3>2. Advance(k)
      BY <1>5, <1>b, <1>c, <3>1 DEF Advance, Advances, PubSubjMsg
    <3> QED
      BY <3>1, <3>2 DEF CallChange
  <2> QED
    BY <1>5, <1>c, <2>1, <2>2 DEF PubSubjMsg
<1>6. ASSUME NEW k \in Calls, Timeout(k) PROVE CallTyped' /\ CallChange
  BY <1>4, <1>6, <1>c, <1>d DEF Timeout
<1>7. ASSUME NEW k \in Calls, DeleteReplyChan(k) PROVE CallTyped' /\ CallChange
  <2>1. CallTyped' /\ Moves(k, "close", call[k].out, call[k].ans)
    BY <1>a, <1>c, <1>7, GotoMoves DEF DeleteReplyChan
  <2>2. Advance(k)
    BY <1>7, <1>b, <1>c, <2>1 DEF Advance, Advances, DeleteReplyChan
  <2> QED
    BY <2>1, <2>2 DEF CallChange
<1>8. ASSUME NEW k \in Calls, CloseReplyChan(k) PROVE CallTyped' /\ CallChange
  <2>1. CallTyped'
    BY <1>a, <1>8, CloseMoves
  <2>2. PICK pc \in {"done", "reply"} : Moves(k, pc, call[k].out, call[k].ans)
    BY <1>a, <1>8, CloseMoves
  <2>3. Advance(k)
    BY <1>8, <1>b, <1>c, <2>2 DEF Advance, Advances, CloseReplyChan
  <2> QED
    BY <2>1, <2>3 DEF CallChange
<1>9. ASSUME NEW k \in Calls, HandlerReply(k) PROVE CallTyped' /\ CallChange
  <2>1. CallTyped' /\ Moves(k, "done", call[k].out, call[k].ans)
    BY <1>a, <1>c, <1>9, GotoMoves DEF HandlerReply
  <2>2. Advance(k)
    BY <1>9, <1>b, <1>c, <2>1 DEF Advance, Advances, HandlerReply
  <2> QED
    BY <2>1, <2>2 DEF CallChange
<1>10. ASSUME NEW k \in Calls, ReceiveReply(k) PROVE CallTyped' /\ CallChange
  <2>1. loop.ans \in Requesters
    BY DEF TypeOK
  <2> QED
    BY <1>4, <1>10, <2>1 DEF ReceiveReply
<1>11. ASSUME NEW k \in Calls, LoopRequest(k) PROVE CallTyped' /\ CallChange
  <2>1. ASSUME Begin(k, "handler") PROVE CallTyped' /\ CallChange
    BY <1>2, <2>1 DEF Begins
  <2>2. ASSUME Begin(k, "loop"), loop' = [loop EXCEPT !.pc = "handle", !.k = k]
        PROVE  CallTyped' /\ CallChange
    <3>1. loop.pc = "select" /\ loop'.pc = "handle" /\ loop'.k = k
      BY <1>11, <2>2 DEF LoopRequest, TypeOK
    <3> QED
      BY <1>2, <2>2, <3>1 DEF Begins
  <2>3. ASSUME AnswerOnly(k) PROVE CallTyped' /\ CallChange
    BY <1>a, <2>3, AnswerEnters DEF CallChange
  <2> QED
    BY <1>1, <1>11, <2>1, <2>2, <2>3 DEF LoopRequest
<1>12. ASSUME NEW k \in Calls, ClientCall(k) PROVE CallTyped' /\ CallChange
  BY <1>2, <1>12 DEF ClientCall, Begins
<1>13. ASSUME LoopPublish \/ LoopReply \/ SendPanics \/ LoopHandled \/ LoopEnd
              \/ NetRequest \/ CloseCoroutineFlag \/ CloseStep \/ UNCHANGED vars
              \/ \E r \in DOMAIN wire : NetAnswer(r)
       PROVE  UNCHANGED <<call, sndid, sndmap>>
  BY <1>13 DEF LoopPublish, LoopReply, SendPanics, LoopHandled, LoopEnd, NetRequest, Arrive,
               CloseCoroutineFlag, CloseStep, NetAnswer, vars
<1> QED
  BY <1>1, <1>3, <1>5, <1>6, <1>7, <1>8, <1>9, <1>10, <1>11, <1>12, <1>13
     DEF Next, CallStep, LoopStep
-----------------------------------------------------------------------------
CallsInv == TypeOK /\ CallsOK

(* An execution that has not begun has made no request.                    *)
LEMMA IdleFields ==
    CallIdle.pc = "idle" /\ CallIdle.by = "none"
  BY DEF CallIdle

(* The counter only grows, so a new number is above all those given out.   *)
LEMMA CallsStep ==
    ASSUME CallsInv, [Next]_vars
    PROVE  CallsOK'
<1>a. CallTyped /\ sndid \in Nat /\ LowWatermark \in Nat /\ \A seq \in ChanSeqs : seq \in Nat
  BY NatsAssumption DEF CallsInv, TypeOK, CallTyped
<1>b. \A k \in Calls : call[k].id \in Nat
  BY <1>a DEF CallTyped, CallState
<1>1. ASSUME UNCHANGED <<call, sndid, sndmap>> PROVE CallsOK'
  BY <1>1 DEF CallsInv, CallsOK, Started
<1>2. ASSUME NEW k \in Calls, NEW by \in {"client", "handler", "loop"}, Begin(k, by)
      PROVE  CallsOK'
  <2>1. Enters(k, "publish", sndid + 1, by) /\ sndid' = sndid + 1
    BY <1>a, <1>2, BeginEnters DEF Begin
  <2> QED
    BY <1>a, <1>b, <2>1 DEF CallsInv, CallsOK, Started, Enters
<1>3. ASSUME NEW k \in Calls, NEW seq \in ChanSeqs, PubByChannel(k, seq)
      PROVE  CallsOK'
  <2>1. Enters(k, "done", seq, "channel") /\ sndid' = sndid /\ seq < LowWatermark
    BY <1>a, <1>3, ChannelEnters DEF PubByChannel
  <2> QED
    BY <1>a, <1>b, <2>1 DEF CallsInv, CallsOK, Started, Enters
<1>5. ASSUME NEW k \in Calls, AnswerOnly(k) PROVE CallsOK'
  <2>1. Enters(k, "reply", 0, "answer") /\ sndid' = sndid
    BY <1>a, <1>5, AnswerEnters DEF AnswerOnly
  <2> QED
    BY <1>a, <1>b, <2>1 DEF CallsInv, CallsOK, Started, Enters
<1>4. ASSUME NEW k \in Calls, Advance(k) PROVE CallsOK'
  <2>1. PICK pc \in CallPC, out \in {"none", "reply"} \cup Errors, ans \in Requesters :
           Advances(k, pc, out, ans) /\ Moves(k, pc, out, ans)
    BY <1>4 DEF Advance
  <2>2. \/ Started(k)
        \/ call[k].by = "answer" /\ call[k].pc = "reply"
    BY <1>a, <2>1 DEF Advances, CallsInv, CallsOK, Started, CallTyped, CallState
  <2>3. /\ call'[k].by = call[k].by /\ call'[k].id = call[k].id
        /\ call'[k].pc # "idle"
    BY <2>1 DEF Advances, Moves
  <2>6. Started(k) => (call'[k].pc \in {"publish", "wait"} <=> call'[k].out = "none")
    BY <2>1 DEF Advances, Moves, CallsInv, CallsOK, Errors
  <2>7. ~ Started(k) => call'[k].pc \in {"reply", "done"} /\ call'[k].out = "none"
    BY <2>1, <2>2 DEF Advances, Moves, CallsInv, CallsOK
  <2>4. \A j \in Calls \ {k} : call'[j] = call[j]
    BY <2>1 DEF Moves
  <2>5. sndid' = sndid
    BY <1>4 DEF Advance
  <2> QED
    BY <1>a, <1>b, <2>2, <2>3, <2>4, <2>5, <2>6, <2>7 DEF CallsInv, CallsOK, Started
<1> QED
  BY <1>1, <1>2, <1>3, <1>4, <1>5, CallChanges DEF CallChange, Begins, CallsInv

(* Only a call that PubWithResponse started can be active, so its number   *)
(* is not above the counter, and the next number is free in sndmap.        *)
LEMMA ActiveStarted ==
    ASSUME TypeOK, CallsOK, NEW k \in Calls, Active(k)
    PROVE  Started(k) /\ call[k].id \in Nat /\ call[k].id <= sndid
  BY DEF TypeOK, CallState, CallsOK, Active, Started

(* sndmap gains an entry with the call and loses it with the Delete.       *)
LEMMA MapStep ==
    ASSUME CallsInv, MapOK, [Next]_vars
    PROVE  MapOK'
<1>a. CallTyped /\ sndid \in Nat /\ \A i \in DOMAIN sndmap : sndmap[i] \in Calls
  BY DEF CallsInv, TypeOK, CallTyped
<1>b. \A k \in Calls : Active(k) => Started(k) /\ call[k].id \in Nat /\ call[k].id <= sndid
  BY ActiveStarted DEF CallsInv
<1>1. ASSUME UNCHANGED <<call, sndid, sndmap>> PROVE MapOK'
  BY <1>1 DEF MapOK, Active
<1>2. ASSUME NEW k \in Calls, NEW by \in {"client", "handler", "loop"}, Begin(k, by)
      PROVE  MapOK'
  <2>1. /\ Enters(k, "publish", sndid + 1, by)
        /\ sndmap' = MapStore(sndmap, sndid + 1, k)
        /\ call[k].pc = "idle"
    BY <1>a, <1>2, BeginEnters, IdleFields DEF Begin
  <2>2. sndid + 1 \notin DOMAIN sndmap
    BY <1>a, <1>b DEF MapOK
  <2>3. \A i \in DOMAIN sndmap : sndmap[i] # k
    BY <1>a, <2>1 DEF MapOK, Active
  <2> QED
    BY <1>a, <1>b, <2>1, <2>2, <2>3 DEF MapOK, MapStore, Active, Enters
<1>3. ASSUME NEW k \in Calls, NEW seq \in ChanSeqs, PubByChannel(k, seq)
      PROVE  MapOK'
  <2>1. Enters(k, "done", seq, "channel") /\ sndmap' = sndmap /\ call[k].pc = "idle"
    BY <1>a, <1>3, ChannelEnters, IdleFields DEF PubByChannel
  <2> QED
    BY <1>a, <2>1 DEF MapOK, Active, Enters
<1>5. ASSUME NEW k \in Calls, AnswerOnly(k) PROVE MapOK'
  <2>1. Enters(k, "reply", 0, "answer") /\ sndmap' = sndmap /\ call[k].pc = "idle"
    BY <1>a, <1>5, AnswerEnters, IdleFields DEF AnswerOnly
  <2> QED
    BY <1>a, <2>1 DEF MapOK, Active, Enters
<1>4. ASSUME NEW k \in Calls, Advance(k) PROVE MapOK'
  <2>1. PICK pc \in CallPC, out \in {"none", "reply"} \cup Errors, ans \in Requesters :
           Advances(k, pc, out, ans) /\ Moves(k, pc, out, ans)
    BY <1>4 DEF Advance
  <2>2. CASE call[k].pc = "delete"
    <3>1. sndmap' = MapDelete(sndmap, call[k].id)
      BY <1>4, <2>2 DEF Advance
    <3>2. ~ Active(k)' /\ Active(k) /\ Started(k)
      BY <1>b, <2>1, <2>2 DEF Advances, Moves, Active
    <3>3. \A j \in Calls \ {k} : call'[j] = call[j]
      BY <2>1 DEF Moves
    <3> QED
      BY <1>a, <1>b, <3>1, <3>2, <3>3 DEF MapOK, MapDelete, Active
  <2>3. CASE call[k].pc # "delete"
    <3>1. sndmap' = sndmap
      BY <1>4, <2>3 DEF Advance
    <3>2. /\ call'[k].id = call[k].id /\ (Active(k)' <=> Active(k))
          /\ \A j \in Calls \ {k} : call'[j] = call[j]
      BY <2>1, <2>3 DEF Advances, Moves, Active
    <3> QED
      BY <1>a, <3>1, <3>2 DEF MapOK, Active
  <2> QED
    BY <2>2, <2>3
<1> QED
  BY <1>1, <1>2, <1>3, <1>4, <1>5, CallChanges DEF CallChange, Begins, CallsInv

(* An execution keeps its number, and where it was called from.            *)
LEMMA NumbersKept ==
    ASSUME CallsInv, [Next]_vars, NEW k, Asked(k)
    PROVE  /\ Asked(k)' /\ call'[k].id = call[k].id /\ call'[k].by = call[k].by
<1>a. CallTyped /\ sndid \in Nat /\ k \in Calls
  BY DEF CallsInv, TypeOK, CallTyped, Asked
<1>1. ASSUME UNCHANGED <<call, sndid, sndmap>> PROVE call'[k] = call[k]
  BY <1>1
<1>2. ASSUME NEW j \in Calls, NEW by \in {"client", "handler", "loop"}, Begin(j, by)
      PROVE  call'[k] = call[k]
  <2>1. j # k
    BY <1>2, IdleFields DEF Begin, Asked
  <2> QED
    BY <1>a, <1>2, <2>1, BeginEnters DEF Enters
<1>3. ASSUME NEW j \in Calls, NEW seq \in ChanSeqs, PubByChannel(j, seq)
      PROVE  call'[k] = call[k]
  <2>1. j # k
    BY <1>3, IdleFields DEF PubByChannel, Asked
  <2> QED
    BY <1>a, <1>3, <2>1, ChannelEnters DEF Enters
<1>5. ASSUME NEW j \in Calls, AnswerOnly(j) PROVE call'[k] = call[k]
  <2>1. j # k
    BY <1>5, IdleFields DEF AnswerOnly, Asked
  <2> QED
    BY <1>a, <1>5, <2>1, AnswerEnters DEF Enters
<1>4. ASSUME NEW j \in Calls, Advance(j)
      PROVE  call'[k].id = call[k].id /\ call'[k].by = call[k].by
  BY <1>a, <1>4 DEF Advance, Moves
<1> QED
  BY <1>a, <1>1, <1>2, <1>3, <1>4, <1>5, CallChanges DEF CallChange, Begins, CallsInv, Asked
-----------------------------------------------------------------------------
(* What joins a queue at its end, and what remains when its head leaves.   *)
LEMMA QueueAppend ==
    ASSUME NEW S, NEW q \in Seq(S), NEW m \in S
    PROVE  /\ Append(q, m) \in Seq(S)
           /\ \A i \in DOMAIN Append(q, m) :
                 \/ i \in DOMAIN q /\ Append(q, m)[i] = q[i]
                 \/ Append(q, m)[i] = m
  OBVIOUS

(* Tail moves every element one place down, and Head was an element.       *)
LEMMA QueueTail ==
    ASSUME NEW S, NEW q \in Seq(S), q # << >>
    PROVE  /\ Tail(q) \in Seq(S)
           /\ Head(q) \in S /\ 1 \in DOMAIN q /\ Head(q) = q[1]
           /\ \A i \in DOMAIN Tail(q) : i + 1 \in DOMAIN q /\ Tail(q)[i] = q[i + 1]
  OBVIOUS

SendqTyped == sendq \in [buf : Seq(QueuedMsg), closed : BOOLEAN, respClosed : BOOLEAN]
RecvqTyped == recvq \in [buf : Seq(QueuedMsg), closed : BOOLEAN]

(* A push adds at most the message pushed.                                 *)
LEMMA PushAdds ==
    ASSUME SendqTyped, NEW m \in QueuedMsg, NEW res, PushMsg(m, res)
    PROVE  /\ SendqTyped'
           /\ \A i \in DOMAIN sendq'.buf :
                 \/ i \in DOMAIN sendq.buf /\ sendq'.buf[i] = sendq.buf[i]
                 \/ sendq'.buf[i] = m
<1>1. ASSUME UNCHANGED sendq
      PROVE  /\ SendqTyped'
             /\ \A i \in DOMAIN sendq'.buf :
                   i \in DOMAIN sendq.buf /\ sendq'.buf[i] = sendq.buf[i]
  BY <1>1 DEF SendqTyped
<1>2. ASSUME sendq' = [sendq EXCEPT !.buf = Append(@, m)]
      PROVE  /\ SendqTyped'
             /\ sendq'.buf = Append(sendq.buf, m)
  <2>1. sendq.buf \in Seq(QueuedMsg)
    BY DEF SendqTyped
  <2>2. Append(sendq.buf, m) \in Seq(QueuedMsg)
    BY <2>1, QueueAppend
  <2> QED
    BY <1>2, <2>2 DEF SendqTyped
<1>3. sendq.buf \in Seq(QueuedMsg)
  BY DEF SendqTyped
<1> QED
  BY <1>1, <1>2, <1>3, QueueAppend DEF PushMsg

(* What the queue of pushed messages holds after a step was there before,  *)
(* is a handler's reply or was pushed by an execution.                     *)
Pushed(m) == m = Reply \/ \E k \in Calls : Asked(k)' /\ m = Request(call'[k].id, k)

SendqFlow ==
    \A i \in DOMAIN sendq'.buf :
        (\E j \in DOMAIN sendq.buf : sendq'.buf[i] = sendq.buf[j]) \/ Pushed(sendq'.buf[i])

(* Requests and handlers' replies have the type of queued messages.        *)
LEMMA MsgTyped ==
    /\ Reply \in QueuedMsg
    /\ \A k \in Calls, n \in Nat : Request(n, k) \in QueuedMsg
  BY DEF Reply, Request, QueuedMsg, Requesters

(* A step keeps the type of the service's Channel and lets in only those.  *)
LEMMA SendqStep ==
    ASSUME CallsInv, [Next]_vars
    PROVE  SendqTyped' /\ SendqFlow
<1>a. SendqTyped /\ CallTyped /\ sendq.buf \in Seq(QueuedMsg)
  BY DEF CallsInv, TypeOK, SendqTyped, CallTyped
<1>b. \A k \in Calls : call[k].id \in Nat
  BY <1>a DEF CallTyped, CallState
<1>1. ASSUME UNCHANGED sendq PROVE SendqTyped' /\ SendqFlow
  BY <1>a, <1>1 DEF SendqTyped, SendqFlow
<1>2. ASSUME NEW k \in Calls, PubSubjMsg(k) PROVE SendqTyped' /\ SendqFlow
  <2>1. ASSUME NEW res, PushMsg(Request(call[k].id, k), res) PROVE SendqTyped' /\ SendqFlow
    <3>1. call[k].pc = "publish"
      BY <1>2 DEF PubSubjMsg
    <3>2. Asked(k)
      BY <3>1, <1>a DEF Asked, CallsInv, CallsOK
    <3>3. Asked(k)' /\ call'[k].id = call[k].id
      BY <3>2, NumbersKept
    <3>4. Request(call[k].id, k) \in QueuedMsg
      BY <1>b, MsgTyped
    <3>5. Pushed(Request(call[k].id, k))
      BY <3>3 DEF Pushed
    <3> QED
      BY <1>a, <2>1, <3>4, <3>5, PushAdds DEF SendqFlow
  <2> QED
    BY <1>1, <1>2, <2>1 DEF PubSubjMsg
<1>3. ASSUME NEW k \in Calls, HandlerReply(k) PROVE SendqTyped' /\ SendqFlow
  <2>1. ASSUME NEW res, PushMsg(Reply, res) PROVE SendqTyped' /\ SendqFlow
    BY <1>a, <2>1, PushAdds, MsgTyped DEF SendqFlow, Pushed
  <2> QED
    BY <1>1, <1>3, <2>1 DEF HandlerReply
<1>4. ASSUME NEW k \in Calls, NEW seq \in ChanSeqs, PubByChannel(k, seq)
      PROVE  SendqTyped' /\ SendqFlow
  <2>1. ASSUME NEW res, PushMsg(Request(seq, k), res) PROVE SendqTyped' /\ SendqFlow
    <3>1. Asked(k)' /\ call'[k].id = seq
      BY <1>a, <1>4, ChannelEnters DEF Enters, Asked
    <3>2. Request(seq, k) \in QueuedMsg
      BY NatsAssumption, MsgTyped
    <3>3. Pushed(Request(seq, k))
      BY <3>1 DEF Pushed
    <3> QED
      BY <1>a, <2>1, <3>2, <3>3, PushAdds DEF SendqFlow
  <2> QED
    BY <1>1, <1>4, <2>1 DEF PubByChannel
<1>5. ASSUME LoopPublish PROVE SendqTyped' /\ SendqFlow
  <2>1. sendq' = [sendq EXCEPT !.buf = Tail(sendq.buf)] /\ sendq.buf # << >>
    BY <1>5 DEF LoopPublish
  <2>2. Tail(sendq.buf) \in Seq(QueuedMsg)
    BY <1>a, <2>1, QueueTail
  <2>3. SendqTyped' /\ sendq'.buf = Tail(sendq.buf)
    BY <1>a, <2>1, <2>2 DEF SendqTyped
  <2> QED
    BY <1>a, <2>1, <2>3, QueueTail DEF SendqFlow
<1>6. ASSUME CloseStep PROVE SendqTyped' /\ SendqFlow
  <2>1. SendqTyped' /\ sendq'.buf = sendq.buf
    BY <1>a, <1>6 DEF CloseStep, SendqTyped
  <2> QED
    BY <2>1 DEF SendqFlow
<1>7. ASSUME \/ LoopReply \/ SendPanics \/ LoopHandled \/ LoopEnd \/ NetRequest
             \/ CloseCoroutineFlag \/ UNCHANGED vars
             \/ \E r \in DOMAIN wire : NetAnswer(r)
             \/ \E k \in Calls : ClientCall(k) \/ Timeout(k) \/ DeleteReplyChan(k)
                                 \/ CloseReplyChan(k) \/ LoopRequest(k) \/ ReceiveReply(k)
      PROVE  UNCHANGED sendq
  BY <1>7 DEF LoopReply, SendPanics, LoopHandled, LoopEnd, NetRequest, Arrive,
              CloseCoroutineFlag, NetAnswer, vars, ClientCall, Timeout, DeleteReplyChan,
              CloseReplyChan, LoopRequest, ReceiveReply
<1> QED
  BY <1>1, <1>2, <1>3, <1>4, <1>5, <1>6, <1>7 DEF Next, CallStep, LoopStep

(* What is in ch_recv after a step was there before, is a request from     *)
(* outside or answers a published request.                                 *)
Arrived(m) == m.kind = "rsp" =>
    /\ m.from \in DOMAIN wire /\ m.cid = wire[m.from] /\ m.from \in answered'

RecvqFlow ==
    \A i \in DOMAIN recvq'.buf :
        (\E j \in DOMAIN recvq.buf : recvq'.buf[i] = recvq.buf[j]) \/ Arrived(recvq'.buf[i])

(* An arrival of such a message is one.                                    *)
LEMMA ArriveAdds ==
    ASSUME RecvqTyped, NEW m \in QueuedMsg, Arrive(m), Arrived(m)
    PROVE  RecvqTyped' /\ RecvqFlow
<1>1. recvq.buf \in Seq(QueuedMsg) /\ recvq' = [recvq EXCEPT !.buf = Append(recvq.buf, m)]
  BY DEF RecvqTyped, Arrive
<1>2. Append(recvq.buf, m) \in Seq(QueuedMsg)
  BY <1>1, QueueAppend
<1>3. RecvqTyped' /\ recvq'.buf = Append(recvq.buf, m)
  BY <1>1, <1>2 DEF RecvqTyped
<1> QED
  BY <1>1, <1>3, QueueAppend DEF RecvqFlow

(* A step keeps the type of ch_recv and lets in only those.                *)
LEMMA RecvqStep ==
    ASSUME TypeOK, [Next]_vars
    PROVE  RecvqTyped' /\ RecvqFlow
<1>a. RecvqTyped /\ recvq.buf \in Seq(QueuedMsg)
  BY DEF TypeOK, RecvqTyped
<1>1. ASSUME UNCHANGED recvq PROVE RecvqTyped' /\ RecvqFlow
  BY <1>a, <1>1 DEF RecvqTyped, RecvqFlow
<1>2. ASSUME recvq.buf # << >>, recvq' = [recvq EXCEPT !.buf = Tail(@)]
      PROVE  RecvqTyped' /\ RecvqFlow
  <2>1. Tail(recvq.buf) \in Seq(QueuedMsg)
    BY <1>a, <1>2, QueueTail
  <2>2. RecvqTyped' /\ recvq'.buf = Tail(recvq.buf)
    BY <1>a, <1>2, <2>1 DEF RecvqTyped
  <2> QED
    BY <1>a, <1>2, <2>2, QueueTail DEF RecvqFlow
<1>3. ASSUME LoopReply \/ \E k \in Calls : LoopRequest(k)
      PROVE  recvq.buf # << >> /\ recvq' = [recvq EXCEPT !.buf = Tail(@)]
  BY <1>3 DEF LoopReply, LoopRequest
<1>4. ASSUME NEW r \in DOMAIN wire, NetAnswer(r) PROVE RecvqTyped' /\ RecvqFlow
  <2> DEFINE m == [kind |-> "rsp", cid |-> wire[r], from |-> r]
  <2>1. m \in QueuedMsg
    BY DEF TypeOK, QueuedMsg, Requesters
  <2>2. Arrived(m)
    BY <1>4 DEF Arrived, NetAnswer
  <2> QED
    BY <1>a, <1>4, <2>1, <2>2, ArriveAdds DEF NetAnswer
<1>5. ASSUME NetRequest PROVE RecvqTyped' /\ RecvqFlow
  <2> DEFINE m == [kind |-> "req", cid |-> 0, from |-> NoCall]
  <2>1. m \in QueuedMsg
    BY DEF QueuedMsg, Requesters
  <2>2. Arrived(m)
    BY DEF Arrived
  <2> QED
    BY <1>a, <1>5, <2>1, <2>2, ArriveAdds DEF NetRequest
<1>6. ASSUME CloseStep PROVE RecvqTyped' /\ RecvqFlow
  <2>1. RecvqTyped' /\ recvq'.buf = recvq.buf
    BY <1>a, <1>6 DEF CloseStep, RecvqTyped
  <2> QED
    BY <2>1 DEF RecvqFlow
<1>7. ASSUME \/ LoopPublish \/ SendPanics \/ LoopHandled \/ LoopEnd
             \/ CloseCoroutineFlag \/ UNCHANGED vars
             \/ \E k \in Calls : ClientCall(k) \/ CallStep(k) \/ ReceiveReply(k)
             \/ \E k \in Calls, seq \in ChanSeqs : PubByChannel(k, seq)
      PROVE  UNCHANGED recvq
  BY <1>7 DEF LoopPublish, SendPanics, LoopHandled, LoopEnd, CloseCoroutineFlag, vars,
              ClientCall, CallStep, PubSubjMsg, Timeout, DeleteReplyChan, CloseReplyChan,
              HandlerReply, ReceiveReply, PubByChannel
<1> QED
  BY <1>1, <1>2, <1>3, <1>4, <1>5, <1>6, <1>7 DEF Next, LoopStep
-----------------------------------------------------------------------------
WireTyped == /\ DOMAIN wire \subseteq Calls
             /\ \A r \in DOMAIN wire : wire[r] \in Nat
             /\ answered \subseteq DOMAIN wire

WireFlow == /\ answered \subseteq answered'
            /\ \A r \in DOMAIN wire' :
                  \/ r \in DOMAIN wire /\ wire'[r] = wire[r]
                  \/ Asked(r) /\ wire'[r] = call[r].id

(* Publishing puts a request under the number of its execution.            *)
LEMMA WireStep ==
    ASSUME CallsInv, MsgsOK, [Next]_vars
    PROVE  WireTyped' /\ WireFlow
<1>a. /\ WireTyped /\ sendq.buf \in Seq(QueuedMsg)
      /\ \A k \in Calls : call[k].id \in Nat
  BY DEF CallsInv, TypeOK, WireTyped, CallState
<1>1. ASSUME UNCHANGED <<wire, answered>> PROVE WireTyped' /\ WireFlow
  BY <1>a, <1>1 DEF WireTyped, WireFlow
<1>2. ASSUME LoopPublish PROVE WireTyped' /\ WireFlow
  <2> DEFINE m == Head(sendq.buf)
  <2>1. sendq.buf # << >> /\ answered' = answered
    BY <1>2 DEF LoopPublish
  <2>2. m.kind = "req" => Asked(m.from) /\ m.cid = call[m.from].id
    BY <1>a, <2>1, QueueTail DEF MsgsOK, SentOK
  <2>3. \/ wire' = wire
        \/ m.kind = "req" /\ wire' = MapStore(wire, m.from, m.cid)
    BY <1>2 DEF LoopPublish
  <2>4. CASE m.kind = "req" /\ wire' = MapStore(wire, m.from, m.cid)
    <3>1. m.from \in Calls /\ m.cid \in Nat
      BY <1>a, <2>2, <2>4 DEF Asked
    <3> HIDE DEF m
    <3>2. /\ DOMAIN wire' = DOMAIN wire \cup {m.from}
          /\ \A r \in DOMAIN wire' : wire'[r] = IF r = m.from THEN m.cid ELSE wire[r]
      BY <2>4 DEF MapStore
    <3> QED
      BY <1>a, <2>1, <2>2, <2>4, <3>1, <3>2 DEF WireTyped, WireFlow
  <2> QED
    BY <1>1, <2>1, <2>3, <2>4
<1>3. ASSUME NEW r \in DOMAIN wire, NetAnswer(r) PROVE WireTyped' /\ WireFlow
  BY <1>a, <1>3 DEF NetAnswer, Arrive, WireTyped, WireFlow
<1>4. ASSUME \/ LoopReply \/ SendPanics \/ LoopHandled \/ LoopEnd \/ NetRequest
             \/ CloseCoroutineFlag \/ CloseStep \/ UNCHANGED vars
             \/ \E k \in Calls : ClientCall(k) \/ CallStep(k) \/ LoopRequest(k)
                                 \/ ReceiveReply(k)
             \/ \E k \in Calls, seq \in ChanSeqs : PubByChannel(k, seq)
      PROVE  UNCHANGED <<wire, answered>>
  BY <1>4 DEF LoopReply, SendPanics, LoopHandled, LoopEnd, NetRequest, Arrive,
              CloseCoroutineFlag, CloseStep, vars, ClientCall, CallStep, PubSubjMsg, Timeout,
              DeleteReplyChan, CloseReplyChan, HandlerReply, LoopRequest, ReceiveReply,
              PubByChannel, netVars
<1> QED
  BY <1>1, <1>2, <1>3, <1>4 DEF Next, LoopStep

(* Numbers are kept, and each queue takes from the one before it: so a     *)
(* message carries the number of its execution wherever it is.             *)
LEMMA MsgsStep ==
    ASSUME CallsInv, MsgsOK, [Next]_vars
    PROVE  MsgsOK'
<1>1. SendqFlow /\ RecvqFlow /\ WireFlow
  BY SendqStep, RecvqStep, WireStep DEF CallsInv
<1>2. \A k : Asked(k) => Asked(k)' /\ call'[k].id = call[k].id
  BY NumbersKept
<1>3. (\A i \in DOMAIN sendq.buf : SentOK(sendq.buf[i]))'
  <2>1. ASSUME NEW m, SentOK(m) PROVE SentOK(m)'
    BY <1>2, <2>1 DEF SentOK
  <2>2. ASSUME NEW m, Pushed(m) PROVE SentOK(m)'
    BY <2>2 DEF Pushed, SentOK, Reply, Request
  <2>3. ASSUME NEW i \in DOMAIN sendq'.buf
        PROVE  \E m : sendq'.buf[i] = m /\ (SentOK(m) \/ Pushed(m))
    BY <1>1, <2>3 DEF SendqFlow, MsgsOK
  <2>4. ASSUME NEW i \in DOMAIN sendq'.buf
        PROVE  \E m : sendq'.buf[i] = m /\ SentOK(m)'
    BY <2>1, <2>2, <2>3, <2>4
  <2> QED
    BY <2>4 DEF SentOK, Asked
<1>4. (\A i \in DOMAIN recvq.buf : ReceivedOK(recvq.buf[i]))'
  <2>1. ASSUME NEW m, ReceivedOK(m) PROVE ReceivedOK(m)'
    BY <1>1, <1>2, <2>1 DEF ReceivedOK, WireFlow
  <2>2. ASSUME NEW m, Arrived(m) PROVE ReceivedOK(m)'
    BY <1>1, <1>2, <2>2 DEF Arrived, ReceivedOK, WireFlow, MsgsOK
  <2>3. ASSUME NEW i \in DOMAIN recvq'.buf
        PROVE  \E m : recvq'.buf[i] = m /\ (ReceivedOK(m) \/ Arrived(m))
    BY <1>1, <2>3 DEF RecvqFlow, MsgsOK
  <2>4. ASSUME NEW i \in DOMAIN recvq'.buf
        PROVE  \E m : recvq'.buf[i] = m /\ ReceivedOK(m)'
    BY <2>1, <2>2, <2>3, <2>4
  <2> QED
    BY <2>4 DEF ReceivedOK, Asked
<1>5. (\A r \in DOMAIN wire : Asked(r) /\ wire[r] = call[r].id)'
  BY <1>1, <1>2 DEF WireFlow, MsgsOK
<1> QED
  BY <1>3, <1>4, <1>5 DEF MsgsOK
-----------------------------------------------------------------------------
(* The steps that leave the loop where it is: everything but its own work. *)
OutsideLoop ==
    \/ LoopPublish \/ NetRequest \/ CloseCoroutineFlag \/ CloseStep \/ UNCHANGED vars
    \/ \E r \in DOMAIN wire : NetAnswer(r)
    \/ \E k \in Calls : ClientCall(k) \/ CallStep(k)
    \/ \E k \in Calls, seq \in ChanSeqs : PubByChannel(k, seq)

(* They do leave it.                                                       *)
LEMMA LoopKept == OutsideLoop => loop' = loop
  BY DEF OutsideLoop, LoopPublish, NetRequest, Arrive, NetAnswer, CloseCoroutineFlag, CloseStep, vars,
         ClientCall, CallStep, PubSubjMsg, Timeout, DeleteReplyChan, CloseReplyChan,
         HandlerReply, PubByChannel
LoopTyped == /\ loop \in [pc : {"select", "send", "handle", "ended"},
                          k : Calls \cup {NoCall}, ans : Requesters]
             /\ loop.pc \in {"send", "handle"} => loop.k \in Calls

(* The loop's state keeps its type.                                        *)
LEMMA LoopTypeStep ==
    ASSUME TypeOK, [Next]_vars
    PROVE  LoopTyped'
<1>a. LoopTyped /\ recvq.buf \in Seq(QueuedMsg)
  BY DEF TypeOK, LoopTyped
<1>1. ASSUME UNCHANGED loop PROVE LoopTyped'
  BY <1>a, <1>1 DEF LoopTyped
<1>2. ASSUME loop' = Ready PROVE LoopTyped'
  BY <1>2 DEF LoopTyped, Ready, Requesters
<1>3. ASSUME LoopReply PROVE LoopTyped'
  <2> DEFINE m == Head(recvq.buf)
  <2>1. m \in QueuedMsg
    BY <1>a, <1>3, QueueTail DEF LoopReply
  <2>2. m.from \in Requesters
    BY <2>1 DEF QueuedMsg
  <2>3. \/ loop' = loop
        \/ /\ m.cid \in DOMAIN sndmap
           /\ loop' = [pc |-> "send", k |-> sndmap[m.cid], ans |-> m.from]
    BY <1>3 DEF LoopReply
  <2> HIDE DEF m
  <2>4. m.cid \in DOMAIN sndmap => sndmap[m.cid] \in Calls
    BY DEF TypeOK
  <2> QED
    BY <1>1, <2>2, <2>3, <2>4 DEF LoopTyped
<1>4. ASSUME NEW k \in Calls, LoopRequest(k) PROVE LoopTyped'
  BY <1>a, <1>4 DEF LoopRequest, LoopTyped
<1>5. ASSUME LoopEnd PROVE LoopTyped'
  BY <1>a, <1>5 DEF LoopEnd, LoopTyped
<1>6. ASSUME SendPanics \/ LoopHandled \/ \E k \in Calls : ReceiveReply(k)
      PROVE  loop' = Ready
  BY <1>6 DEF SendPanics, LoopHandled, ReceiveReply
<1>7. ASSUME OutsideLoop PROVE UNCHANGED loop
  BY <1>7, LoopKept
<1> QED
  BY <1>1, <1>2, <1>3, <1>4, <1>5, <1>6, <1>7 DEF Next, LoopStep, OutsideLoop

(* Every variable keeps its type.                                          *)
LEMMA TypeStep ==
    ASSUME CallsInv, MsgsOK, [Next]_vars
    PROVE  TypeOK'
<1>1. CallTyped' /\ SendqTyped' /\ RecvqTyped' /\ WireTyped' /\ LoopTyped'
  BY CallChanges, SendqStep, RecvqStep, WireStep, LoopTypeStep DEF CallsInv
<1>2. /\ sndid' \in Nat /\ DOMAIN sndmap' \subseteq Nat
      /\ \A i \in DOMAIN sndmap' : sndmap'[i] \in Calls
  <2>a. /\ sndid \in Nat /\ DOMAIN sndmap \subseteq Nat
        /\ \A i \in DOMAIN sndmap : sndmap[i] \in Calls
    BY DEF CallsInv, TypeOK
  <2>1. ASSUME NEW k \in Calls, NEW by, Begin(k, by)
        PROVE  sndid' = sndid + 1 /\ sndmap' = MapStore(sndmap, sndid + 1, k)
    BY <2>1 DEF Begin
  <2>2. ASSUME NEW k \in Calls, Advance(k)
        PROVE  /\ sndid' = sndid
               /\ sndmap' = sndmap \/ sndmap' = MapDelete(sndmap, call[k].id)
    BY <2>2 DEF Advance
  <2>3. ASSUME NEW k \in Calls,
               AnswerOnly(k) \/ \E seq \in ChanSeqs : PubByChannel(k, seq)
        PROVE  sndid' = sndid /\ sndmap' = sndmap
    BY <2>3 DEF PubByChannel, AnswerOnly
  <2>4. CallChange
    BY CallChanges DEF CallsInv
  <2>5. ASSUME NEW k \in Calls, sndid' = sndid + 1, sndmap' = MapStore(sndmap, sndid + 1, k)
        PROVE  /\ sndid' \in Nat /\ DOMAIN sndmap' \subseteq Nat
               /\ \A i \in DOMAIN sndmap' : sndmap'[i] \in Calls
    BY <2>a, <2>5 DEF MapStore
  <2>6. ASSUME NEW i, sndmap' = MapDelete(sndmap, i)
        PROVE  /\ DOMAIN sndmap' \subseteq Nat
               /\ \A j \in DOMAIN sndmap' : sndmap'[j] \in Calls
    BY <2>a, <2>6 DEF MapDelete
  <2> QED
    BY <2>a, <2>1, <2>2, <2>3, <2>4, <2>5, <2>6 DEF CallChange, Begins
<1>3. /\ coSche' \in BOOLEAN /\ arrivals' \in Nat
      /\ closing' \in {"open", "conn", "signal", "sendq", "done"}
  <2>a. /\ coSche \in BOOLEAN /\ arrivals \in Nat
        /\ closing \in {"open", "conn", "signal", "sendq", "done"}
    BY DEF CallsInv, TypeOK
  <2>1. ASSUME NetRequest \/ \E r \in DOMAIN wire : NetAnswer(r)
        PROVE  arrivals' = arrivals + 1 /\ coSche' = coSche /\ closing' = closing
    BY <2>1 DEF NetRequest, NetAnswer, Arrive, svcVars
  <2>2. ASSUME CloseCoroutineFlag \/ CloseStep
        PROVE  /\ coSche' = FALSE \/ coSche' = coSche
               /\ arrivals' = arrivals
               /\ closing' \in {"conn", "signal", "sendq", "done", closing}
    BY <2>2 DEF CloseCoroutineFlag, CloseStep, netVars, svcVars
  <2>3. ASSUME \/ UNCHANGED vars \/ LoopStep
               \/ \E k \in Calls : ClientCall(k) \/ CallStep(k)
               \/ \E k \in Calls, seq \in ChanSeqs : PubByChannel(k, seq)
        PROVE  coSche' = coSche /\ closing' = closing /\ arrivals' = arrivals
    BY <2>3 DEF vars, LoopStep, LoopPublish, LoopReply, SendPanics, LoopHandled, LoopEnd,
                LoopRequest, ReceiveReply, ClientCall, CallStep, PubSubjMsg, Timeout,
                DeleteReplyChan, CloseReplyChan, HandlerReply, PubByChannel, netVars, svcVars
  <2>4. /\ coSche' = FALSE \/ coSche' = coSche
        /\ arrivals' = arrivals + 1 \/ arrivals' = arrivals
        /\ closing' \in {"conn", "signal", "sendq", "done", closing}
    BY <2>1, <2>2, <2>3 DEF Next
  <2>5. arrivals' \in Nat
    BY <2>a, <2>4
  <2>6. coSche' \in BOOLEAN
    BY <2>a, <2>4, Zenon
  <2> QED
    BY <2>a, <2>4, <2>5, <2>6
<1> QED
  BY <1>1, <1>2, <1>3 DEF TypeOK, CallTyped, SendqTyped, RecvqTyped, WireTyped, LoopTyped
-----------------------------------------------------------------------------
(* The loop hands a reply over to the call that has the number it carries. *)
LEMMA Delivered ==
    ASSUME CallsInv, MapOK, NEW i, NEW r, Asked(r), i = call[r].id,
           i > LowWatermark, i \in DOMAIN sndmap
    PROVE  sndmap[i] = r /\ Started(r)
<1>1. /\ LowWatermark \in Nat /\ \A k \in Calls : call[k].id \in Nat
      /\ sndmap[i] \in Calls /\ r \in Calls
      /\ \A k \in Calls : call[k].by \in {"none", "channel", "answer", "client", "handler", "loop"}
  BY NatsAssumption DEF CallsInv, TypeOK, CallState, Asked
<1>2. Started(r)
  BY <1>1 DEF CallsInv, CallsOK, Started, Asked
<1>3. Started(sndmap[i]) /\ call[sndmap[i]].id = i
  BY <1>1, ActiveStarted DEF CallsInv, MapOK
<1> QED
  BY <1>1, <1>2, <1>3 DEF CallsInv, CallsOK

(* The loop starts no work before it is done with the last.                *)
LoopChange ==
    \/ loop' = loop
    \/ loop'.pc = "select" /\ loop.pc = "send"
    \/ loop'.pc = "select" /\ loop.pc = "handle" /\ call[loop.k].pc = "done"
    \/ loop.pc = "select" /\ loop'.pc \in {"send", "handle", "ended"}

(* Every step does that or leaves the loop where it is.                    *)
LEMMA LoopChanges ==
    ASSUME TypeOK, [Next]_vars
    PROVE  LoopChange
<1>a. loop \in [pc : {"select", "send", "handle", "ended"}, k : Calls \cup {NoCall},
                ans : Requesters]
  BY DEF TypeOK
<1>1. ASSUME LoopReply PROVE LoopChange
  BY <1>1 DEF LoopReply, LoopChange
<1>2. ASSUME SendPanics \/ LoopHandled \/ \E k \in Calls : ReceiveReply(k) PROVE LoopChange
  BY <1>2 DEF SendPanics, LoopHandled, ReceiveReply, Ready, LoopChange
<1>3. ASSUME LoopEnd \/ \E k \in Calls : LoopRequest(k) PROVE LoopChange
  BY <1>a, <1>3 DEF LoopEnd, LoopRequest, LoopChange
<1>4. ASSUME OutsideLoop PROVE LoopChange
  BY <1>4, LoopKept DEF LoopChange
<1> QED
  BY <1>1, <1>2, <1>3, <1>4 DEF Next, LoopStep, OutsideLoop

(* What the loop is about to send is the reply to the call it sends it to. *)
LEMMA SendsOwnStep ==
    ASSUME CallsInv, MapOK, MsgsOK, SendsOwn, [Next]_vars
    PROVE  SendsOwn'
<1>a. /\ recvq.buf \in Seq(QueuedMsg)
      /\ loop.pc \in {"send", "handle"} => loop.k \in Calls
      /\ loop \in [pc : {"select", "send", "handle", "ended"}, k : Calls \cup {NoCall},
                   ans : Requesters]
  BY DEF CallsInv, TypeOK
<1>b. \A k : Asked(k) => Asked(k)' /\ call'[k].by = call[k].by
  BY NumbersKept
<1>c. answered \subseteq answered'
  BY WireStep DEF WireFlow
<1>d. \A k \in Calls : Started(k) => Started(k)'
  BY <1>b DEF Started, Asked
<1>1. ASSUME loop' = loop PROVE SendsOwn'
  BY <1>1, <1>a, <1>c, <1>d DEF SendsOwn, Started
<1>2. ASSUME LoopReply PROVE SendsOwn'
  <2>1. PICK m : m = Head(recvq.buf)
    OBVIOUS
  <2>2. /\ recvq.buf # << >> /\ m.kind = "rsp"
        /\ \/ loop' = loop
           \/ /\ m.cid > LowWatermark /\ m.cid \in DOMAIN sndmap
              /\ loop' = [pc |-> "send", k |-> sndmap[m.cid], ans |-> m.from]
    BY <1>2, <2>1 DEF LoopReply
  <2>3. Asked(m.from) /\ m.cid = call[m.from].id /\ m.from \in answered
    BY <1>a, <2>1, <2>2, QueueTail DEF MsgsOK, ReceivedOK
  <2>4. CASE m.cid > LowWatermark /\ m.cid \in DOMAIN sndmap
    <3>1. sndmap[m.cid] = m.from /\ Started(m.from) /\ m.from \in Calls
      BY <2>3, <2>4, Delivered DEF Asked
    <3>2. Started(m.from)'
      BY <3>1, <1>d
    <3> QED
      BY <1>1, <1>c, <2>2, <2>3, <3>1, <3>2 DEF SendsOwn, Started
  <2> QED
    BY <1>1, <2>2, <2>4
<1>3. ASSUME loop'.pc # "send" PROVE SendsOwn'
  BY <1>3 DEF SendsOwn
<1>4. ASSUME SendPanics \/ LoopHandled \/ \E k \in Calls : ReceiveReply(k)
      PROVE  loop'.pc # "send"
  BY <1>4 DEF SendPanics, LoopHandled, ReceiveReply, Ready
<1>6. ASSUME LoopEnd \/ \E k \in Calls : LoopRequest(k)
      PROVE  loop' = loop \/ loop'.pc # "send"
  BY <1>6, <1>a DEF LoopEnd, LoopRequest
<1>5. ASSUME OutsideLoop PROVE loop' = loop
  BY <1>5, LoopKept
<1> QED
  BY <1>1, <1>2, <1>3, <1>4, <1>5, <1>6 DEF Next, LoopStep, OutsideLoop

(* What a call was handed is its own; and a call made inside the loop      *)
(* keeps the loop waiting, so that nothing is handed to it.                *)
LEMMA HandedStep ==
    ASSUME CallsInv, MsgsOK, LoopOK, [Next]_vars
    PROVE  HandedOwn' /\ LoopWaits'
<1>a. CallTyped /\ sndid \in Nat
  BY DEF CallsInv, TypeOK, CallTyped
<1>b. answered \subseteq answered'
  BY WireStep DEF WireFlow
<1>c. LoopChange /\ SendsOwn /\ HandedOwn /\ LoopWaits
  BY LoopChanges DEF CallsInv, LoopOK
<1>d. ASSUME NEW j \in Calls, call[j].by = "loop", call[j].pc # "done" PROVE loop' = loop
  BY <1>c, <1>d DEF LoopChange, LoopWaits
<1>e. ASSUME NEW j \in Calls, call'[j] = call[j]
      PROVE  /\ call'[j].out = "reply" => call'[j].ans = j /\ j \in answered'
             /\ call'[j].by = "loop" =>
                  /\ call'[j].out # "reply"
                  /\ call'[j].pc # "done" => loop'.pc = "handle" /\ loop'.k = j
  BY <1>b, <1>c, <1>d, <1>e DEF HandedOwn, LoopWaits
<1>1. ASSUME UNCHANGED <<call, sndid, sndmap>> PROVE HandedOwn' /\ LoopWaits'
  BY <1>1, <1>e DEF HandedOwn, LoopWaits
<1>2. ASSUME NEW k \in Calls, NEW by \in {"client", "handler", "loop"}, Begins(k, by)
      PROVE  HandedOwn' /\ LoopWaits'
  <2>1. Enters(k, "publish", sndid + 1, by)
    BY <1>a, <1>2, BeginEnters DEF Begins
  <2> QED
    BY <1>2, <1>e, <2>1 DEF Begins, Enters, HandedOwn, LoopWaits
<1>3. ASSUME NEW k \in Calls, NEW seq \in ChanSeqs, PubByChannel(k, seq)
      PROVE  HandedOwn' /\ LoopWaits'
  <2>1. Enters(k, "done", seq, "channel")
    BY <1>a, <1>3, ChannelEnters
  <2> QED
    BY <1>e, <2>1 DEF Enters, HandedOwn, LoopWaits
<1>5. ASSUME NEW k \in Calls, AnswerOnly(k) PROVE HandedOwn' /\ LoopWaits'
  <2>1. Enters(k, "reply", 0, "answer")
    BY <1>a, <1>5, AnswerEnters
  <2> QED
    BY <1>e, <2>1 DEF Enters, HandedOwn, LoopWaits
<1>4. ASSUME NEW k \in Calls, Advance(k) PROVE HandedOwn' /\ LoopWaits'
  <2>1. PICK pc \in CallPC, out \in {"none", "reply"} \cup Errors, ans \in Requesters :
           Advances(k, pc, out, ans) /\ Moves(k, pc, out, ans)
    BY <1>4 DEF Advance
  <2>2. call'[k].out = "reply" => call'[k].ans = k /\ k \in answered'
    BY <1>b, <1>c, <2>1 DEF Advances, Moves, SendsOwn, HandedOwn, Errors
  <2>3. ASSUME call'[k].by = "loop"
        PROVE  /\ call'[k].out # "reply"
               /\ call'[k].pc # "done" => loop'.pc = "handle" /\ loop'.k = k
    <3>1. call[k].by = "loop" /\ call[k].pc # "done"
      BY <2>1, <2>3 DEF Advances, Moves
    <3>2. loop' = loop /\ loop.pc = "handle" /\ loop.k = k
      BY <1>c, <1>d, <3>1 DEF LoopWaits
    <3>3. call'[k].out # "reply"
      BY <1>c, <2>1, <3>1, <3>2 DEF Advances, Moves, LoopWaits, Errors
    <3> QED
      BY <3>2, <3>3
  <2>4. \A j \in Calls \ {k} : call'[j] = call[j]
    BY <2>1 DEF Moves
  <2> QED
    BY <1>e, <2>2, <2>3, <2>4 DEF HandedOwn, LoopWaits
<1> QED
  BY <1>1, <1>2, <1>3, <1>4, <1>5, CallChanges DEF CallChange, CallsInv
-----------------------------------------------------------------------------
(* The invariant holds at the start, ...                                   *)
LEMMA InitIInv == Init => IInv
  BY NatsAssumption
     DEF Init, IInv, TypeOK, CallsOK, MapOK, MsgsOK, SentOK, ReceivedOK, LoopOK, SendsOwn,
         HandedOwn, LoopWaits, Asked, Started, Active, CallIdle, CallPC, CallState, Errors,
         NoEntries, Requesters, QueuedMsg

(* ... every step keeps it, ...                                            *)
LEMMA Inductive == IInv /\ [Next]_vars => IInv'
  BY TypeStep, CallsStep, MapStep, MsgsStep, SendsOwnStep, HandedStep
     DEF IInv, CallsInv, LoopOK

(* ... and so it always holds.                                             *)
LEMMA Invariant == Spec => []IInv
  BY InitIInv, Inductive, PTL DEF Spec
-----------------------------------------------------------------------------
(* Every variable of the service has its type in every reachable state.    *)
THEOREM Typing == Spec => []TypeOK
  BY Invariant, PTL DEF IInv

(* PubWithResponse returns only the reply to its own request, whatever     *)
(* replies come late, twice or for others (natssvr.go:202-222, 554-578).   *)
THEOREM OwnReplies == Spec => []OwnReply
<1>1. IInv => OwnReply
  BY DEF IInv, LoopOK, HandedOwn, OwnReply
<1> QED
  BY <1>1, Invariant, PTL

(* sndmap holds exactly the calls in progress, on every path out of        *)
(* PubWithResponse: no call leaves its entry behind (natssvr.go:554-578).  *)
THEOREM NoLeak == Spec => []NothingLeaked
<1>1. IInv => NothingLeaked
  <2> SUFFICES ASSUME IInv PROVE NothingLeaked
    OBVIOUS
  <2>1. \A i \in DOMAIN sndmap : call[sndmap[i]].id = i
    BY DEF IInv, MapOK
  <2>2. ASSUME NEW k \in Calls, call[k].id \in DOMAIN sndmap PROVE Active(k)
    <3> DEFINE j == sndmap[call[k].id]
    <3>1. j \in Calls /\ Active(j) /\ call[j].id = call[k].id
      BY <2>2 DEF IInv, TypeOK, MapOK
    <3>2. Started(j)
      BY <3>1, ActiveStarted DEF IInv
    <3>3. /\ LowWatermark \in Nat /\ call[k].id \in Nat
          /\ call[k].by \in {"none", "channel", "answer", "client", "handler", "loop"}
      BY NatsAssumption DEF IInv, TypeOK, CallState
    <3> QED
      BY <3>1, <3>2, <3>3 DEF IInv, CallsOK, Started
  <2> QED
    BY <2>1, <2>2 DEF IInv, MapOK, Active, NothingLeaked
<1> QED
  BY <1>1, Invariant, PTL

(* A call that a handler makes inside the StartService loop never gets its *)
(* reply (natssvr.go:333).                                                 *)
THEOREM NestedNever == Spec => []NestedSyncNeverAnswered
<1>1. IInv => NestedSyncNeverAnswered
  BY DEF IInv, LoopOK, LoopWaits, NestedSyncNeverAnswered
<1> QED
  BY <1>1, Invariant, PTL
-----------------------------------------------------------------------------
(* The stage of an execution, by what it is and how it ended.              *)
LEMMA StageIs ==
    ASSUME CallsOK, NEW k \in Calls
    PROVE  /\ call[k].by \in NoCalls => Stage(k) = "idle"
           /\ Started(k) /\ call[k].out = "none" => Stage(k) = "open"
<1>1. ASSUME call[k].by \in NoCalls PROVE Stage(k) = "idle"
  BY <1>1 DEF Stage, CallsOK, NoCalls
<1>2. ASSUME Started(k), call[k].out = "none" PROVE Stage(k) = "open"
  BY <1>2 DEF Stage, Started, NoCalls
<1> QED
  BY <1>1, <1>2

(* The answered requests of PubWithResponse, as RpcCall sees them.         *)
AnswersOf == {k \in answered : call[k].by \notin NoCalls}

(* One call changes stage at a time, as RpcCall lets it, ...               *)
LEMMA StageStep ==
    ASSUME IInv, IInv', [Next]_vars
    PROVE  \/ \A k \in Calls : Stage(k)' = Stage(k)
           \/ \E k \in Calls :
                /\ \A j \in Calls \ {k} : Stage(j)' = Stage(j)
                /\ \/ Stage(k) = "idle" /\ Stage(k)' = "open"
                   \/ Stage(k) = "open" /\ Stage(k)' = "answered" /\ k \in answered
                   \/ Stage(k) = "open" /\ Stage(k)' = "failed"
<1>a. CallTyped /\ sndid \in Nat /\ CallsOK /\ TypeOK /\ SendsOwn
  BY DEF IInv, TypeOK, CallTyped, LoopOK
<1>b. \A k \in Calls : call'[k] = call[k] => Stage(k)' = Stage(k)
  BY DEF Stage
<1>1. ASSUME UNCHANGED <<call, sndid, sndmap>> PROVE \A k \in Calls : Stage(k)' = Stage(k)
  BY <1>1, <1>b
<1>2. ASSUME NEW k \in Calls, NEW by \in {"client", "handler", "loop"}, Begin(k, by)
      PROVE  /\ \A j \in Calls \ {k} : Stage(j)' = Stage(j)
             /\ Stage(k) = "idle" /\ Stage(k)' = "open"
  <2>1. Enters(k, "publish", sndid + 1, by) /\ call[k].by = "none"
    BY <1>a, <1>2, BeginEnters, IdleFields DEF Begin
  <2>2. Stage(k) = "idle"
    BY <1>a, <2>1, StageIs DEF NoCalls
  <2>3. Started(k)' /\ call'[k].out = "none"
    BY <2>1 DEF Enters, Started
  <2>4. Stage(k)' = "open"
    BY <2>3 DEF Stage, Started, NoCalls
  <2> QED
    BY <1>b, <2>1, <2>2, <2>4 DEF Enters
<1>3. ASSUME NEW k \in Calls, NEW seq \in ChanSeqs, PubByChannel(k, seq)
      PROVE  \A j \in Calls : Stage(j)' = Stage(j)
  <2>1. Enters(k, "done", seq, "channel") /\ call[k].by = "none"
    BY <1>a, <1>3, ChannelEnters, IdleFields DEF PubByChannel
  <2>2. Stage(k) = "idle"
    BY <1>a, <2>1, StageIs DEF NoCalls
  <2>3. call'[k].by = "channel" /\ call'[k].out = "none"
    BY <2>1 DEF Enters
  <2>4. Stage(k)' = "idle"
    BY <2>3 DEF Stage, NoCalls
  <2> QED
    BY <1>b, <2>1, <2>2, <2>4 DEF Enters
<1>5. ASSUME NEW k \in Calls, AnswerOnly(k)
      PROVE  \A j \in Calls : Stage(j)' = Stage(j)
  <2>1. Enters(k, "reply", 0, "answer") /\ call[k].by = "none"
    BY <1>a, <1>5, AnswerEnters, IdleFields DEF AnswerOnly
  <2>2. Stage(k) = "idle"
    BY <1>a, <2>1, StageIs DEF NoCalls
  <2>3. call'[k].by = "answer" /\ call'[k].out = "none"
    BY <2>1 DEF Enters
  <2>4. Stage(k)' = "idle"
    BY <2>3 DEF Stage, NoCalls
  <2> QED
    BY <1>b, <2>1, <2>2, <2>4 DEF Enters
<1>4. ASSUME NEW k \in Calls, Advance(k)
      PROVE  /\ \A j \in Calls \ {k} : Stage(j)' = Stage(j)
             /\ \/ Stage(k)' = Stage(k)
                \/ Stage(k) = "open" /\ Stage(k)' = "answered" /\ k \in answered
                \/ Stage(k) = "open" /\ Stage(k)' = "failed"
  <2>1. PICK pc \in CallPC, out \in {"none", "reply"} \cup Errors, ans \in Requesters :
           Advances(k, pc, out, ans) /\ Moves(k, pc, out, ans)
    BY <1>4 DEF Advance
  <2>2. \A j \in Calls \ {k} : Stage(j)' = Stage(j)
    BY <1>b, <2>1 DEF Moves
  <2>3. CASE out = call[k].out /\ ans = call[k].ans
    BY <2>1, <2>2, <2>3 DEF Moves, Stage
  <2>4. CASE /\ call[k].pc \in {"publish", "wait"}
             /\ \/ out \in Errors
                \/ out = "reply" /\ loop.pc = "send" /\ loop.k = k /\ ans = loop.ans
    <3>1. Started(k) /\ call[k].out = "none"
      BY <1>a, <2>4 DEF CallsOK, TypeOK, CallState, Started
    <3>2. Stage(k) = "open"
      BY <1>a, <3>1, StageIs
    <3>3. Started(k)' /\ call'[k].out = out /\ call'[k].ans = ans
      BY <2>1, <3>1 DEF Moves, Started
    <3>4. CASE out \in Errors
      BY <2>2, <3>2, <3>3, <3>4 DEF Stage, Started, Errors, NoCalls
    <3>5. CASE out = "reply" /\ loop.pc = "send" /\ loop.k = k /\ ans = loop.ans
      <4>1. ans = k /\ k \in answered
        BY <1>a, <3>5 DEF SendsOwn
      <4> QED
        BY <2>2, <3>2, <3>3, <3>5, <4>1 DEF Stage, Started, NoCalls
    <3> QED
      BY <2>4, <3>4, <3>5
  <2> QED
    BY <2>1, <2>3, <2>4 DEF Advances
<1> QED
  BY <1>a, <1>1, <1>2, <1>3, <1>4, <1>5, CallChanges DEF CallChange, Begins

(* ... and the network answers one request at a time, moving no call.      *)
LEMMA AnswerStep ==
    ASSUME IInv, [Next]_vars
    PROVE  \/ AnswersOf' = AnswersOf
           \/ \E r \in Calls : /\ Stage(r) # "idle" /\ AnswersOf' = AnswersOf \cup {r}
                               /\ \A k \in Calls : Stage(k)' = Stage(k)
<1>a. /\ \A r \in answered : Asked(r) /\ r \in Calls
      /\ answered \subseteq DOMAIN wire
  BY DEF IInv, TypeOK, MsgsOK
<1>1. ASSUME answered' = answered PROVE AnswersOf' = AnswersOf
  <2>1. \A r \in answered : call'[r].by = call[r].by
    BY <1>a, NumbersKept DEF IInv, CallsInv
  <2> QED
    BY <1>1, <2>1 DEF AnswersOf
<1>2. ASSUME NEW r \in DOMAIN wire, NetAnswer(r)
      PROVE  \/ AnswersOf' = AnswersOf
             \/ /\ Stage(r) # "idle" /\ AnswersOf' = AnswersOf \cup {r}
                /\ \A k \in Calls : Stage(k)' = Stage(k)
  <2>1. answered' = answered \cup {r} /\ call' = call /\ Asked(r)
    BY <1>2 DEF NetAnswer, Arrive, IInv, MsgsOK
  <2>2. CASE call[r].by \in NoCalls
    BY <2>1, <2>2 DEF AnswersOf
  <2>3. CASE call[r].by \notin NoCalls
    <3>1. AnswersOf' = AnswersOf \cup {r} /\ \A k \in Calls : Stage(k)' = Stage(k)
      BY <2>1, <2>3 DEF AnswersOf, Stage
    <3>2. Stage(r) # "idle"
      BY <2>1, <2>3 DEF Stage
    <3> QED
      BY <3>1, <3>2
  <2> QED
    BY <2>2, <2>3
<1>3. ASSUME \/ LoopStep \/ NetRequest \/ CloseCoroutineFlag \/ CloseStep \/ UNCHANGED vars
             \/ \E k \in Calls : ClientCall(k) \/ CallStep(k)
             \/ \E k \in Calls, seq \in ChanSeqs : PubByChannel(k, seq)
      PROVE  answered' = answered
  BY <1>3 DEF LoopStep, LoopPublish, LoopReply, SendPanics, LoopHandled, LoopEnd, LoopRequest,
              ReceiveReply, NetRequest, Arrive, CloseCoroutineFlag, CloseStep, vars, ClientCall,
              CallStep, PubSubjMsg, Timeout, DeleteReplyChan, CloseReplyChan, HandlerReply,
              PubByChannel, netVars
<1> QED
  BY <1>a, <1>1, <1>2, <1>3 DEF Next, IInv, TypeOK

(* So every step of the service is a step of RpcCall, or none.             *)
LEMMA RpcStep == IInv /\ IInv' /\ [Next]_vars => [Rpc!RpcNext]_(Rpc!rpcVars)
<1> SUFFICES ASSUME IInv, IInv', [Next]_vars PROVE [Rpc!RpcNext]_(Rpc!rpcVars)
  OBVIOUS
<1> DEFINE stage == [k \in Calls |-> Stage(k)]
<1>1. CASE AnswersOf' = AnswersOf
  <2>1. CASE \A k \in Calls : Stage(k)' = Stage(k)
    <3>1. stage' = stage
      BY <2>1
    <3> QED
      BY <1>1, <3>1 DEF AnswersOf, Rpc!rpcVars
  <2>2. ASSUME NEW k \in Calls, \A j \in Calls \ {k} : Stage(j)' = Stage(j),
               \/ Stage(k) = "idle" /\ Stage(k)' = "open"
               \/ Stage(k) = "open" /\ Stage(k)' = "answered" /\ k \in answered
               \/ Stage(k) = "open" /\ Stage(k)' = "failed"
        PROVE  Rpc!RpcNext
    <3>1. stage' = [stage EXCEPT ![k] = Stage(k)'] /\ stage[k] = Stage(k)
      BY <2>2
    <3>2. Stage(k) = "open" /\ k \in answered => k \in AnswersOf
      BY DEF Stage, AnswersOf
    <3>3. Rpc!Open(k) \/ Rpc!Succeed(k) \/ Rpc!Fail(k)
      BY <1>1, <2>2, <3>1, <3>2 DEF AnswersOf, Rpc!Open, Rpc!Succeed, Rpc!Fail
    <3> QED
      BY <3>3 DEF Rpc!RpcNext
  <2> QED
    BY <2>1, <2>2, StageStep
<1>2. ASSUME NEW r \in Calls, Stage(r) # "idle", AnswersOf' = AnswersOf \cup {r},
             \A k \in Calls : Stage(k)' = Stage(k)
      PROVE  Rpc!RpcNext
  <2>1. stage' = stage /\ stage[r] = Stage(r)
    BY <1>2
  <2>2. Rpc!Answer(r)
    BY <1>2, <2>1 DEF AnswersOf, Rpc!Answer
  <2> QED
    BY <2>2 DEF Rpc!RpcNext
<1> QED
  BY <1>1, <1>2, AnswerStep

(* NatsRpc implements the safety of RpcCall: every call goes from idle to  *)
(* open, and from open to failed or, if its own request was answered, to   *)
(* answered, and never moves again.                                        *)
THEOREM CallsImplementRpc == Spec => Rpc!RpcInit /\ [][Rpc!RpcNext]_(Rpc!rpcVars)
<1>1. Init => Rpc!RpcInit
  BY DEF Init, Rpc!RpcInit, Stage, CallIdle, NoCalls
<1> QED
  BY <1>1, RpcStep, Invariant, PTL DEF Spec
=============================================================================
