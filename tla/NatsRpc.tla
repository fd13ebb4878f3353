------------------------------- MODULE NatsRpc -------------------------------
(***************************************************************************)
(* natssvr.go: request-and-wait calls over NATS.  PubWithResponse enters a *)
(* reply channel in sndmap under a fresh number, pushes the request to the *)
(* service's Channel and waits; the one goroutine in StartService both     *)
(* publishes what is queued there and dispatches what arrives in ch_recv,  *)
(* handing a reply to the waiting call with a blocking send.               *)
(*                                                                         *)
(* Calls are made by clients, or by the handler of an incoming request,    *)
(* which runs in a goroutine of its own or, without co_sche, inside the    *)
(* StartService loop.                                                      *)
(***************************************************************************)
EXTENDS GoSync, FiniteSets

CONSTANTS Calls,        \* the executions of PubWithResponse and PubByChannel
          NoCall,       \* no call
          ChanSeqs,     \* the channel sequences PubByChannel may be given
          LowWatermark, \* nats_low_watermark: channel sequences stay below
          SendLen,      \* capacity of the service's Channel (10240)
          RecvLen,      \* capacity of ch_recv (10240)
          MaxArrivals   \* bound: messages the network delivers

ASSUME NatsAssumption ==
    /\ NoCall \notin Calls
    /\ LowWatermark \in Nat
    /\ ChanSeqs \subseteq Nat \ {0}
    /\ SendLen \in Nat \ {0}
    /\ RecvLen \in Nat \ {0}
    /\ MaxArrivals \in Nat

VARIABLES sndid,     \* the service's send counter
          sndmap,    \* number -> the call whose reply channel is stored there
          call,      \* the executions of PubWithResponse
          sendq,     \* the service's Channel (s.ch)
          recvq,     \* ch_recv
          loop,      \* the StartService goroutine
          coSche,    \* co_sche
          closing,   \* how far Close has got
          wire,      \* who asked -> the number of the request, once published
          answered,  \* the requesters some answer was delivered for
          arrivals   \* messages the network has delivered

netVars == <<wire, answered, arrivals>>
svcVars == <<coSche, closing>>
vars == <<sndid, sndmap, call, sendq, recvq, loop, svcVars, netVars>>
-----------------------------------------------------------------------------
(* A queued message: a request numbered cid and made by the call from (the *)
(* number is all that travels, from is history), or a handler's reply.     *)
Request(cid, from) == [kind |-> "req", cid |-> cid, from |-> from]
Reply == [kind |-> "rsp", cid |-> 0, from |-> NoCall]

CallIdle == [pc |-> "idle", id |-> 0, by |-> "none", out |-> "none", ans |-> NoCall,
             open |-> FALSE]
CallPC == {"idle", "publish", "wait", "delete", "close", "reply", "done"}
Errors == {"noService", "closed", "full", "timeout"}

Goto(k, pc) == call' = [call EXCEPT ![k].pc = pc]

(* Seeded fault: a failed call skips the deferred Delete.                  *)
FinishWithoutDelete(k, out, ans) ==
    call' = [call EXCEPT ![k].pc = IF out = "reply" THEN "delete" ELSE "close",
                         ![k].out = out, ![k].ans = ans]

(* The deferred Delete and close follow whatever ended the call.           *)
Finish(k, out, ans) == call' = [call EXCEPT ![k].pc = "delete", ![k].out = out,
                                            ![k].ans = ans]
-----------------------------------------------------------------------------
Init == /\ sndid = LowWatermark
        /\ sndmap = NoEntries
        /\ call = [k \in Calls |-> CallIdle]
        /\ sendq = [buf |-> << >>, closed |-> FALSE, respClosed |-> FALSE]
        /\ recvq = [buf |-> << >>, closed |-> FALSE]
        /\ loop = [pc |-> "select", k |-> NoCall, ans |-> NoCall]
        /\ coSche = TRUE
        /\ closing = "open"
        /\ wire = NoEntries
        /\ answered = {}
        /\ arrivals = 0
-----------------------------------------------------------------------------
(* Channel.PushMsg on the service's Channel (module Channel).              *)
HasRoom == ~sendq.respClosed /\ Len(sendq.buf) < SendLen

PushMsg(m, res) ==
    \/ HasRoom /\ res = "nil" /\ sendq' = [sendq EXCEPT !.buf = Append(@, m)]
    \/ /\ \/ sendq.respClosed /\ res = "nil"
          \/ sendq.closed /\ res = "closed"
          \/ ~HasRoom /\ ~sendq.closed /\ res = "full"
       /\ UNCHANGED sendq
-----------------------------------------------------------------------------
(* Seeded fault: the number is read without being incremented.             *)
BeginSameNumber(k, by) ==
    /\ call[k] = CallIdle
    /\ UNCHANGED sndid
    /\ sndmap' = MapStore(sndmap, sndid + 1, k)
    /\ call' = [call EXCEPT ![k] = [CallIdle EXCEPT !.pc = "publish", !.id = sndid + 1,
                                                    !.by = by, !.open = TRUE]]

(* PubWithResponse: a new number and an unbuffered reply channel, stored   *)
(* under that number (which nobody else knows before it is published), ... *)
Begin(k, by) ==
    /\ call[k] = CallIdle
    /\ sndid' = sndid + 1
    /\ sndmap' = MapStore(sndmap, sndid + 1, k)
    /\ call' = [call EXCEPT ![k] = [CallIdle EXCEPT !.pc = "publish", !.id = sndid + 1,
                                                    !.by = by, !.open = TRUE]]

ClientCall(k) ==
    /\ Begin(k, "client")
    /\ UNCHANGED <<sendq, recvq, loop, svcVars, netVars>>

(* ... PubSubjMsg, which first asks the list of services, replaced every   *)
(* second by the monitor (at each read it may or may not have the          *)
(* subject), and then pushes the request, ...                              *)
PubSubjMsg(k) ==
    /\ call[k].pc = "publish"
    /\ \/ Finish(k, "noService", NoCall) /\ UNCHANGED sendq
       \/ \E res \in {"nil", "closed", "full"} :
             /\ PushMsg(Request(call[k].id, k), res)
             /\ IF res = "nil" THEN Goto(k, "wait") ELSE Finish(k, res, NoCall)
    /\ UNCHANGED <<sndid, sndmap, recvq, loop, svcVars, netVars>>

(* Seeded fault: the timer is disarmed once the request is published.      *)
TimeoutDisarmed(k) ==
    /\ call[k].pc = "wait"
    /\ k \notin DOMAIN wire
    /\ Finish(k, "timeout", NoCall)
    /\ UNCHANGED <<sndid, sndmap, sendq, recvq, loop, svcVars, netVars>>

(* ... and the wait for the reply (ReceiveReply below) or the timer.       *)
Timeout(k) ==
    /\ call[k].pc = "wait"
    /\ Finish(k, "timeout", NoCall)
    /\ UNCHANGED <<sndid, sndmap, sendq, recvq, loop, svcVars, netVars>>

DeleteReplyChan(k) ==
    /\ call[k].pc = "delete"
    /\ sndmap' = MapDelete(sndmap, call[k].id)
    /\ Goto(k, "close")
    /\ UNCHANGED <<sndid, sendq, recvq, loop, svcVars, netVars>>

(* Seeded fault: the reply channel is not closed.                          *)
CloseReplyChanForgotten(k) ==
    /\ call[k].pc = "close"
    /\ Goto(k, IF call[k].by = "client" THEN "done" ELSE "reply")
    /\ UNCHANGED <<sndid, sndmap, sendq, recvq, loop, svcVars, netVars>>

CloseReplyChan(k) ==
    /\ call[k].pc = "close"
    /\ call' = [call EXCEPT ![k].open = FALSE,
                            ![k].pc = IF call[k].by = "client" THEN "done" ELSE "reply"]
    /\ UNCHANGED <<sndid, sndmap, sendq, recvq, loop, svcVars, netVars>>

(* A handler ends with the reply to its request, another message or none;  *)
(* the error is only logged.                                               *)
HandlerReply(k) ==
    /\ call[k].pc = "reply"
    /\ \/ \E res \in {"nil", "closed", "full"} : PushMsg(Reply, res)
       \/ UNCHANGED sendq
    /\ Goto(k, "done")
    /\ UNCHANGED <<sndid, sndmap, recvq, loop, svcVars, netVars>>

(* PubByChannel: a request whose reply goes to rspChanHandler.  Sequences  *)
(* from the watermark on are refused; no service, and nothing is pushed.   *)
PubByChannel(k, seq) ==
    /\ call[k] = CallIdle
    /\ seq < LowWatermark
    /\ \/ \E res \in {"nil", "closed", "full"} : PushMsg(Request(seq, k), res)
       \/ UNCHANGED sendq
    /\ call' = [call EXCEPT ![k].pc = "done", ![k].by = "channel", ![k].id = seq]
    /\ UNCHANGED <<sndid, sndmap, recvq, loop, svcVars, netVars>>
-----------------------------------------------------------------------------
(* StartService: publish what was pushed.  Publish may fail: the message   *)
(* is dropped with a log line.                                             *)
LoopPublish ==
    /\ loop.pc = "select"
    /\ sendq.buf # << >>
    /\ sendq' = [sendq EXCEPT !.buf = Tail(@)]
    /\ LET m == Head(sendq.buf) IN
       \/ UNCHANGED wire
       \/ /\ closing = "open"
          /\ wire' = IF m.kind = "req" THEN MapStore(wire, m.from, m.cid)
                                       ELSE wire
    /\ UNCHANGED <<sndid, sndmap, call, recvq, loop, svcVars, answered, arrivals>>

(* Seeded fault: a number not found in sndmap is sent to all the same.     *)
LoopReplyUnchecked ==
    LET m == Head(recvq.buf) IN
    /\ loop.pc = "select"
    /\ recvq.buf # << >>
    /\ m.kind = "rsp"
    /\ recvq' = [recvq EXCEPT !.buf = Tail(@)]
    /\ loop' = [pc |-> "send", ans |-> m.from,
                k |-> IF m.cid \in DOMAIN sndmap THEN sndmap[m.cid] ELSE NoCall]
    /\ UNCHANGED <<sndid, sndmap, call, sendq, svcVars, netVars>>

(* A reply: natsHandler looks its number up in sndmap.                     *)
LoopReply ==
    LET m == Head(recvq.buf) IN
    /\ loop.pc = "select"
    /\ recvq.buf # << >>
    /\ m.kind = "rsp" /\ m.cid > LowWatermark
    /\ recvq' = [recvq EXCEPT !.buf = Tail(@)]
    /\ loop' = IF m.cid \in DOMAIN sndmap
               THEN [pc |-> "send", k |-> sndmap[m.cid], ans |-> m.from]
               ELSE loop
    /\ UNCHANGED <<sndid, sndmap, call, sendq, svcVars, netVars>>

(* The blocking send on the reply channel: it meets the waiting call, or   *)
(* panics once the call has closed the channel (natsHandler recovers).     *)
Ready == [pc |-> "select", k |-> NoCall, ans |-> NoCall]

ReceiveReply(k) ==
    /\ loop.pc = "send" /\ loop.k = k
    /\ call[k].pc = "wait"
    /\ Finish(k, "reply", loop.ans)
    /\ loop' = Ready
    /\ UNCHANGED <<sndid, sndmap, sendq, recvq, svcVars, netVars>>

SendPanics ==
    /\ loop.pc = "send"
    /\ ~call[loop.k].open
    /\ loop' = Ready
    /\ UNCHANGED <<sndid, sndmap, call, sendq, recvq, svcVars, netVars>>

(* Seeded fault: without co_sche the loop does not wait for the handler.   *)
LoopRequestDetached(k) ==
    /\ loop.pc = "select"
    /\ recvq.buf # << >>
    /\ Head(recvq.buf).kind = "req"
    /\ recvq' = [recvq EXCEPT !.buf = Tail(@)]
    /\ Begin(k, IF coSche THEN "handler" ELSE "loop")
    /\ UNCHANGED <<sendq, loop, svcVars, netVars>>

(* A handler that makes no call: only its reply or other message is left.  *)
AnswerOnly(k) ==
    /\ call[k] = CallIdle
    /\ call' = [call EXCEPT ![k].pc = "reply", ![k].by = "answer"]
    /\ UNCHANGED <<sndid, sndmap>>

(* An incoming request or event runs its handler, and a reply to a channel *)
(* sequence, which is up to the watermark, rspChanHandler: in a goroutine  *)
(* of its own or here, with the loop waiting for it.  A handler may make a *)
(* call of its own or send something; else it changes nothing here.        *)
LoopRequest(k) ==
    /\ loop.pc = "select"
    /\ recvq.buf # << >>
    /\ Head(recvq.buf).kind = "req" \/ Head(recvq.buf).cid =< LowWatermark
    /\ recvq' = [recvq EXCEPT !.buf = Tail(@)]
    /\ \/ /\ Begin(k, IF coSche THEN "handler" ELSE "loop") \/ AnswerOnly(k)
          /\ loop' = IF coSche THEN loop ELSE [loop EXCEPT !.pc = "handle", !.k = k]
       \/ UNCHANGED <<sndid, sndmap, call, loop>>
    /\ UNCHANGED <<sendq, svcVars, netVars>>

LoopHandled ==
    /\ loop.pc = "handle"
    /\ call[loop.k].pc = "done"
    /\ loop' = Ready
    /\ UNCHANGED <<sndid, sndmap, call, sendq, recvq, svcVars, netVars>>

(* Either queue closed and drained ends the loop.                          *)
LoopEnd ==
    /\ loop.pc = "select"
    /\ \/ sendq.respClosed /\ sendq.buf = << >>
       \/ recvq.closed /\ recvq.buf = << >>
    /\ loop' = [loop EXCEPT !.pc = "ended"]
    /\ UNCHANGED <<sndid, sndmap, call, sendq, recvq, svcVars, netVars>>
-----------------------------------------------------------------------------
(* The network: an answer to a published request, late, repeated or never, *)
(* and requests for this service.  A full ch_recv loses the message.       *)
Arrive(m) ==
    /\ closing = "open"
    /\ Len(recvq.buf) < RecvLen
    /\ arrivals < MaxArrivals
    /\ arrivals' = arrivals + 1
    /\ recvq' = [recvq EXCEPT !.buf = Append(@, m)]
    /\ UNCHANGED <<sndid, sndmap, call, sendq, loop, svcVars, wire>>

NetAnswer(r) ==
    /\ Arrive([kind |-> "rsp", cid |-> wire[r], from |-> r])
    /\ answered' = answered \cup {r}

NetRequest ==
    /\ Arrive([kind |-> "req", cid |-> 0, from |-> NoCall])
    /\ UNCHANGED answered

CloseCoroutineFlag ==
    /\ coSche' = FALSE
    /\ UNCHANGED <<sndid, sndmap, call, sendq, recvq, loop, closing, netVars>>

(* Close: the connection, the two Go channels of s.ch, then ch_recv.       *)
CloseStep ==
    /\ \/ closing = "open" /\ closing' = "conn" /\ UNCHANGED <<sendq, recvq>>
       \/ /\ closing = "conn" /\ closing' = "signal"
          /\ sendq' = [sendq EXCEPT !.closed = TRUE] /\ UNCHANGED recvq
       \/ /\ closing = "signal" /\ closing' = "sendq"
          /\ sendq' = [sendq EXCEPT !.respClosed = TRUE] /\ UNCHANGED recvq
       \/ /\ closing = "sendq" /\ closing' = "done"
          /\ recvq' = [recvq EXCEPT !.closed = TRUE] /\ UNCHANGED sendq
    /\ UNCHANGED <<sndid, sndmap, call, loop, coSche, netVars>>
-----------------------------------------------------------------------------
CallStep(k) ==
    \/ PubSubjMsg(k)
    \/ Timeout(k) \/ DeleteReplyChan(k) \/ CloseReplyChan(k) \/ HandlerReply(k)

LoopStep ==
    \/ LoopPublish \/ LoopReply \/ SendPanics \/ LoopHandled \/ LoopEnd
    \/ \E k \in Calls : LoopRequest(k) \/ ReceiveReply(k)

Next ==
    \/ \E k \in Calls : ClientCall(k) \/ CallStep(k)
    \/ \E k \in Calls, seq \in ChanSeqs : PubByChannel(k, seq)
    \/ LoopStep
    \/ \E r \in DOMAIN wire : NetAnswer(r)
    \/ NetRequest \/ CloseCoroutineFlag \/ CloseStep

(* Goroutines that can move do, and an armed timer fires; neither the      *)
(* network nor the users of the service owe anything.                      *)
Fairness == /\ \A k \in Calls : WF_vars(CallStep(k))
            /\ WF_vars(LoopStep)

Spec == Init /\ [][Next]_vars /\ Fairness
-----------------------------------------------------------------------------
Requesters == Calls \cup {NoCall}
QueuedMsg == [kind : {"req", "rsp"}, cid : Nat, from : Requesters]
CallState == [pc : CallPC, id : Nat, open : BOOLEAN,
              by : {"none", "client", "channel", "answer", "handler", "loop"},
              out : {"none", "reply"} \cup Errors, ans : Requesters]

(* Every variable has its type.                                            *)
TypeOK ==
    /\ sndid \in Nat
    /\ DOMAIN sndmap \subseteq Nat
    /\ \A i \in DOMAIN sndmap : sndmap[i] \in Calls
    /\ call \in [Calls -> CallState]
    /\ sendq \in [buf : Seq(QueuedMsg), closed : BOOLEAN, respClosed : BOOLEAN]
    /\ recvq \in [buf : Seq(QueuedMsg), closed : BOOLEAN]
    /\ loop \in [pc : {"select", "send", "handle", "ended"},
                 k : Calls \cup {NoCall}, ans : Requesters]
    /\ loop.pc \in {"send", "handle"} => loop.k \in Calls
    /\ coSche \in BOOLEAN
    /\ closing \in {"open", "conn", "signal", "sendq", "done"}
    /\ DOMAIN wire \subseteq Calls
    /\ \A r \in DOMAIN wire : wire[r] \in Nat
    /\ answered \subseteq DOMAIN wire
    /\ arrivals \in Nat

(* A call that returns a reply returns the reply to its own request, with  *)
(* late and repeated replies, other calls and channel requests around it.  *)
OwnReply == \A k \in Calls : call[k].out = "reply" => call[k].ans = k

(* sndmap holds exactly the calls between their Store and their Delete, so *)
(* a returned call leaves nothing behind, on every path out of it.         *)
NothingLeaked ==
    /\ \A i \in DOMAIN sndmap : call[sndmap[i]].id = i
    /\ \A k \in Calls : (call[k].id \in DOMAIN sndmap)
          <=> call[k].pc \in {"publish", "wait", "delete"}

(* Without co_sche a handler that makes a call inside the loop never gets  *)
(* its reply: the loop that would hand it over waits for the handler       *)
(* (natssvr.go:333).                                                       *)
NestedSyncNeverAnswered ==
    \A k \in Calls : call[k].by = "loop" => call[k].out # "reply"

(* The loop's blocking send always ends, by meeting the call or by the     *)
(* panic, and so does a handler run in the loop: publishing resumes.       *)
LoopResumes == loop.pc \in {"send", "handle"} ~> loop.pc \in {"select", "ended"}

(* Each call implements the abstract request; what is none stays idle.     *)
NoCalls == {"none", "channel", "answer"}

Stage(k) ==
    CASE call[k].by \in NoCalls -> "idle"
      [] call[k].by \notin NoCalls /\ call[k].out = "none" -> "open"
      [] call[k].out = "reply" -> IF call[k].ans = k THEN "answered" ELSE "misled"
      [] OTHER -> "failed"

Rpc == INSTANCE RpcCall WITH
          stage <- [k \in Calls |-> Stage(k)],
          answers <- {k \in answered : call[k].by \notin NoCalls}

RpcSpec == Rpc!RpcSpec
=============================================================================
