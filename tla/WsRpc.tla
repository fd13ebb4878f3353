-------------------------------- MODULE WsRpc --------------------------------
(***************************************************************************)
(* websock.go: request-and-wait calls over one WebSock.                    *)
(* SendRpcWithResponse stores a reply channel of capacity one in sndmap    *)
(* under the request's Chk, which it extends by a number of its own, and   *)
(* waits; RecvRequest, the goroutine that reads the socket, hands over     *)
(* what carries such a Chk and gives everything else to a handler.         *)
(*                                                                         *)
(* A Chk is its number here, 0 when it has none: every caller is taken to  *)
(* give the same Chk, usually the empty one.                               *)
(***************************************************************************)
EXTENDS GoSync, FiniteSets

CONSTANTS Calls,       \* the executions of SendRpcWithResponse
          NoCall,      \* no call
          PeerNumbers, \* the numbers in the Chk of the peer's own requests: none
                       \* for a browser, 1, 2, ... for a peer built on the library
          MaxReplies   \* bound: replies the peer makes to one request

ASSUME WsRpcAssumption == /\ NoCall \notin Calls
                          /\ PeerNumbers \subseteq Nat \ {0}
                          /\ MaxReplies \in Nat \ {0}

VARIABLES up,      \* Ws is not nil
          coSche,  \* co_sche: handlers run in goroutines of their own
          sndid,   \* s_sndid
          sndmap,  \* number -> the call whose reply channel is stored there
          call,    \* the executions of SendRpcWithResponse
          recv,    \* the RecvRequest goroutine
          replies  \* history: the replies read, per call

vars == <<up, coSche, sndid, sndmap, call, recv, replies>>
-----------------------------------------------------------------------------
(* A message read: a reply to the call from, or the peer's own request.    *)
Msg(kind, chk, from) == [kind |-> kind, chk |-> chk, from |-> from]
NoMsg == Msg("none", 0, NoCall)

CallIdle == [pc |-> "idle", id |-> 0, inLoop |-> FALSE, out |-> "none", buf |-> << >>,
             open |-> FALSE, got |-> NoMsg]
Reading == [pc |-> "read", k |-> NoCall, m |-> NoMsg]
Down == [Reading EXCEPT !.pc = "down"]

Init == /\ up \in BOOLEAN /\ coSche \in BOOLEAN
        /\ sndid = 0 /\ sndmap = NoEntries
        /\ call = [k \in Calls |-> CallIdle]
        /\ recv = IF up THEN Reading ELSE Down
        /\ replies = [k \in Calls |-> 0]
-----------------------------------------------------------------------------
Finish(k, out, m) == call' = [call EXCEPT ![k].pc = "delete", ![k].out = out, ![k].got = m]

Begin(k, inLoop) == /\ call[k] = CallIdle
                    /\ call' = [call EXCEPT ![k].pc = "begin", ![k].inLoop = inLoop]

AppCall(k) == Begin(k, FALSE) /\ UNCHANGED <<up, coSche, sndid, sndmap, recv, replies>>

(* Seeded fault (RpcSpec): the number is read without being incremented.   *)
RegisterSameNumber(k) ==
    /\ call[k].pc = "begin"
    /\ sndmap' = MapStore(sndmap, 1, k)
    /\ call' = [call EXCEPT ![k].pc = "send", ![k].id = 1, ![k].open = TRUE]
    /\ UNCHANGED <<up, coSche, sndid, recv, replies>>

(* SendRpcWithResponse: without a socket it is over; otherwise a number, a *)
(* reply channel, and the entry in sndmap, ...                             *)
Register(k) ==
    /\ call[k].pc = "begin"
    /\ \/ /\ ~up
          /\ call' = [call EXCEPT ![k].pc = "done", ![k].out = "notReady"]
          /\ UNCHANGED <<sndid, sndmap>>
       \/ /\ up
          /\ sndid' = sndid + 1
          /\ sndmap' = MapStore(sndmap, sndid + 1, k)
          /\ call' = [call EXCEPT ![k].pc = "send", ![k].id = sndid + 1, ![k].open = TRUE]
    /\ UNCHANGED <<up, coSche, recv, replies>>

(* ... SendRpc, which queues the request or fails, ...                     *)
SendRpc(k) ==
    /\ call[k].pc = "send"
    /\ \/ call' = [call EXCEPT ![k].pc = "wait"]
       \/ Finish(k, "notSent", NoMsg)
    /\ UNCHANGED <<up, coSche, sndid, sndmap, recv, replies>>

(* ... the wait for what the channel holds, or for the timer, ...          *)
TakeReply(k) ==
    /\ call[k].pc = "wait" /\ call[k].buf # << >>
    /\ call' = [call EXCEPT ![k].pc = "delete", ![k].out = "reply",
                            ![k].got = Head(call[k].buf), ![k].buf = << >>]
    /\ UNCHANGED <<up, coSche, sndid, sndmap, recv, replies>>

Timeout(k) ==
    /\ call[k].pc = "wait"
    /\ Finish(k, "timeout", NoMsg)
    /\ UNCHANGED <<up, coSche, sndid, sndmap, recv, replies>>

(* ... and the deferred Delete and close.                                  *)
DeleteReplyChan(k) ==
    /\ call[k].pc = "delete"
    /\ sndmap' = MapDelete(sndmap, call[k].id)
    /\ call' = [call EXCEPT ![k].pc = "close"]
    /\ UNCHANGED <<up, coSche, sndid, recv, replies>>

CloseReplyChan(k) ==
    /\ call[k].pc = "close"
    /\ call' = [call EXCEPT ![k].pc = "done", ![k].open = FALSE]
    /\ UNCHANGED <<up, coSche, sndid, sndmap, recv, replies>>
-----------------------------------------------------------------------------
(* RecvRequest with a message just read.  One whose Chk is in sndmap is a  *)
(* reply; anything else, late replies included, is a request.              *)
Dispatch(m) ==
    recv' = IF m.chk # 0 /\ m.chk \in DOMAIN sndmap
            THEN [pc |-> "send", k |-> sndmap[m.chk], m |-> m]
            ELSE [Reading EXCEPT !.pc = "request"]

(* The peer answers a request that was sent, with its Chk, once or more    *)
(* often and at any time.                                                  *)
RecvReply(k) ==
    /\ recv.pc = "read"
    /\ call[k].id # 0 /\ (call[k].pc = "wait" \/ call[k].out \in {"reply", "timeout"})
    /\ replies[k] < MaxReplies
    /\ replies' = [replies EXCEPT ![k] = @ + 1]
    /\ Dispatch(Msg("rsp", call[k].id, k))
    /\ UNCHANGED <<up, coSche, sndid, sndmap, call>>

RecvPeerRequest ==
    /\ recv.pc = "read"
    /\ \E chk \in PeerNumbers \cup {0} : Dispatch(Msg("req", chk, NoCall))
    /\ UNCHANGED <<up, coSche, sndid, sndmap, call, replies>>

(* Nobody handles a request, or its handler runs here or in a new          *)
(* goroutine and may make a call of its own.                               *)
Handle ==
    /\ recv.pc = "request"
    /\ \/ recv' = Reading /\ UNCHANGED call
       \/ \E k \in Calls :
            /\ Begin(k, ~coSche)
            /\ recv' = IF coSche THEN Reading ELSE [Reading EXCEPT !.pc = "handle", !.k = k]
    /\ UNCHANGED <<up, coSche, sndid, sndmap, replies>>

(* The blocking send to the reply channel ...                              *)
HandOver ==
    /\ recv.pc = "send" /\ call[recv.k].open /\ call[recv.k].buf = << >>
    /\ call' = [call EXCEPT ![recv.k].buf = <<recv.m>>]
    /\ recv' = Reading
    /\ UNCHANGED <<up, coSche, sndid, sndmap, replies>>

(* Seeded fault (TornByLateReply): a reply that does not fit closes the    *)
(* connection at once.                                                     *)
HandOverImpatient ==
    /\ recv.pc = "send"
    /\ call[recv.k].pc # "done" => call[recv.k].buf = << >>
    /\ up' = FALSE /\ recv' = Down
    /\ UNCHANGED <<coSche, sndid, sndmap, call, replies>>

(* ... panics once the call has closed it; only RecvRequest's deferred     *)
(* function recovers, and it closes the socket.                            *)
HandOverPanics ==
    /\ recv.pc = "send" /\ ~call[recv.k].open
    /\ up' = FALSE /\ recv' = Down
    /\ UNCHANGED <<coSche, sndid, sndmap, call, replies>>

HandlerBack ==
    /\ recv.pc = "handle" /\ call[recv.k].pc = "done"
    /\ recv' = Reading
    /\ UNCHANGED <<up, coSche, sndid, sndmap, call, replies>>

(* The connection breaks under the reader; a client dials a new one.       *)
ConnFails == /\ recv.pc = "read"
             /\ up' = FALSE /\ recv' = Down
             /\ UNCHANGED <<coSche, sndid, sndmap, call, replies>>

Redial == /\ recv.pc = "down"
          /\ up' = TRUE /\ recv' = Reading
          /\ UNCHANGED <<coSche, sndid, sndmap, call, replies>>
-----------------------------------------------------------------------------
CallStep(k) == \/ Register(k) \/ SendRpc(k) \/ TakeReply(k) \/ Timeout(k)
               \/ DeleteReplyChan(k) \/ CloseReplyChan(k)

RecvStep == HandOver \/ HandOverPanics \/ Handle \/ HandlerBack

Next == \/ \E k \in Calls : AppCall(k) \/ CallStep(k) \/ RecvReply(k)
        \/ RecvPeerRequest \/ RecvStep \/ ConnFails \/ Redial

(* Goroutines that can move do and armed timers fire; the peer, the        *)
(* network and the application owe nothing.                                *)
Fairness == (\A k \in Calls : WF_vars(CallStep(k))) /\ WF_vars(RecvStep)

Spec == Init /\ [][Next]_vars /\ Fairness
-----------------------------------------------------------------------------
(* A reply tears the connection down only when its call had timed out or   *)
(* had been given another reply: a peer that answers once and in time      *)
(* never loses its connection to a close of the reply channel              *)
(* (websock.go:402,518).                                                   *)
TornByLateReply ==
    [][(recv.pc = "send" /\ recv'.pc = "down")
          => LET k == recv.k IN
             \/ call[k].out = "timeout"
             \/ call[k].out = "reply" /\ replies[k] > 1]_vars

(* Each call implements the abstract request: it ends, with the reply to   *)
(* its own request or with a failure, however late, often or slowly the    *)
(* peer answers and wherever the caller runs.                              *)
Stage(k) == CASE call[k].pc = "idle" -> "idle"
              [] call[k].pc # "idle" /\ call[k].out = "none" -> "open"
              [] call[k].out = "reply" ->
                   IF call[k].got = Msg("rsp", call[k].id, k) THEN "answered" ELSE "misled"
              [] OTHER -> "failed"

Rpc == INSTANCE RpcCall WITH stage <- [k \in Calls |-> Stage(k)],
                             answers <- {k \in Calls : replies[k] > 0}
RpcSpec == Rpc!RpcSpec

(* The comments say that what is looked up in sndmap is a reply that       *)
(* somebody waits for (websock.go:398), in a map from chk.sndid to reply   *)
(* channels (websock.go:32): a call that returns without an error returns  *)
(* a reply, not a request of the peer's.                                   *)
ReplyNotRequest == \A k \in Calls : call[k].out = "reply" => call[k].got.kind = "rsp"
=============================================================================
