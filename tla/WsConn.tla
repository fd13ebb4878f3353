-------------------------------- MODULE WsConn --------------------------------
(***************************************************************************)
(* websock.go: the life of one WebSock.  Its socket pointer Ws is shared,  *)
(* without a lock, by the goroutine that dials (client only), the one that *)
(* reads (RecvRequest, one per socket), the one that sends                 *)
(* (serializedSend) and whoever calls Close.  Every step below reads or    *)
(* writes Ws once.                                                         *)
(*                                                                         *)
(* What a request or a reply contains is abstracted away.                  *)
(***************************************************************************)
EXTENDS Naturals, Sequences

CONSTANTS Socks,   \* the websocket connections, used again once forgotten
          Nil,     \* the nil pointer
          App,     \* an application goroutine that calls Close
          SendLen, \* capacity of Ch (64)
          MaxSend, \* bound: messages sent
          MaxCount \* bound: reconnect counts no further

ASSUME WsConnAssumption ==
    /\ Nil \notin Socks /\ App \notin Socks
    /\ SendLen \in Nat \ {0} /\ MaxSend \in Nat /\ MaxCount \in Nat \ {0, 1}

VARIABLES role,    \* "client" (InitWsClient, StartDial) or "server" (InitWebSock)
          ws,      \* WebSock.Ws
          sock,    \* the state of each connection
          ch,      \* WebSock.Ch
          dialer,  \* the StartDial goroutine
          recv,    \* the RecvRequest goroutines, by the connection they came with
          closing, \* where each caller of Close is in it
          sender,  \* the serializedSend goroutine
          handler, \* a handler's goroutine that panicked; bound: one at a time
          sent,    \* messages given to SendRpc or SendData
          wire,    \* history: the messages written to an open connection
          reconnect, \* WebSock.reconnect: the dials that succeeded
          crashed, \* "no", or what panicked, recovered by nobody: the process has ended
          late     \* history: connections installed after Close began

goVars == <<dialer, recv, closing, sender, handler>>
steady == <<role, sent, wire, reconnect, late>>
vars == <<role, ws, sock, ch, goVars, sent, wire, reconnect, crashed, late>>
-----------------------------------------------------------------------------
Callers == Socks \cup {App}

NotStarted == [pc |-> "off", rd |-> Nil]
Starting(pc) == [pc |-> pc, rd |-> Nil]

Live(r) == recv[r].pc \notin {"off", "ended"}
InRecvRequest(r) == Live(r) /\ recv[r].pc # "leaving"

(* Nobody holds s any more, so that a new connection may be called s.      *)
Forgotten(s) == /\ sock[s] \in {"none", "closed"}
                /\ ws # s
                /\ ~Live(s)
                /\ \A r \in Socks : recv[r].rd # s

Init ==
    /\ role \in {"client", "server"}
    /\ \E s \in Socks :
         /\ ws = IF role = "server" THEN s ELSE Nil
         /\ sock = [x \in Socks |-> IF x = ws THEN "open" ELSE "none"]
         /\ recv = [x \in Socks |-> IF x = ws THEN Starting("opening") ELSE NotStarted]
    /\ ch = [buf |-> << >>, closed |-> FALSE, respClosed |-> FALSE]
    /\ dialer = [pc |-> IF role = "client" THEN "check" ELSE "ended", s |-> Nil]
    /\ closing = [c \in Callers |-> "no"]
    /\ sender = [pc |-> "recv", m |-> 0]
    /\ handler = "no"
    /\ sent = 0 /\ wire = << >> /\ reconnect = 0 /\ crashed = "no" /\ late = {}
-----------------------------------------------------------------------------
(* StartDial: test Ws, dial, install the socket and start its receiver.    *)

(* Seeded fault (OwnsSocket, CrashNeedsClose): a socket that failed is     *)
(* replaced before its receiver has put it away.                           *)
DialCheckBroken ==
    /\ dialer.pc \in {"check", "timer"}
    /\ dialer' = [dialer EXCEPT !.pc = IF ws = Nil \/ sock[ws] # "open"
                                      THEN "dial" ELSE "select"]
    /\ UNCHANGED <<steady, ws, sock, ch, recv, closing, sender, handler, crashed>>

(* At the start and whenever the timer fires.                              *)
DialCheck ==
    /\ dialer.pc \in {"check", "timer"}
    /\ dialer' = [dialer EXCEPT !.pc = IF ws = Nil THEN "dial" ELSE "select"]
    /\ UNCHANGED <<steady, ws, sock, ch, recv, closing, sender, handler, crashed>>

(* The look-up, which the program may replace, may panic too.              *)
DialFails ==
    /\ dialer.pc = "dial"
    /\ \E pc \in {"select", "dead"} : dialer' = [dialer EXCEPT !.pc = pc]
    /\ UNCHANGED <<steady, ws, sock, ch, recv, closing, sender, handler, crashed>>

DialSucceeds ==
    /\ dialer.pc = "dial"
    /\ \E s \in Socks :
         /\ Forgotten(s)
         /\ sock' = [sock EXCEPT ![s] = "open"]
         /\ dialer' = [pc |-> "install", s |-> s]
    /\ UNCHANGED <<steady, ws, ch, recv, closing, sender, handler, crashed>>

Install ==
    /\ dialer.pc = "install"
    /\ ws' = dialer.s
    /\ recv' = [recv EXCEPT ![dialer.s] = Starting("opening")]
    /\ late' = IF ch.closed THEN late \cup {dialer.s} ELSE late \ {dialer.s}
    /\ reconnect' = IF reconnect = MaxCount THEN MaxCount ELSE reconnect + 1
    /\ dialer' = [pc |-> "select", s |-> Nil]
    /\ UNCHANGED <<role, sock, ch, closing, sender, handler, crashed, sent, wire>>

(* With a connection interval_fn runs first, and its panic is recovered    *)
(* outside the loop, which ends StartDial.  A closed signal that is there  *)
(* already wins against the timer that has just been armed.                *)
DialSelect ==
    /\ \/ dialer.pc = "select" /\ ws # Nil /\ dialer' = [dialer EXCEPT !.pc = "dead"]
       \/ dialer.pc = "select" /\ ~ch.closed /\ dialer' = [dialer EXCEPT !.pc = "timer"]
       \/ dialer.pc \in {"select", "timer"} /\ ch.closed /\ dialer' = [dialer EXCEPT !.pc = "ended"]
    /\ UNCHANGED <<steady, ws, sock, ch, recv, closing, sender, handler, crashed>>
-----------------------------------------------------------------------------
(* The end of RecvRequest.  A server's http handler then calls Close.      *)
GotoR(r, pc) == recv' = [recv EXCEPT ![r] = Starting(pc)]

Leave(r) == IF role = "server"
            THEN /\ GotoR(r, "leaving")
                 /\ closing' = [closing EXCEPT ![r] = "start"]
            ELSE /\ GotoR(r, "ended")
                 /\ closing' = [closing EXCEPT ![r] = "no"]

(* A panic past RecvRequest's recover ends the process of a client; in a   *)
(* server net/http recovers it.                                            *)
RecvDies(r, who) == IF role = "server"
                    THEN Leave(r) /\ UNCHANGED crashed
                    ELSE crashed' = who /\ UNCHANGED <<recv, closing>>
-----------------------------------------------------------------------------
(* Close: the channel's two signals, then test, close and clear Ws.        *)

InCloseFn(c) == c # App /\ recv[c].pc = "close_fn"

(* A panic in Close: a handler's is recovered by its caller, an http       *)
(* handler's by net/http, close_fn's by nobody in RecvRequest, another     *)
(* goroutine's by itself, if it is a handler's, or by nobody.              *)
ClosePanics(c) ==
    \/ /\ ~InCloseFn(c)
       /\ closing' = [closing EXCEPT ![c] = "back"]
       /\ UNCHANGED <<recv, crashed>>
    \/ InCloseFn(c) /\ RecvDies(c, "Close")
    \/ c = App /\ crashed' = "Close" /\ UNCHANGED <<recv, closing>>

CloseCall == /\ closing[App] = "no"
             /\ closing' = [closing EXCEPT ![App] = "start"]
             /\ UNCHANGED <<steady, ws, sock, ch, dialer, recv, sender, handler, crashed>>

CloseSignal(c) ==
    /\ closing[c] = "start"
    /\ \/ ch.closed /\ ClosePanics(c) /\ UNCHANGED ch
       \/ /\ ~ch.closed
          /\ ch' = [ch EXCEPT !.closed = TRUE]
          /\ closing' = [closing EXCEPT ![c] = "resp"]
          /\ UNCHANGED <<recv, crashed>>
    /\ UNCHANGED <<steady, ws, sock, dialer, sender, handler>>

CloseResp(c) ==
    /\ closing[c] = "resp"
    /\ ch' = [ch EXCEPT !.respClosed = TRUE]
    /\ closing' = [closing EXCEPT ![c] = "test"]
    /\ UNCHANGED <<steady, ws, sock, dialer, recv, sender, handler, crashed>>

CloseTest(c) ==
    /\ closing[c] = "test"
    /\ closing' = [closing EXCEPT ![c] = IF ws # Nil THEN "shut" ELSE "back"]
    /\ UNCHANGED <<steady, ws, sock, ch, dialer, recv, sender, handler, crashed>>

(* Seeded fault (CloseEndsAll): Ws is cleared without being closed.        *)
CloseForgetsShut(c) ==
    /\ closing[c] = "shut"
    /\ closing' = [closing EXCEPT ![c] = "clear"]
    /\ UNCHANGED <<steady, ws, sock, ch, dialer, recv, sender, handler, crashed>>

CloseShut(c) ==
    /\ closing[c] = "shut"
    /\ \/ ws = Nil /\ ClosePanics(c) /\ UNCHANGED sock
       \/ /\ ws # Nil
          /\ sock' = [sock EXCEPT ![ws] = "closed"]
          /\ closing' = [closing EXCEPT ![c] = "clear"]
          /\ UNCHANGED <<recv, crashed>>
    /\ UNCHANGED <<steady, ws, ch, dialer, sender, handler>>

CloseClear(c) ==
    /\ closing[c] = "clear"
    /\ ws' = Nil
    /\ closing' = [closing EXCEPT ![c] = "back"]
    /\ UNCHANGED <<steady, sock, ch, dialer, recv, sender, handler, crashed>>
-----------------------------------------------------------------------------
(* RecvRequest recovers a panic and logs it: ConnInfo tests Ws, and uses   *)
(* it a step later.                                                        *)
Recovers(r) == GotoR(r, IF ws = Nil THEN "close_fn" ELSE "reinfo")

(* The loop tests Ws and the closed signal.                                *)
Loops(r) == GotoR(r, IF ws = Nil \/ ch.closed THEN "close_fn" ELSE "deref")

(* open_fn runs first, and may panic.  When that of a server's http        *)
(* handler fails or panics, the handler's deferred Close is all that       *)
(* follows.                                                                *)
Opened(r) ==
    /\ recv[r].pc = "opening"
    /\ \/ (Loops(r) \/ Recovers(r)) /\ UNCHANGED closing
       \/ /\ role = "server"
          /\ GotoR(r, "leaving")
          /\ closing' = [closing EXCEPT ![r] = "start"]
    /\ UNCHANGED <<steady, ws, sock, ch, dialer, sender, handler, crashed>>

(* The loop reads from what Ws is then, a nil pointer being a panic, ...   *)
RecvDeref(r) ==
    /\ recv[r].pc = "deref"
    /\ recv' = [recv EXCEPT ![r] = IF ws = Nil THEN Starting("recover")
                                               ELSE [pc |-> "read", rd |-> ws]]
    /\ UNCHANGED <<steady, ws, sock, ch, dialer, closing, sender, handler, crashed>>

(* ... leaves when that fails, after logging an error other than a close,  *)
RecvFails(r) ==
    /\ recv[r].pc = "read"
    /\ sock[recv[r].rd] # "open"
    /\ GotoR(r, "close_fn") \/ (ws # Nil /\ GotoR(r, "info"))
    /\ UNCHANGED <<steady, ws, sock, ch, dialer, closing, sender, handler, crashed>>

RecvMessage(r) ==
    /\ recv[r].pc = "read"
    /\ sock[recv[r].rd] = "open"
    /\ GotoR(r, "handle")
    /\ UNCHANGED <<steady, ws, sock, ch, dialer, closing, sender, handler, crashed>>

(* ... and handles the message, itself or, with co_sche, in a goroutine,   *)
(* which matters when it panics.  A handler may call Close and be back,    *)
(* its panic recovered; a reply that its caller gave up on panics out of   *)
(* the loop.                                                               *)
RecvHandle(r) ==
    /\ recv[r].pc = "handle"
    /\ \/ closing[r] = "no" /\ (Loops(r) \/ Recovers(r)) /\ UNCHANGED <<closing, handler>>
       \/ /\ closing[r] = "no" /\ handler = "no" /\ ws # Nil
          /\ handler' = "info" /\ Loops(r) /\ UNCHANGED closing
       \/ /\ closing[r] = "no"
          /\ closing' = [closing EXCEPT ![r] = "start"] /\ UNCHANGED <<recv, handler>>
       \/ /\ closing[r] = "back"
          /\ closing' = [closing EXCEPT ![r] = "no"] /\ Loops(r) /\ UNCHANGED handler
    /\ UNCHANGED <<steady, ws, sock, ch, dialer, sender, crashed>>

(* A handler's goroutine that panicked logs that, past its recover, with   *)
(* what Ws is now: it was not nil when ConnInfo tested it.                 *)
HandlerInfo ==
    /\ handler = "info"
    /\ \/ ws # Nil /\ handler' = "no" /\ UNCHANGED crashed
       \/ ws = Nil /\ crashed' = "handler" /\ UNCHANGED handler
    /\ UNCHANGED <<steady, ws, sock, ch, dialer, recv, closing, sender>>

(* ConnInfo in the loop uses Ws: a panic when it is nil by now.            *)
RecvInfo(r) ==
    /\ recv[r].pc = "info"
    /\ GotoR(r, IF ws = Nil THEN "recover" ELSE "close_fn")
    /\ UNCHANGED <<steady, ws, sock, ch, dialer, closing, sender, handler, crashed>>

(* The deferred function of RecvRequest: recover and log, ...              *)
DeferRecover(r) ==
    /\ \/ recv[r].pc = "recover" /\ Recovers(r) /\ UNCHANGED <<closing, crashed>>
       \/ recv[r].pc = "reinfo" /\ ws # Nil /\ GotoR(r, "close_fn") /\ UNCHANGED <<closing, crashed>>
       \/ recv[r].pc = "reinfo" /\ ws = Nil /\ RecvDies(r, "RecvRequest")
    /\ UNCHANGED <<steady, ws, sock, ch, dialer, sender, handler>>

(* Seeded fault (OnlyLateLeaks): the socket is never closed.               *)
DeferForgetsShut(r) == IF ws # Nil
                       THEN GotoR(r, "clear") /\ closing' = [closing EXCEPT ![r] = "no"]
                       ELSE Leave(r)

(* ... call close_fn, which may call Close, or panic, past the recover,    *)
(* test Ws, close it, clear it, ...                                        *)
DeferTest(r) == IF ws # Nil
                THEN GotoR(r, "shut") /\ closing' = [closing EXCEPT ![r] = "no"]
                ELSE Leave(r)

DeferCloseFn(r) ==
    /\ recv[r].pc = "close_fn"
    /\ \/ closing[r] \in {"no", "back"} /\ DeferTest(r) /\ UNCHANGED crashed
       \/ closing[r] \in {"no", "back"} /\ RecvDies(r, "close_fn")
       \/ /\ closing[r] = "no" /\ closing' = [closing EXCEPT ![r] = "start"]
          /\ UNCHANGED <<recv, crashed>>
    /\ UNCHANGED <<steady, ws, sock, ch, dialer, sender, handler>>

(* ... though Ws may be nil by now: a panic past the recover.              *)
DeferShut(r) ==
    /\ recv[r].pc = "shut"
    /\ \/ /\ ws # Nil
          /\ sock' = [sock EXCEPT ![ws] = "closed"]
          /\ GotoR(r, "clear")
          /\ UNCHANGED <<closing, crashed>>
       \/ ws = Nil /\ RecvDies(r, "RecvRequest") /\ UNCHANGED sock
    /\ UNCHANGED <<steady, ws, ch, dialer, sender, handler>>

(* Seeded fault (Reconnects): the pointer to the closed socket is kept.    *)
DeferKeepsWs(r) ==
    /\ recv[r].pc = "clear"
    /\ Leave(r)
    /\ UNCHANGED <<steady, ws, sock, ch, dialer, sender, handler, crashed>>

DeferClear(r) ==
    /\ recv[r].pc = "clear"
    /\ ws' = Nil
    /\ Leave(r)
    /\ UNCHANGED <<steady, sock, ch, dialer, sender, handler, crashed>>

Left(r) ==
    /\ recv[r].pc = "leaving" /\ closing[r] = "back"
    /\ closing' = [closing EXCEPT ![r] = "no"]
    /\ GotoR(r, "ended")
    /\ UNCHANGED <<steady, ws, sock, ch, dialer, sender, handler, crashed>>
-----------------------------------------------------------------------------
(* Ch.PushMsg(m): queued, or refused because the queue is full or, from    *)
(* the closed signal on, closed.                                           *)
PushMsg(m) ==
    \/ /\ ~ch.respClosed /\ Len(ch.buf) < SendLen
       /\ ch' = [ch EXCEPT !.buf = Append(@, m)]
    \/ (ch.closed \/ Len(ch.buf) = SendLen) /\ UNCHANGED ch

SendRpc == /\ sent < MaxSend
           /\ sent' = sent + 1
           /\ PushMsg(sent + 1)
           /\ UNCHANGED <<role, ws, sock, goVars, wire, reconnect, crashed, late>>

(* Seeded fault (TypeOK): what a closed channel gives is not told from a   *)
(* message.                                                                *)
SenderRecvNotOk ==
    /\ sender.pc = "recv"
    /\ \/ /\ ch.buf # << >>
          /\ sender' = [pc |-> "check", m |-> Head(ch.buf)]
          /\ ch' = [ch EXCEPT !.buf = Tail(@)]
       \/ ch.buf = << >> /\ ch.respClosed /\ sender' = [pc |-> "check", m |-> 0] /\ UNCHANGED ch
    /\ UNCHANGED <<steady, ws, sock, dialer, recv, closing, handler, crashed>>

(* serializedSend: take a message, test Ws, ...                            *)
SenderRecv ==
    /\ sender.pc = "recv"
    /\ \/ /\ ch.buf # << >>
          /\ sender' = [pc |-> "check", m |-> Head(ch.buf)]
          /\ ch' = [ch EXCEPT !.buf = Tail(@)]
       \/ /\ ch.buf = << >> /\ ch.respClosed
          /\ sender' = [sender EXCEPT !.pc = "ended"]
          /\ UNCHANGED ch
    /\ UNCHANGED <<steady, ws, sock, dialer, recv, closing, handler, crashed>>

SenderCheck ==
    /\ sender.pc = "check"
    /\ sender' = [sender EXCEPT !.pc = IF ws = Nil THEN "wait" ELSE "write"]
    /\ UNCHANGED <<steady, ws, sock, ch, dialer, recv, closing, handler, crashed>>

(* Seeded fault (AtMostOnce): the message put back is sent as well.        *)
SenderNoContinue ==
    /\ sender.pc = "wait"
    /\ PushMsg(sender.m)
    /\ sender' = [sender EXCEPT !.pc = "write"]
    /\ UNCHANGED <<steady, ws, sock, dialer, recv, closing, handler, crashed>>

(* ... without a connection put the message back behind the later ones     *)
(* after a second, ...                                                     *)
SenderWait ==
    /\ sender.pc = "wait"
    /\ PushMsg(sender.m)
    /\ sender' = [pc |-> "recv", m |-> 0]
    /\ UNCHANGED <<steady, ws, sock, dialer, recv, closing, handler, crashed>>

(* ... otherwise write it to what Ws is now, a nil pointer being a panic   *)
(* out of the loop; a write that fails loses the message, ...              *)
SenderWrite ==
    /\ sender.pc = "write"
    /\ sender' = [pc |-> IF ws = Nil THEN "recover"
                         ELSE IF sock[ws] = "open" THEN "recv" ELSE "log", m |-> 0]
    /\ wire' = IF ws # Nil /\ sock[ws] = "open" THEN Append(wire, sender.m) ELSE wire
    /\ UNCHANGED <<role, ws, sock, ch, dialer, recv, closing, handler, crashed, sent, reconnect, late>>

(* ... and is logged: ConnInfo tests Ws, and uses it.                      *)
SenderLog ==
    /\ \/ /\ sender.pc = "log"
          /\ sender' = [sender EXCEPT !.pc = IF ws = Nil THEN "recv" ELSE "info"]
       \/ /\ sender.pc = "info"
          /\ sender' = [sender EXCEPT !.pc = IF ws = Nil THEN "recover" ELSE "recv"]
    /\ UNCHANGED <<steady, ws, sock, ch, dialer, recv, closing, handler, crashed>>

(* A panic ends the sender.  Recovered, it is logged in the same way, with *)
(* nobody to recover the next one.                                         *)
SenderRecover ==
    /\ \/ /\ sender.pc = "recover"
          /\ sender' = [sender EXCEPT !.pc = IF ws = Nil THEN "dead" ELSE "reinfo"]
          /\ UNCHANGED crashed
       \/ /\ sender.pc = "reinfo" /\ ws # Nil
          /\ sender' = [sender EXCEPT !.pc = "dead"] /\ UNCHANGED crashed
       \/ /\ sender.pc = "reinfo" /\ ws = Nil
          /\ crashed' = "serializedSend" /\ UNCHANGED sender
    /\ UNCHANGED <<steady, ws, sock, ch, dialer, recv, closing, handler>>

(* The network or the other side breaks a connection.                      *)
RemoteFails ==
    /\ \E s \in Socks : sock[s] = "open" /\ sock' = [sock EXCEPT ![s] = "broken"]
    /\ UNCHANGED <<steady, ws, ch, dialer, recv, closing, sender, handler, crashed>>
-----------------------------------------------------------------------------
CloseStep(c) == CloseSignal(c) \/ CloseResp(c) \/ CloseTest(c) \/ CloseShut(c) \/ CloseClear(c)

RecvStep(r) == \/ Opened(r) \/ RecvDeref(r) \/ RecvFails(r) \/ RecvHandle(r)
               \/ RecvInfo(r) \/ DeferRecover(r) \/ DeferCloseFn(r) \/ DeferShut(r) \/ DeferClear(r) \/ Left(r)

SenderStep == \/ SenderRecv \/ SenderCheck \/ SenderWait \/ SenderWrite
              \/ SenderLog \/ SenderRecover

DialStep == DialCheck \/ DialFails \/ DialSucceeds \/ Install \/ DialSelect

Running == crashed = "no"

Next == /\ Running
        /\ \/ DialStep \/ SenderStep \/ HandlerInfo \/ SendRpc \/ CloseCall \/ RemoteFails
           \/ \E c \in Callers : CloseStep(c)
           \/ \E r \in Socks : RecvStep(r) \/ RecvMessage(r)

(* Goroutines that can run do; a message need never arrive, nobody need    *)
(* call Close, and the remote side accepts a dial sooner or later.         *)
Fairness ==
    /\ WF_vars(Running /\ DialStep)
    /\ SF_vars(Running /\ DialSucceeds)
    /\ WF_vars(Running /\ SenderStep)
    /\ \A c \in Callers : WF_vars(Running /\ CloseStep(c))
    /\ \A r \in Socks : WF_vars(Running /\ RecvStep(r))

Spec == Init /\ [][Next]_vars /\ Fairness
-----------------------------------------------------------------------------
RecvPC == {"off", "opening", "deref", "read", "info", "handle", "recover", "reinfo",
           "close_fn", "shut", "clear", "leaving", "ended"}

SendPC == {"recv", "check", "wait", "write", "log", "info", "recover", "reinfo", "ended", "dead"}

(* Every variable stays in its type: a receiver only reads a connection    *)
(* that was made, the queue keeps to its capacity, and what the sender     *)
(* holds is a message.                                                     *)
TypeOK ==
    /\ role \in {"client", "server"}
    /\ ws \in Socks \cup {Nil}
    /\ sock \in [Socks -> {"none", "open", "broken", "closed"}]
    /\ ch \in [buf : Seq(1..MaxSend), closed : BOOLEAN, respClosed : BOOLEAN]
    /\ Len(ch.buf) <= SendLen
    /\ dialer \in [pc : {"check", "dial", "install", "select", "timer", "ended", "dead"},
                   s : Socks \cup {Nil}]
    /\ recv \in [Socks -> [pc : RecvPC, rd : Socks \cup {Nil}]]
    /\ closing \in [Callers -> {"no", "start", "resp", "test", "shut", "clear", "back"}]
    /\ sender \in [pc : SendPC, m : 0..MaxSend]
    /\ sender.pc \in {"check", "wait", "write"} => sender.m # 0
    /\ handler \in {"no", "info"}
    /\ reconnect \in 0..MaxCount
    /\ sent \in 0..MaxSend /\ wire \in Seq(1..MaxSend)
    /\ crashed \in {"no", "Close", "RecvRequest", "close_fn", "serializedSend", "handler"}
    /\ late \subseteq Socks

(* Until Close is called, the socket a receiver closes when it leaves is   *)
(* the one it was started for: reconnecting never runs two receivers and   *)
(* no receiver tears down its successor's connection (websock.go:338,141). *)
OwnsSocket == ~ch.closed => \A r \in Socks : InRecvRequest(r) => ws = r

(* The unprotected uses of Ws in Close and in RecvRequest's deferred       *)
(* function (websock.go:241,331,337) end the process only once Close has   *)
(* been called.  That in the sender's deferred function (websock.go:453)   *)
(* needs no Close, but a second dial: Ws has to be cleared, set and        *)
(* cleared again under one message, so a server's sender never does it.    *)
(* A panic of close_fn itself and the recover of a handler that has a      *)
(* goroutine of its own (websock.go:428) are under no such condition.      *)
CrashNeedsClose ==
    /\ crashed \in {"Close", "RecvRequest"} => ch.closed
    /\ crashed = "serializedSend" => role = "client" /\ reconnect >= 2

DialerDone == dialer.pc \in {"ended", "dead"}

Ended == /\ DialerDone
         /\ \A r \in Socks : ~Live(r)
         /\ closing[App] = "back"

(* When the dialer, the receivers and Close are through, every connection  *)
(* has been closed, except one that a dial already under way installed     *)
(* after Close had begun: Close may have cleared the new pointer without   *)
(* closing it (websock.go:243,181).                                        *)
OnlyLateLeaks ==
    Ended => \A s \in Socks : sock[s] \in {"open", "broken"} => s \in late

(* A message put back for want of a connection is written once, however    *)
(* often the connection comes and goes (websock.go:465-470).               *)
AtMostOnce == \A i, j \in 1..Len(wire) : wire[i] = wire[j] => i = j

Connected == ws # Nil /\ sock[ws] = "open"

(* A client whose connection breaks dials a new one: the receiver notices, *)
(* clears Ws, and the dialer finds it cleared (websock.go:339,141).  The   *)
(* new one may break before it is installed, and then it starts over.  A   *)
(* panic of interval_fn or of the look-up ends the dialer for good         *)
(* (websock.go:134).                                                       *)
Reconnects ==
    (role = "client" /\ ~Connected)
        ~> (Connected \/ dialer.pc \in {"install", "dead"} \/ ch.closed \/ ~Running)

(* After Close has begun every goroutine of the WebSock ends: nobody stays *)
(* blocked in a read, a dial or a receive (websock.go:239-243).            *)
CloseEndsAll ==
    ch.closed ~> \/ ~Running
                 \/ /\ DialerDone
                    /\ \A r \in Socks : ~Live(r)
                    /\ sender.pc \in {"ended", "dead"}

(* The header of websock.go says that a client connects on its own and can *)
(* send messages: a connected client that nobody closed still has the      *)
(* goroutine that sends.                                                   *)
ClientCanSend == (role = "client" /\ ~ch.closed /\ Connected) => sender.pc # "dead"
=============================================================================
