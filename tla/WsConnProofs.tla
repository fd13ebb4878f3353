----------------------------- MODULE WsConnProofs -----------------------------
(***************************************************************************)
(* Theorems about WsConn, for any number of connections and messages and   *)
(* any capacity of the queue.  The inductive invariant says who may still  *)
(* touch the socket pointer: until Close has signalled, only the dialer,   *)
(* when it is nil, and then the receiver of the socket it points to; from  *)
(* then on, whoever clears it has closed what it holds, or what it holds   *)
(* was installed late.                                                     *)
(***************************************************************************)
EXTENDS WsConn, SequenceTheorems, TLAPS

DialPC == {"check", "dial", "install", "select", "timer", "ended", "dead"}
ClosePC == {"no", "start", "resp", "test", "shut", "clear", "back"}
Crashes == {"no", "Close", "RecvRequest", "close_fn", "serializedSend", "handler"}

SockTypes ==
    /\ role \in {"client", "server"} /\ ws \in Socks \cup {Nil}
    /\ sock \in [Socks -> {"none", "open", "broken", "closed"}]
    /\ dialer \in [pc : DialPC, s : Socks \cup {Nil}]
    /\ recv \in [Socks -> [pc : RecvPC, rd : Socks \cup {Nil}]]
    /\ closing \in [Callers -> ClosePC]
    /\ handler \in {"no", "info"} /\ reconnect \in 0..MaxCount
    /\ crashed \in Crashes /\ late \subseteq Socks

MsgTypes ==
    /\ ch \in [buf : Seq(1..MaxSend), closed : BOOLEAN, respClosed : BOOLEAN]
    /\ Len(ch.buf) <= SendLen
    /\ sender \in [pc : SendPC, m : 0..MaxSend]
    /\ sender.pc \in {"check", "wait", "write"} => sender.m # 0
    /\ sent \in 0..MaxSend /\ wire \in Seq(1..MaxSend)

(* What a dialer that has connected and a receiver that reads hold.        *)
HandsOK ==
    /\ dialer.pc = "install" => dialer.s \in Socks /\ ~Live(dialer.s)
    /\ \A r \in Socks : recv[r].pc = "read" => recv[r].rd \in Socks

(* A dial finds Ws nil and nobody else installs.                           *)
DialsNil == dialer.pc \in {"dial", "install"} => ws = Nil

(* A Close past its start has signalled; one called by a receiver holds    *)
(* that receiver up.                                                       *)
ClosersOK ==
    /\ \A c \in Callers : closing[c] \notin {"no", "start"} => ch.closed
    /\ \A r \in Socks : closing[r] # "no" => recv[r].pc \in {"handle", "close_fn", "leaving"}

(* The connection that Ws points to is gone, or it came too late.          *)
GoneOrLate == ws = Nil \/ ws \in late \/ sock[ws] = "closed"

(* Who is about to clear Ws does not lose a connection by it, except a     *)
(* late one, ...                                                           *)
ClearsShut == (\/ \E c \in Callers : closing[c] = "clear"
               \/ \E r \in Socks : recv[r].pc = "clear") => GoneOrLate

(* ... so a connection that is not late is in Ws or in the dialer's hands, *)
Kept == \A s \in Socks \ late :
            sock[s] \in {"open", "broken"} => ws = s \/ (dialer.pc = "install" /\ dialer.s = s)

(* and a Close that has signalled gets to it.                              *)
Pending == ch.closed => GoneOrLate \/ \E c \in Callers : closing[c] \in {"resp", "test", "shut"}

(* Close and RecvRequest end the process only after the closed signal.     *)
CrashOK == crashed \in {"Close", "RecvRequest"} => ch.closed

SockInv == HandsOK /\ DialsNil /\ ClosersOK /\ OwnsSocket /\ CrashOK
             /\ ClearsShut /\ Kept /\ Pending

(* Every message is in one place: queued, in the sender's hands or on the  *)
(* wire.                                                                   *)
Held == IF sender.pc \in {"check", "wait", "write"} THEN {sender.m} ELSE {}

Apart(q, w, held, n) ==
    /\ \A i \in 1..Len(q) : q[i] \in 1..n /\ q[i] \notin held
    /\ \A i \in 1..Len(w) : w[i] \in 1..n /\ w[i] \notin held
    /\ held \subseteq 1..n
    /\ \A i, j \in 1..Len(q) : q[i] = q[j] => i = j
    /\ \A i, j \in 1..Len(w) : w[i] = w[j] => i = j
    /\ \A i \in 1..Len(q), j \in 1..Len(w) : q[i] # w[j]

MsgInv == Apart(ch.buf, wire, Held, sent)

(* How often Ws has been set: a sender that finds it nil after it was not, *)
(* and then not nil again, has seen it set twice.                          *)
Dials == IF role = "server" THEN 1 ELSE reconnect

SeenTwice ==
    /\ role = "server" => dialer.pc = "ended"
    /\ ws # Nil => Dials >= 1
    /\ sender.pc \in {"write", "log", "info"} => Dials >= 1
    /\ sender.pc = "recover" => Dials >= 2 \/ (Dials = 1 /\ ws = Nil)
    /\ sender.pc = "reinfo" \/ crashed = "serializedSend" => Dials >= 2

IInv == TypeOK /\ SockInv /\ MsgInv /\ SeenTwice
-----------------------------------------------------------------------------
RecvType == [pc : RecvPC, rd : Socks \cup {Nil}]

(* A receiver moves on.                                                    *)
LEMMA Goto ==
    ASSUME TypeOK, NEW r \in Socks, NEW pc \in RecvPC, GotoR(r, pc)
    PROVE  /\ recv' \in [Socks -> RecvType] /\ recv'[r].pc = pc
           /\ \A x \in Socks \ {r} : recv'[x] = recv[x]
  BY DEF TypeOK, GotoR, Starting, RecvType

(* A goroutine in Close moves on.                                          *)
LEMMA CloserAt ==
    ASSUME TypeOK, NEW c \in Callers, NEW pc \in ClosePC, closing' = [closing EXCEPT ![c] = pc]
    PROVE  /\ closing' \in [Callers -> ClosePC] /\ closing'[c] = pc
           /\ \A x \in Callers \ {c} : closing'[x] = closing[x]
  BY DEF TypeOK, ClosePC

(* The queue takes a message at its end, or refuses it.                    *)
LEMMA Pushed ==
    ASSUME TypeOK, NEW m \in 1..MaxSend, PushMsg(m)
    PROVE  /\ ch' \in [buf : Seq(1..MaxSend), closed : BOOLEAN, respClosed : BOOLEAN]
           /\ Len(ch'.buf) <= SendLen /\ ch'.closed = ch.closed
           /\ ch'.buf = ch.buf \/ ch'.buf = Append(ch.buf, m)
<1>1. CASE UNCHANGED ch
  BY <1>1 DEF TypeOK
<1>2. CASE Len(ch.buf) < SendLen /\ ch' = [ch EXCEPT !.buf = Append(@, m)]
  <2>1. ch.buf \in Seq(1..MaxSend) /\ Append(ch.buf, m) \in Seq(1..MaxSend)
    BY AppendProperties DEF TypeOK
  <2>2. Len(Append(ch.buf, m)) = Len(ch.buf) + 1 /\ Len(ch.buf) \in Nat
    BY <2>1, AppendProperties, LenProperties
  <2>3. ch'.buf = Append(ch.buf, m) /\ ch'.closed = ch.closed /\ ch'.respClosed = ch.respClosed
    BY <1>2 DEF TypeOK
  <2>4. ch' \in [buf : Seq(1..MaxSend), closed : BOOLEAN, respClosed : BOOLEAN]
    BY <1>2, <2>1 DEF TypeOK
  <2>5. Len(ch.buf) + 1 <= SendLen
    BY <1>2, <2>2, WsConnAssumption
  <2> QED
    BY <2>2, <2>3, <2>4, <2>5
<1> QED
  BY <1>1, <1>2 DEF PushMsg

(* The sender takes the first message of the queue.                        *)
LEMMA Taken ==
    ASSUME TypeOK, ch.buf # << >>, ch' = [ch EXCEPT !.buf = Tail(@)]
    PROVE  /\ ch' \in [buf : Seq(1..MaxSend), closed : BOOLEAN, respClosed : BOOLEAN]
           /\ ch'.closed = ch.closed /\ ch'.buf = Tail(ch.buf)
           /\ Head(ch.buf) = ch.buf[1] /\ Head(ch.buf) \in 1..MaxSend
           /\ Len(ch'.buf) = Len(ch.buf) - 1 /\ Len(ch.buf) \in Nat \ {0}
           /\ \A i \in 1..Len(ch'.buf) : ch'.buf[i] = ch.buf[i + 1]
<1>1. ch.buf \in Seq(1..MaxSend)
  BY DEF TypeOK
<1>2. /\ Head(ch.buf) \in 1..MaxSend /\ Tail(ch.buf) \in Seq(1..MaxSend)
      /\ Len(Tail(ch.buf)) = Len(ch.buf) - 1
      /\ \A i \in 1..Len(Tail(ch.buf)) : Tail(ch.buf)[i] = ch.buf[i + 1]
  BY <1>1, HeadTailProperties
<1>3. Len(ch.buf) \in Nat /\ Len(ch.buf) # 0 /\ Head(ch.buf) = ch.buf[1]
  BY <1>1, EmptySeq, LenProperties, HeadTailProperties
<1>4. ch'.buf = Tail(ch.buf) /\ ch'.closed = ch.closed
  BY DEF TypeOK
<1>5. ch' \in [buf : Seq(1..MaxSend), closed : BOOLEAN, respClosed : BOOLEAN]
  BY <1>2 DEF TypeOK
<1> QED
  BY <1>2, <1>3, <1>4, <1>5
-----------------------------------------------------------------------------
(* What each group of actions leaves alone.                                *)
SockVars == <<role, ws, sock, ch.closed, dialer, recv, closing, handler, reconnect, late>>
MsgVars == <<ch.buf, sender, sent, wire>>

SockStep == \/ DialStep \/ HandlerInfo \/ CloseCall \/ RemoteFails
            \/ \E c \in Callers : CloseStep(c)
            \/ \E r \in Socks : RecvStep(r) \/ RecvMessage(r)

(* The messages and the connections are handled apart, the closed signal   *)
(* being all that they share.                                              *)
LEMMA TwoHalves ==
    ASSUME TypeOK, Next
    PROVE  \/ /\ SenderStep \/ SendRpc
              /\ UNCHANGED SockVars /\ crashed' \in {crashed, "serializedSend"}
           \/ SockStep /\ UNCHANGED MsgVars
<1>1. CASE SenderStep
  <2>1. /\ UNCHANGED <<role, ws, sock, dialer, recv, closing, handler, reconnect, late>>
        /\ crashed' \in {crashed, "serializedSend"}
    BY <1>1 DEF SenderStep, SenderRecv, SenderCheck, SenderWait, SenderWrite, SenderLog,
       SenderRecover, steady
  <2>2. CASE SenderRecv
    <3>1. UNCHANGED ch \/ (ch.buf # << >> /\ ch' = [ch EXCEPT !.buf = Tail(@)])
      BY <2>2 DEF SenderRecv, steady
    <3>2. ch'.closed = ch.closed
      BY <3>1, Taken
    <3> QED
      BY <1>1, <2>1, <3>2 DEF SockVars
  <2>3. CASE SenderWait
    <3>1. PushMsg(sender.m)
      BY <2>3 DEF SenderWait, steady
    <3>2. ch'.closed = ch.closed
      BY <3>1 DEF PushMsg, TypeOK
    <3> QED
      BY <1>1, <2>1, <3>2 DEF SockVars
  <2> QED
    BY <1>1, <2>1, <2>2, <2>3 DEF SenderStep, SenderCheck, SenderWrite, SenderLog, SenderRecover,
       SockVars, steady
<1>2. CASE SendRpc
  <2>1. ch'.closed = ch.closed
    BY <1>2 DEF SendRpc, PushMsg, TypeOK, steady
  <2> QED
    BY <1>2, <2>1 DEF SendRpc, SockVars, goVars, steady
<1>3. ASSUME DialStep \/ HandlerInfo \/ CloseCall \/ RemoteFails PROVE UNCHANGED MsgVars
  BY <1>3 DEF DialStep, DialCheck, DialFails, DialSucceeds, Install, DialSelect, HandlerInfo,
     CloseCall, RemoteFails, MsgVars, goVars, steady
<1>4. ASSUME NEW c \in Callers, CloseStep(c) PROVE UNCHANGED MsgVars
  <2>1. UNCHANGED <<sender, sent, wire>>
    BY <1>4 DEF CloseStep, CloseSignal, CloseResp, CloseTest, CloseShut, CloseClear, steady
  <2>2. ch'.buf = ch.buf
    BY <1>4 DEF CloseStep, CloseSignal, CloseResp, CloseTest, CloseShut, CloseClear, TypeOK, steady
  <2> QED
    BY <2>1, <2>2 DEF MsgVars
<1>5. ASSUME NEW r \in Socks, RecvStep(r) \/ RecvMessage(r) PROVE UNCHANGED MsgVars
  BY <1>5 DEF RecvStep, RecvMessage, Opened, RecvDeref, RecvFails, RecvHandle,
     RecvInfo, DeferRecover, DeferCloseFn, DeferShut, DeferClear, Left, MsgVars, steady
<1> QED
  BY <1>1, <1>2, <1>3, <1>4, <1>5 DEF Next, SockStep
-----------------------------------------------------------------------------
(* The messages.                                                           *)
(* The sender and the callers of SendRpc keep the types.                   *)
LEMMA MsgTypesStep ==
    ASSUME IInv, SenderStep \/ SendRpc
    PROVE  MsgTypes'
<1>0. /\ TypeOK /\ sender \in [pc : SendPC, m : 0..MaxSend]
      /\ ch \in [buf : Seq(1..MaxSend), closed : BOOLEAN, respClosed : BOOLEAN]
      /\ Len(ch.buf) <= SendLen /\ sent \in 0..MaxSend /\ wire \in Seq(1..MaxSend)
      /\ MaxSend \in Nat /\ (sender.pc \in {"check", "wait", "write"} => sender.m # 0)
  BY WsConnAssumption DEF IInv, TypeOK, SendPC
<1>1. sender.pc \in {"check", "wait", "write"} => sender.m \in 1..MaxSend
  BY <1>0 DEF IInv, MsgInv, Apart, Held
<1>2. CASE SenderRecv
  <2>1. CASE /\ ch.buf # << >> /\ sender' = [pc |-> "check", m |-> Head(ch.buf)]
             /\ ch' = [ch EXCEPT !.buf = Tail(@)]
    <3>1. /\ Head(ch.buf) \in 1..MaxSend
          /\ ch' \in [buf : Seq(1..MaxSend), closed : BOOLEAN, respClosed : BOOLEAN]
          /\ Len(ch'.buf) = Len(ch.buf) - 1 /\ Len(ch.buf) \in Nat
      BY <1>0, <2>1, Taken
    <3>2. Len(ch'.buf) <= SendLen
      BY <1>0, <3>1, WsConnAssumption
    <3>3. sender' \in [pc : SendPC, m : 0..MaxSend]
      BY <1>0, <2>1, <3>1 DEF SendPC
    <3> QED
      BY <1>0, <1>2, <3>1, <3>2, <3>3 DEF SenderRecv, MsgTypes, steady
  <2>2. CASE sender' = [sender EXCEPT !.pc = "ended"] /\ UNCHANGED ch
    BY <1>0, <1>2, <2>2 DEF SenderRecv, MsgTypes, SendPC, steady
  <2> QED
    BY <1>2, <2>1, <2>2 DEF SenderRecv, steady
<1>3. CASE SenderCheck
  BY <1>0, <1>1, <1>3 DEF SenderCheck, MsgTypes, SendPC, steady
<1>4. CASE SenderWait
  <2>1. PushMsg(sender.m) /\ sender.m \in 1..MaxSend
    BY <1>1, <1>4 DEF SenderWait, steady
  <2> QED
    BY <1>0, <1>4, <2>1, Pushed DEF SenderWait, MsgTypes, SendPC, steady
<1>5. CASE SenderWrite
  <2>1. sender.m \in 1..MaxSend
    BY <1>1, <1>5 DEF SenderWrite, steady
  <2>2. wire' \in Seq(1..MaxSend)
    BY <1>0, <1>5, <2>1, AppendProperties DEF SenderWrite, steady
  <2> QED
    BY <1>0, <1>5, <2>2 DEF SenderWrite, MsgTypes, SendPC, steady
<1>7. CASE SenderLog \/ SenderRecover
  BY <1>0, <1>7 DEF SenderLog, SenderRecover, MsgTypes, SendPC, steady
<1>6. CASE SendRpc
  <2>1. sent + 1 \in 1..MaxSend /\ sent' = sent + 1 /\ PushMsg(sent + 1)
        /\ UNCHANGED <<sender, wire>>
    BY <1>0, <1>6 DEF SendRpc, goVars, steady
  <2> QED
    BY <1>0, <1>1, <2>1, Pushed DEF MsgTypes
<1> QED
  BY <1>2, <1>3, <1>4, <1>5, <1>6, <1>7 DEF SenderStep

(* Fewer messages in hand, or more sent.                                   *)
LEMMA ApartStill ==
    ASSUME NEW q, NEW w, NEW held, NEW n \in Nat, Apart(q, w, held, n),
           NEW held2, held2 \subseteq held, NEW n2 \in Nat, n <= n2
    PROVE  Apart(q, w, held2, n2)
  BY DEF Apart

(* The sender takes the first of the queue.                                *)
LEMMA ApartTaken ==
    ASSUME NEW q \in Seq(Nat), NEW w, NEW n \in Nat, Apart(q, w, {}, n), q # << >>
    PROVE  Apart(Tail(q), w, {Head(q)}, n)
<1>1. /\ Len(q) \in Nat /\ Len(q) # 0 /\ Head(q) = q[1]
      /\ Len(Tail(q)) = Len(q) - 1
      /\ \A i \in 1..Len(Tail(q)) : Tail(q)[i] = q[i + 1]
  BY EmptySeq, LenProperties, HeadTailProperties
<1>2. 1 \in 1..Len(q) /\ \A i \in 1..Len(Tail(q)) : i + 1 \in 1..Len(q) /\ i + 1 # 1
  BY <1>1
<1>3. \A i \in 1..Len(Tail(q)) : Tail(q)[i] \in 1..n /\ Tail(q)[i] # Head(q)
  BY <1>1, <1>2 DEF Apart
<1>4. Head(q) \in 1..n /\ \A j \in 1..Len(w) : w[j] # Head(q) /\ w[j] \in 1..n
  BY <1>1, <1>2 DEF Apart
<1>5. \A i, j \in 1..Len(Tail(q)) : Tail(q)[i] = Tail(q)[j] => i = j
  <2>1. TAKE i, j \in 1..Len(Tail(q))
  <2>2. q[i + 1] = q[j + 1] => i + 1 = j + 1
    BY <1>2 DEF Apart
  <2>3. i \in Int /\ j \in Int
    OBVIOUS
  <2> QED
    BY <1>1, <2>2, <2>3
<1>6. \A i \in 1..Len(Tail(q)), j \in 1..Len(w) : Tail(q)[i] # w[j]
  BY <1>1, <1>2 DEF Apart
<1>7. \A i, j \in 1..Len(w) : w[i] = w[j] => i = j
  BY DEF Apart
<1> QED
  BY <1>3, <1>4, <1>5, <1>6, <1>7 DEF Apart

(* What Append does, index by index.                                       *)
LEMMA AppendAt ==
    ASSUME NEW q \in Seq(Nat), NEW m \in Nat
    PROVE  /\ Len(q) \in Nat /\ Len(Append(q, m)) = Len(q) + 1
           /\ \A i \in 1..Len(Append(q, m)) :
                 \/ Append(q, m)[i] = m /\ i = Len(q) + 1
                 \/ Append(q, m)[i] = q[i] /\ i \in 1..Len(q)
<1>1. /\ Len(Append(q, m)) = Len(q) + 1 /\ Append(q, m)[Len(q) + 1] = m
      /\ \A i \in 1..Len(q) : Append(q, m)[i] = q[i]
  BY AppendProperties
<1>2. Len(q) \in Nat
  BY LenProperties
<1>3. \A i \in 1..(Len(q) + 1) : i = Len(q) + 1 \/ i \in 1..Len(q)
  BY <1>2
<1>4. \A i \in 1..(Len(q) + 1) :
         \/ Append(q, m)[i] = m /\ i = Len(q) + 1
         \/ Append(q, m)[i] = q[i] /\ i \in 1..Len(q)
  BY <1>1, <1>3
<1> QED
  BY <1>1, <1>2, <1>4

(* A message that is nowhere else is queued, ...                           *)
LEMMA ApartQueued ==
    ASSUME NEW q \in Seq(Nat), NEW w \in Seq(Nat), NEW held, NEW n \in Nat,
           Apart(q, w, held, n), NEW m \in 1..n, m \notin held,
           \A i \in 1..Len(q) : q[i] # m, \A i \in 1..Len(w) : w[i] # m
    PROVE  Apart(Append(q, m), w, held, n)
<1>1. /\ Len(q) \in Nat /\ Len(Append(q, m)) = Len(q) + 1
      /\ \A i \in 1..Len(Append(q, m)) :
            \/ Append(q, m)[i] = m /\ i = Len(q) + 1
            \/ Append(q, m)[i] = q[i] /\ i \in 1..Len(q)
  BY AppendAt
<1>2. \A i \in 1..Len(Append(q, m)) : Append(q, m)[i] \in 1..n /\ Append(q, m)[i] \notin held
  BY <1>1 DEF Apart
<1>3. \A i, j \in 1..Len(Append(q, m)) : Append(q, m)[i] = Append(q, m)[j] => i = j
  <2>1. TAKE i, j \in 1..Len(Append(q, m))
  <2>2. HAVE Append(q, m)[i] = Append(q, m)[j]
  <2>3. CASE i \in 1..Len(q) /\ Append(q, m)[i] = q[i]
    BY <1>1, <2>1, <2>2, <2>3 DEF Apart
  <2>4. CASE i = Len(q) + 1 /\ Append(q, m)[i] = m
    BY <1>1, <2>1, <2>2, <2>4
  <2> QED
    BY <1>1, <2>1, <2>3, <2>4
<1>4. \A i \in 1..Len(Append(q, m)), j \in 1..Len(w) : Append(q, m)[i] # w[j]
  BY <1>1 DEF Apart
<1> QED
  BY <1>2, <1>3, <1>4 DEF Apart

(* ... or written.                                                         *)
LEMMA ApartWritten ==
    ASSUME NEW q \in Seq(Nat), NEW w \in Seq(Nat), NEW held, NEW n \in Nat,
           Apart(q, w, held, n), NEW m \in 1..n, m \notin held,
           \A i \in 1..Len(q) : q[i] # m, \A i \in 1..Len(w) : w[i] # m
    PROVE  Apart(q, Append(w, m), held, n)
<1>1. Apart(w, q, held, n)
  BY DEF Apart
<1>2. Apart(Append(w, m), q, held, n)
  BY <1>1, ApartQueued
<1> QED
  BY <1>2 DEF Apart

(* No message is in two places, whatever the sender does.                  *)
LEMMA MsgInvStep ==
    ASSUME IInv, SenderStep \/ SendRpc
    PROVE  MsgInv'
<1>0. /\ TypeOK /\ ch.buf \in Seq(Nat) /\ wire \in Seq(Nat) /\ sent \in Nat
      /\ Apart(ch.buf, wire, Held, sent) /\ MaxSend \in Nat
  <2>1. ch.buf \in Seq(1..MaxSend) /\ wire \in Seq(1..MaxSend)
    BY DEF IInv, TypeOK
  <2>2. 1..MaxSend \subseteq Nat
    BY WsConnAssumption
  <2>3. ch.buf \in Seq(Nat) /\ wire \in Seq(Nat)
    BY <2>1, <2>2, SeqMonotonic
  <2> QED
    BY <2>3, WsConnAssumption DEF IInv, TypeOK, MsgInv
<1>1. SUFFICES Apart(ch'.buf, wire', Held', sent')
  BY DEF MsgInv
<1>2. CASE SenderRecv
  <2>0. Held = {} /\ UNCHANGED <<wire, sent>>
    BY <1>2 DEF SenderRecv, Held, steady
  <2>1. CASE /\ ch.buf # << >> /\ sender' = [pc |-> "check", m |-> Head(ch.buf)]
             /\ ch' = [ch EXCEPT !.buf = Tail(@)]
    <3>1. Held' = {Head(ch.buf)} /\ ch'.buf = Tail(ch.buf)
      BY <1>0, <2>1, Taken DEF Held
    <3>2. Apart(Tail(ch.buf), wire, {Head(ch.buf)}, sent)
      BY <1>0, <2>0, <2>1, ApartTaken
    <3> QED
      BY <2>0, <3>1, <3>2
  <2>2. CASE sender' = [sender EXCEPT !.pc = "ended"] /\ UNCHANGED ch
    <3>1. Held' = {}
      BY <1>0, <2>2 DEF Held, TypeOK
    <3> QED
      BY <1>0, <2>0, <2>2, <3>1
  <2> QED
    BY <1>2, <2>1, <2>2 DEF SenderRecv, steady
<1>3. CASE SenderCheck
  <2>1. UNCHANGED <<ch, wire, sent>> /\ Held' = Held
    BY <1>0, <1>3 DEF SenderCheck, Held, TypeOK, steady
  <2> QED
    BY <1>0, <2>1
<1>4. CASE SenderWait
  <2>1. Held = {sender.m} /\ Held' = {} /\ PushMsg(sender.m) /\ UNCHANGED <<wire, sent>>
    BY <1>4 DEF SenderWait, Held, steady
  <2>2. /\ Apart(ch.buf, wire, {}, sent) /\ sender.m \in 1..sent /\ sender.m \in 1..MaxSend
        /\ \A i \in 1..Len(ch.buf) : ch.buf[i] # sender.m
        /\ \A i \in 1..Len(wire) : wire[i] # sender.m
    BY <1>0, <2>1, SMTT(30) DEF Apart, TypeOK
  <2>3. Apart(Append(ch.buf, sender.m), wire, {}, sent)
    BY <1>0, <2>2, ApartQueued
  <2>4. ch'.buf = ch.buf \/ ch'.buf = Append(ch.buf, sender.m)
    BY <1>0, <2>1, <2>2, Pushed
  <2> QED
    BY <2>1, <2>2, <2>3, <2>4
<1>5. CASE SenderWrite
  <2>1. /\ Held = {sender.m} /\ Held' = {} /\ UNCHANGED <<ch, sent>>
        /\ wire' = wire \/ wire' = Append(wire, sender.m)
    BY <1>5 DEF SenderWrite, Held, steady
  <2>2. /\ Apart(ch.buf, wire, {}, sent) /\ sender.m \in 1..sent
        /\ \A i \in 1..Len(ch.buf) : ch.buf[i] # sender.m
        /\ \A i \in 1..Len(wire) : wire[i] # sender.m
    BY <1>0, <2>1 DEF Apart
  <2>3. Apart(ch.buf, Append(wire, sender.m), {}, sent)
    BY <1>0, <2>2, ApartWritten
  <2> QED
    BY <2>1, <2>2, <2>3
<1>7. CASE SenderLog \/ SenderRecover
  <2>1. UNCHANGED <<ch, wire, sent>> /\ Held' = Held
    BY <1>0, <1>7 DEF SenderLog, SenderRecover, Held, TypeOK, steady
  <2> QED
    BY <1>0, <2>1
<1>6. CASE SendRpc
  <2>1. sent' = sent + 1 /\ PushMsg(sent + 1) /\ UNCHANGED <<wire, sender>> /\ sent + 1 \in 1..MaxSend
    BY <1>0, <1>6 DEF SendRpc, goVars, steady
  <2>a. sent + 1 \in Nat /\ sent <= sent + 1 /\ sent + 1 \notin 1..sent /\ sent + 1 \in 1..(sent + 1)
    BY <1>0
  <2>b. Apart(ch.buf, wire, Held, sent + 1)
    BY <1>0, <2>a, ApartStill
  <2>2. /\ Apart(ch.buf, wire, Held, sent + 1) /\ sent + 1 \in 1..(sent + 1)
        /\ sent + 1 \notin Held
        /\ \A i \in 1..Len(ch.buf) : ch.buf[i] # sent + 1
        /\ \A i \in 1..Len(wire) : wire[i] # sent + 1
    BY <1>0, <2>a, <2>b DEF Apart
  <2>3. Apart(Append(ch.buf, sent + 1), wire, Held, sent + 1)
    <3>1. sent + 1 \in Nat
      BY <1>0
    <3> QED
      BY <1>0, <2>2, <3>1, ApartQueued
  <2>4. ch'.buf = ch.buf \/ ch'.buf = Append(ch.buf, sent + 1)
    BY <1>0, <2>1, Pushed
  <2>5. Held' = Held
    BY <2>1 DEF Held
  <2> QED
    BY <2>1, <2>2, <2>3, <2>4, <2>5
<1> QED
  BY <1>2, <1>3, <1>4, <1>5, <1>6, <1>7 DEF SenderStep
-----------------------------------------------------------------------------
(* The types are those of the connections and those of the messages.       *)
LEMMA Types == TypeOK <=> SockTypes /\ MsgTypes
  BY DEF TypeOK, SockTypes, MsgTypes, DialPC, ClosePC, SendPC, Crashes

(* The dialer: it dials when Ws is nil, and Ws stays nil until it has      *)
(* installed what it got.                                                  *)
LEMMA DialInv ==
    ASSUME TypeOK, SockInv, DialStep
    PROVE  SockTypes' /\ SockInv'
<1>0. /\ SockTypes /\ HandsOK /\ DialsNil /\ ClosersOK /\ OwnsSocket /\ CrashOK
      /\ ClearsShut /\ Kept /\ Pending
  BY Types DEF SockInv
<1>1. ASSUME dialer' \in [pc : DialPC, s : Socks \cup {Nil}],
             dialer.pc # "install", dialer'.pc # "install", dialer'.pc = "dial" => ws = Nil,
             UNCHANGED <<role, ws, sock, ch, recv, closing, handler, reconnect, crashed, late>>
      PROVE  SockTypes' /\ SockInv'
  <2>1. SockTypes'
    BY <1>0, <1>1 DEF SockTypes
  <2>2. HandsOK' /\ DialsNil' /\ Kept'
    BY <1>0, <1>1 DEF HandsOK, DialsNil, Kept
  <2>3. ClosersOK' /\ OwnsSocket' /\ CrashOK'
    BY <1>0, <1>1 DEF ClosersOK, OwnsSocket, CrashOK, InRecvRequest, Live
  <2>4. ClearsShut' /\ Pending'
    BY <1>0, <1>1 DEF ClearsShut, Pending, GoneOrLate
  <2> QED
    BY <2>1, <2>2, <2>3, <2>4 DEF SockInv
<1>2. CASE DialCheck
  BY <1>0, <1>1, <1>2 DEF DialCheck, SockTypes, DialPC, steady
<1>3. CASE DialFails
  BY <1>0, <1>1, <1>3 DEF DialFails, SockTypes, DialPC, steady
<1>4. CASE DialSelect
  BY <1>0, <1>1, <1>4 DEF DialSelect, SockTypes, DialPC, steady
<1>5. CASE DialSucceeds
  <2>1. PICK s \in Socks : /\ Forgotten(s)
                           /\ sock' = [sock EXCEPT ![s] = "open"]
                           /\ dialer' = [pc |-> "install", s |-> s]
    BY <1>5 DEF DialSucceeds, steady
  <2>2. /\ UNCHANGED <<role, ws, ch, recv, closing, handler, reconnect, crashed, late>>
        /\ dialer.pc = "dial" /\ ws = Nil
    BY <1>0, <1>5 DEF DialSucceeds, DialsNil, steady
  <2>3. /\ sock' \in [Socks -> {"none", "open", "broken", "closed"}]
        /\ \A x \in Socks \ {s} : sock'[x] = sock[x]
        /\ dialer'.pc = "install" /\ dialer'.s = s
    BY <1>0, <2>1 DEF SockTypes
  <2>4. SockTypes'
    BY <1>0, <2>1, <2>2, <2>3 DEF SockTypes, DialPC
  <2>5. HandsOK' /\ DialsNil'
    BY <1>0, <2>1, <2>2, <2>3 DEF HandsOK, DialsNil, Forgotten, Live
  <2>6. Kept'
    BY <1>0, <2>2, <2>3, WsConnAssumption DEF Kept
  <2>7. ClosersOK' /\ OwnsSocket' /\ CrashOK'
    BY <1>0, <2>2 DEF ClosersOK, OwnsSocket, CrashOK, InRecvRequest, Live
  <2>8. GoneOrLate' /\ ClearsShut' /\ Pending'
    BY <2>2 DEF ClearsShut, Pending, GoneOrLate
  <2> QED
    BY <2>4, <2>5, <2>6, <2>7, <2>8 DEF SockInv
<1>6. CASE Install
  <2>1. PICK s \in Socks : s = dialer.s /\ ~Live(s)
    BY <1>0, <1>6 DEF Install, HandsOK, steady
  <2>2. /\ UNCHANGED <<role, sock, ch, closing, handler, crashed>> /\ dialer.pc = "install"
        /\ reconnect' = IF reconnect = MaxCount THEN MaxCount ELSE reconnect + 1
        /\ ws = Nil /\ ws' = s /\ s # Nil
        /\ dialer' = [pc |-> "select", s |-> Nil]
        /\ recv' = [recv EXCEPT ![s] = Starting("opening")]
        /\ late' = IF ch.closed THEN late \cup {s} ELSE late \ {s}
    BY <1>0, <1>6, <2>1, WsConnAssumption DEF Install, DialsNil, steady
  <2>3. /\ recv' \in [Socks -> RecvType] /\ recv'[s].pc = "opening"
        /\ \A x \in Socks \ {s} : recv'[x] = recv[x]
    BY <2>2, Goto DEF GotoR, RecvPC
  <2>a. reconnect' \in 0..MaxCount
    BY <1>0, <2>2, WsConnAssumption DEF SockTypes
  <2>4. SockTypes'
    BY <1>0, <2>2, <2>3, <2>a DEF SockTypes, RecvType, DialPC
  <2>5. HandsOK' /\ DialsNil'
    BY <1>0, <2>2, <2>3 DEF HandsOK, DialsNil
  <2>6. Kept'
    BY <1>0, <2>1, <2>2, WsConnAssumption DEF Kept
  <2>7. ClosersOK' /\ CrashOK'
    BY <1>0, <2>1, <2>2, <2>3 DEF ClosersOK, CrashOK, Live
  <2>8. ~ch.closed => \A x \in Socks : ~InRecvRequest(x)
    BY <1>0, <2>2, WsConnAssumption DEF OwnsSocket
  <2>9. OwnsSocket'
    BY <2>2, <2>3, <2>8 DEF OwnsSocket, InRecvRequest, Live
  <2>10. ch.closed => GoneOrLate'
    BY <2>2 DEF GoneOrLate
  <2>11. ~ch.closed => /\ \A c \in Callers : closing'[c] # "clear"
                       /\ \A r \in Socks : recv'[r].pc # "clear"
    BY <1>0, <2>2, <2>3, <2>8 DEF ClosersOK, InRecvRequest, Live
  <2>12. ClearsShut' /\ Pending'
    BY <2>2, <2>10, <2>11 DEF ClearsShut, Pending
  <2> QED
    BY <2>4, <2>5, <2>6, <2>7, <2>9, <2>12 DEF SockInv
<1> QED
  BY <1>2, <1>3, <1>4, <1>5, <1>6 DEF DialStep

(* Close: it signals, and clears what it has closed.                       *)
LEMMA CloseInv ==
    ASSUME TypeOK, SockInv, NEW c \in Callers, CloseStep(c)
    PROVE  SockTypes' /\ SockInv'
<1>0. /\ SockTypes /\ HandsOK /\ DialsNil /\ ClosersOK /\ OwnsSocket /\ CrashOK
      /\ ClearsShut /\ Kept /\ Pending /\ ch.closed \in BOOLEAN
  BY Types DEF SockInv, TypeOK
<1>1. /\ UNCHANGED <<role, dialer, handler, reconnect, late>>
      /\ closing[c] # "no"
  BY DEF CloseStep, CloseSignal, CloseResp, CloseTest, CloseShut, CloseClear, steady
(* What all steps of Close have in common.                                 *)
<1>3. ASSUME NEW pc \in ClosePC, pc \notin {"no", "start"}, closing' = [closing EXCEPT ![c] = pc],
             UNCHANGED recv, ch'.closed, crashed' = crashed, ws' \in {ws, Nil},
             sock' \in [Socks -> {"none", "open", "broken", "closed"}],
             Kept',
             pc = "clear" \/ closing[c] = "clear" \/ UNCHANGED <<ws, sock>>,
             pc = "clear" => GoneOrLate', closing[c] = "clear" => GoneOrLate',
             \/ pc \in {"resp", "test", "shut", "clear"} \/ GoneOrLate'
             \/ closing[c] = "start" /\ ch.closed
      PROVE  SockTypes' /\ SockInv'
  <2>1. /\ closing' \in [Callers -> ClosePC] /\ closing'[c] = pc
        /\ \A x \in Callers \ {c} : closing'[x] = closing[x]
    BY <1>3, CloserAt
  <2>2. SockTypes'
    BY <1>0, <1>1, <1>3, <2>1 DEF SockTypes
  <2>b. HandsOK'
    BY <1>0, <1>1, <1>3 DEF HandsOK, Live
  <2>3. DialsNil'
    BY <1>0, <1>1, <1>3 DEF DialsNil
  <2>4. ClosersOK' /\ OwnsSocket' /\ CrashOK'
    BY <1>0, <1>1, <1>3, <2>1 DEF ClosersOK, OwnsSocket, CrashOK
  <2>5. UNCHANGED <<ws, sock>> => (GoneOrLate <=> GoneOrLate')
    BY <1>1 DEF GoneOrLate
  <2>6. ClearsShut'
    BY <1>0, <1>1, <1>3, <2>1, <2>5 DEF ClearsShut
  <2>7. Pending'
    BY <1>0, <1>1, <1>3, <2>1, <2>5 DEF Pending
  <2> QED
    BY <1>3, <2>b, <2>2, <2>3, <2>4, <2>6, <2>7 DEF SockInv
<1>4. UNCHANGED <<ws, sock>> => Kept'
  BY <1>0, <1>1 DEF Kept
<1>5. closing[c] # "start" => ch.closed
  BY <1>0, <1>1 DEF ClosersOK
(* A panic leaves Ws and the connections as they are.                      *)
<1>11. ASSUME ClosePanics(c), ch.closed, UNCHANGED <<ws, sock, ch>>,
              closing[c] \in {"start", "shut"}, closing[c] = "start" \/ GoneOrLate
       PROVE  SockTypes' /\ SockInv'
  <2>1. Kept' /\ (GoneOrLate <=> GoneOrLate')
    BY <1>1, <1>4, <1>11 DEF GoneOrLate
  <2>2. CASE closing' = [closing EXCEPT ![c] = "back"] /\ UNCHANGED <<recv, crashed>>
    BY <1>0, <1>3, <1>11, <2>1, <2>2 DEF ClosePC, SockTypes
  <2>3. CASE crashed' = "Close" /\ UNCHANGED <<recv, closing>>
    <3>1. SockTypes' /\ HandsOK' /\ DialsNil' /\ ClosersOK'
      BY <1>0, <1>1, <1>11, <2>3 DEF SockTypes, Crashes, HandsOK, DialsNil, ClosersOK, Live
    <3>2. OwnsSocket' /\ CrashOK'
      BY <1>11 DEF OwnsSocket, CrashOK
    <3>3. ClearsShut' /\ Pending'
      BY <1>0, <1>11, <2>1, <2>3 DEF ClearsShut, Pending
    <3> QED
      BY <2>1, <3>1, <3>2, <3>3 DEF SockInv
  <2>4. CASE c # App /\ Leave(c) /\ role = "server" /\ UNCHANGED crashed
    <3>1. c \in Socks /\ GotoR(c, "leaving") /\ closing' = [closing EXCEPT ![c] = "start"]
      BY <2>4 DEF Callers, Leave
    <3>2. /\ closing' \in [Callers -> ClosePC] /\ closing'[c] = "start"
          /\ \A x \in Callers \ {c} : closing'[x] = closing[x]
      BY <3>1, CloserAt DEF ClosePC
    <3>3. /\ recv' \in [Socks -> RecvType] /\ recv'[c].pc = "leaving"
          /\ \A x \in Socks \ {c} : recv'[x] = recv[x]
      BY <3>1, Goto DEF RecvPC
    <3>4. recv[c].pc \in {"handle", "close_fn", "leaving"}
      BY <1>0, <1>1, <3>1 DEF ClosersOK
    <3>5. SockTypes' /\ HandsOK' /\ DialsNil'
      BY <1>0, <1>1, <1>11, <2>4, <3>1, <3>2, <3>3, <3>4 DEF SockTypes, RecvType, HandsOK, DialsNil, Live
    <3>6. ClosersOK' /\ OwnsSocket' /\ CrashOK'
      BY <1>0, <1>1, <1>11, <2>4, <3>1, <3>2, <3>3 DEF ClosersOK, OwnsSocket, CrashOK
    <3>7. ClearsShut' /\ Pending'
      BY <1>0, <1>1, <1>11, <2>1, <3>1, <3>2, <3>3 DEF ClearsShut, Pending
    <3> QED
      BY <2>1, <3>5, <3>6, <3>7 DEF SockInv
  <2> QED
    BY <1>11, <2>2, <2>3, <2>4 DEF ClosePanics, RecvDies, InCloseFn
<1>6. CASE CloseSignal(c)
  <2>1. UNCHANGED <<ws, sock>> /\ closing[c] = "start"
    BY <1>6 DEF CloseSignal, steady
  <2>2. CASE ch.closed /\ ClosePanics(c) /\ UNCHANGED ch
    BY <1>11, <2>1, <2>2
  <2>3. CASE /\ ch' = [ch EXCEPT !.closed = TRUE]
             /\ closing' = [closing EXCEPT ![c] = "resp"]
             /\ UNCHANGED <<recv, crashed>>
    <3>1. ch'.closed
      BY <2>3 DEF TypeOK
    <3> QED
      BY <1>0, <1>3, <1>4, <2>1, <2>3, <3>1 DEF ClosePC, SockTypes
  <2> QED
    BY <1>6, <2>2, <2>3 DEF CloseSignal, steady
<1>7. CASE CloseResp(c)
  <2>1. ch'.closed
    BY <1>5, <1>7 DEF CloseResp, TypeOK, steady
  <2> QED
    BY <1>0, <1>3, <1>4, <1>7, <2>1 DEF CloseResp, ClosePC, SockTypes, steady
<1>8. CASE CloseTest(c)
  <2>1. PICK pc \in {"shut", "back"} : /\ closing' = [closing EXCEPT ![c] = pc]
                                       /\ pc = "back" => ws = Nil
    BY <1>8 DEF CloseTest, steady
  <2>2. UNCHANGED <<ws, sock, recv, crashed, ch>> /\ closing[c] = "test" /\ ch'.closed
    BY <1>5, <1>8 DEF CloseTest, steady
  <2>3. pc = "back" => GoneOrLate'
    BY <2>1, <2>2 DEF GoneOrLate
  <2> QED
    BY <1>0, <1>3, <1>4, <2>1, <2>2, <2>3 DEF ClosePC, SockTypes
<1>9. CASE CloseShut(c)
  <2>1. UNCHANGED <<ws, ch>> /\ ch'.closed /\ closing[c] = "shut"
    BY <1>5, <1>9 DEF CloseShut, steady
  <2>2. CASE ws = Nil /\ ClosePanics(c) /\ UNCHANGED sock
    <3>1. GoneOrLate'
      BY <2>1, <2>2 DEF GoneOrLate
    <3> QED
      BY <1>5, <1>11, <2>1, <2>2, <3>1 DEF GoneOrLate
  <2>3. CASE /\ ws # Nil
             /\ sock' = [sock EXCEPT ![ws] = "closed"]
             /\ closing' = [closing EXCEPT ![c] = "clear"]
             /\ UNCHANGED <<recv, crashed>>
    <3>1. /\ sock' \in [Socks -> {"none", "open", "broken", "closed"}]
          /\ sock'[ws] = "closed" /\ \A x \in Socks \ {ws} : sock'[x] = sock[x]
      BY <1>0, <2>3 DEF SockTypes
    <3>2. GoneOrLate'
      BY <2>1, <3>1 DEF GoneOrLate
    <3>3. Kept'
      BY <1>0, <1>1, <2>1, <3>1 DEF Kept
    <3> QED
      BY <1>0, <1>3, <2>1, <2>3, <3>1, <3>2, <3>3 DEF ClosePC, SockTypes
  <2> QED
    BY <1>9, <2>2, <2>3 DEF CloseShut, steady
<1>10. CASE CloseClear(c)
  <2>1. /\ UNCHANGED <<sock, ch, recv, crashed>> /\ ch'.closed /\ closing[c] = "clear"
        /\ ws' = Nil /\ closing' = [closing EXCEPT ![c] = "back"]
    BY <1>5, <1>10 DEF CloseClear, steady
  <2>2. GoneOrLate'
    BY <2>1 DEF GoneOrLate
  <2>3. Kept'
    BY <1>0, <1>1, <2>1 DEF Kept, ClearsShut, GoneOrLate
  <2> QED
    BY <1>0, <1>3, <2>1, <2>2, <2>3 DEF ClosePC, SockTypes
<1> QED
  BY <1>6, <1>7, <1>8, <1>9, <1>10 DEF CloseStep

(* RecvRequest and the http handler: a receiver clears what it closed.     *)
LEMMA RecvInv ==
    ASSUME TypeOK, SockInv, NEW r \in Socks, RecvStep(r) \/ RecvMessage(r)
    PROVE  SockTypes' /\ SockInv'
<1>0. /\ SockTypes /\ HandsOK /\ DialsNil /\ ClosersOK /\ OwnsSocket /\ CrashOK
      /\ ClearsShut /\ Kept /\ Pending /\ ch.closed \in BOOLEAN
  BY Types DEF SockInv, TypeOK
<1>1. /\ UNCHANGED <<role, dialer, ch, reconnect, late>> /\ handler' \in {"no", "info"}
      /\ Live(r) /\ r \in Callers /\ recv[r].pc \in RecvPC
  BY <1>0 DEF RecvStep, RecvMessage, Opened, RecvDeref, RecvFails, RecvHandle,
     RecvInfo, DeferRecover, DeferCloseFn, DeferShut, DeferClear, Left, Live, Callers, RecvPC, SockTypes, steady
(* What all its steps have in common.                                      *)
<1>2. ASSUME NEW pc \in RecvPC,
             recv' \in [Socks -> RecvType], recv'[r].pc = pc,
             \A x \in Socks \ {r} : recv'[x] = recv[x],
             pc = "read" => recv'[r].rd \in Socks,
             closing' \in [Callers -> ClosePC],
             \A x \in Callers \ {r} : closing'[x] = closing[x],
             \/ closing'[r] = closing[r]
             \/ closing'[r] \in {"no", "start"} /\ closing[r] \in {"no", "back"},
             closing'[r] # "no" => pc \in {"handle", "close_fn", "leaving"},
             crashed' \in Crashes, CrashOK', ws' \in {ws, Nil},
             sock' \in [Socks -> {"none", "open", "broken", "closed"}], Kept',
             pc \notin {"off", "ended", "leaving"} => recv[r].pc # "leaving" /\ ws' = ws,
             ws' # ws => recv[r].pc # "leaving",
             pc = "clear" \/ recv[r].pc = "clear" => GoneOrLate',
             pc = "clear" \/ recv[r].pc = "clear" \/ UNCHANGED <<ws, sock>>
      PROVE  SockTypes' /\ SockInv'
  <2>1. SockTypes'
    BY <1>0, <1>1, <1>2 DEF SockTypes, RecvType
  <2>2. HandsOK'
    BY <1>0, <1>1, <1>2 DEF HandsOK, Live
  <2>3. DialsNil'
    BY <1>0, <1>1, <1>2 DEF DialsNil
  <2>4. ClosersOK'
    BY <1>0, <1>1, <1>2 DEF ClosersOK, Callers
  <2>5. OwnsSocket'
    <3>1. \A x \in Socks \ {r} : InRecvRequest(x)' <=> InRecvRequest(x)
      BY <1>2 DEF InRecvRequest, Live
    <3>2. InRecvRequest(r)' => InRecvRequest(r) /\ ws' = ws
      BY <1>1, <1>2 DEF InRecvRequest, Live
    <3>3. ws' # ws => InRecvRequest(r)
      BY <1>1, <1>2 DEF InRecvRequest
    <3> QED
      BY <1>0, <1>1, <3>1, <3>2, <3>3 DEF OwnsSocket
  <2>6. UNCHANGED <<ws, sock>> => (GoneOrLate <=> GoneOrLate')
    BY <1>1 DEF GoneOrLate
  <2>7. ClearsShut'
    BY <1>0, <1>1, <1>2, <2>6 DEF ClearsShut
  <2>8. Pending'
    BY <1>0, <1>1, <1>2, <2>6 DEF Pending, ClearsShut
  <2> QED
    BY <1>2, <2>1, <2>2, <2>3, <2>4, <2>5, <2>7, <2>8 DEF SockInv
<1>3. UNCHANGED <<ws, sock>> => Kept'
  BY <1>0, <1>1 DEF Kept
<1>4. recv[r].pc \notin {"handle", "close_fn", "leaving"} => closing[r] = "no"
  BY <1>0 DEF ClosersOK
<1>a. /\ UNCHANGED crashed => CrashOK' /\ crashed' \in Crashes
      /\ crashed' = "close_fn" \/ ch.closed => CrashOK'
  BY <1>0, <1>1 DEF CrashOK, SockTypes
(* The steps inside RecvRequest that touch neither Ws nor a connection.    *)
<1>5. ASSUME NEW pc \in RecvPC \ {"off", "ended", "clear", "leaving", "read"}, GotoR(r, pc),
             recv[r].pc \notin {"leaving", "clear"}, closing[r] = "no" \/ pc = "handle",
             UNCHANGED <<ws, sock, closing, crashed>>
      PROVE  SockTypes' /\ SockInv'
  BY <1>0, <1>1, <1>2, <1>3, <1>5, <1>a, Goto DEF SockTypes
(* A step that sends a receiver on, its Close over.                        *)
<1>b. ASSUME NEW pc \in RecvPC \ {"off", "ended", "clear", "leaving", "read"}, GotoR(r, pc),
             recv[r].pc \notin {"leaving", "clear"}, closing[r] \in {"no", "back"},
             closing' = [closing EXCEPT ![r] = "no"], UNCHANGED <<ws, sock, crashed>>
      PROVE  SockTypes' /\ SockInv'
  <2>1. /\ closing' \in [Callers -> ClosePC] /\ closing'[r] = "no"
        /\ \A x \in Callers \ {r} : closing'[x] = closing[x]
    BY <1>1, <1>b, CloserAt DEF ClosePC
  <2> QED
    BY <1>0, <1>1, <1>2, <1>3, <1>a, <1>b, <2>1, Goto DEF SockTypes
(* A call of Close.                                                        *)
<1>c. ASSUME closing' = [closing EXCEPT ![r] = "start"], closing[r] = "no",
             recv[r].pc \in {"handle", "close_fn"}, UNCHANGED <<recv, ws, sock, crashed>>
      PROVE  SockTypes' /\ SockInv'
  <2>1. /\ closing' \in [Callers -> ClosePC] /\ closing'[r] = "start"
        /\ \A x \in Callers \ {r} : closing'[x] = closing[x]
    BY <1>1, <1>c, CloserAt DEF ClosePC
  <2> QED
    BY <1>0, <1>1, <1>2, <1>3, <1>a, <1>c, <2>1 DEF SockTypes, RecvType, RecvPC
(* The last step of RecvRequest: the end, or for a server the start of     *)
(* its handler's Close.                                                    *)
<1>6. ASSUME Leave(r), recv[r].pc # "leaving", closing[r] \in {"no", "back"},
             UNCHANGED <<sock, crashed>>, ws' \in {ws, Nil}, Kept',
             recv[r].pc = "clear" => GoneOrLate', recv[r].pc = "clear" \/ UNCHANGED ws
      PROVE  SockTypes' /\ SockInv'
  <2>1. CASE GotoR(r, "ended") /\ closing' = [closing EXCEPT ![r] = "no"]
    <3>1. /\ closing' \in [Callers -> ClosePC] /\ closing'[r] = "no"
          /\ \A x \in Callers \ {r} : closing'[x] = closing[x]
      BY <1>1, <2>1, CloserAt DEF ClosePC
    <3> QED
      BY <1>0, <1>1, <1>2, <1>6, <1>a, <2>1, <3>1, Goto DEF SockTypes, RecvPC
  <2>2. CASE GotoR(r, "leaving") /\ closing' = [closing EXCEPT ![r] = "start"]
    <3>1. /\ closing' \in [Callers -> ClosePC] /\ closing'[r] = "start"
          /\ \A x \in Callers \ {r} : closing'[x] = closing[x]
      BY <1>1, <2>2, CloserAt DEF ClosePC
    <3> QED
      BY <1>0, <1>1, <1>2, <1>6, <1>a, <2>2, <3>1, Goto DEF SockTypes, RecvPC
  <2> QED
    BY <1>6, <2>1, <2>2 DEF Leave
(* A panic past the recover: of close_fn, or when Close has signalled.     *)
<1>d. ASSUME NEW who \in Crashes, RecvDies(r, who), recv[r].pc \in {"reinfo", "close_fn", "shut"},
             closing[r] \in {"no", "back"}, who = "close_fn" \/ ch.closed,
             UNCHANGED <<ws, sock>>
      PROVE  SockTypes' /\ SockInv'
  <2>1. CASE Leave(r) /\ UNCHANGED crashed
    BY <1>0, <1>3, <1>6, <1>d, <2>1 DEF SockTypes
  <2>2. CASE crashed' = who /\ UNCHANGED <<recv, closing>>
    BY <1>0, <1>1, <1>2, <1>3, <1>4, <1>a, <1>d, <2>2 DEF SockTypes, RecvType, RecvPC
  <2> QED
    BY <1>d, <2>1, <2>2 DEF RecvDies
(* A receiver that finds Ws nil does so after the closed signal.           *)
<1>e. ws = Nil /\ recv[r].pc # "leaving" => ch.closed
  BY <1>0, <1>1, WsConnAssumption DEF OwnsSocket, InRecvRequest
<1>f. ASSUME Loops(r) \/ Recovers(r)
      PROVE  \E pc \in {"close_fn", "deref", "reinfo"} : GotoR(r, pc)
  BY <1>f DEF Loops, Recovers
<1>7. CASE Opened(r)
  <2>1. UNCHANGED <<ws, sock, crashed>> /\ recv[r].pc = "opening"
    BY <1>7 DEF Opened, steady
  <2>2. CASE (Loops(r) \/ Recovers(r)) /\ UNCHANGED closing
    BY <1>4, <1>5, <1>f, <2>1, <2>2 DEF RecvPC
  <2>3. CASE role = "server" /\ GotoR(r, "leaving") /\ closing' = [closing EXCEPT ![r] = "start"]
    BY <1>0, <1>3, <1>4, <1>6, <2>1, <2>3 DEF Leave, SockTypes
  <2> QED
    BY <1>7, <2>2, <2>3 DEF Opened, steady
<1>9. CASE RecvDeref(r)
  <2>1. UNCHANGED <<ws, sock, closing, crashed>> /\ recv[r].pc = "deref"
    BY <1>9 DEF RecvDeref, steady
  <2>2. CASE ws = Nil
    <3>1. GotoR(r, "recover")
      BY <1>9, <2>2 DEF RecvDeref, GotoR, steady
    <3> QED
      BY <1>4, <1>5, <2>1, <3>1 DEF RecvPC
  <2>3. CASE ws # Nil
    <3>1. ws \in Socks
      BY <1>0, <2>3 DEF SockTypes
    <3>2. /\ recv' \in [Socks -> RecvType] /\ recv'[r].pc = "read" /\ recv'[r].rd = ws
          /\ \A x \in Socks \ {r} : recv'[x] = recv[x]
      BY <1>0, <1>9, <2>3, <3>1 DEF RecvDeref, RecvType, RecvPC, SockTypes, steady
    <3> QED
      BY <1>0, <1>1, <1>2, <1>3, <1>4, <1>a, <2>1, <3>1, <3>2 DEF RecvPC, SockTypes
  <2> QED
    BY <2>2, <2>3
<1>10. CASE RecvFails(r)
  BY <1>4, <1>5, <1>10 DEF RecvFails, RecvPC, steady
<1>11. CASE RecvMessage(r)
  BY <1>4, <1>5, <1>11 DEF RecvMessage, RecvPC, steady
<1>12. CASE RecvHandle(r)
  <2>1. UNCHANGED <<ws, sock, crashed>> /\ recv[r].pc = "handle"
    BY <1>12 DEF RecvHandle, steady
  <2>2. CASE closing[r] = "no" /\ (Loops(r) \/ Recovers(r)) /\ UNCHANGED closing
    BY <1>5, <1>f, <2>1, <2>2 DEF RecvPC
  <2>3. CASE closing[r] = "no" /\ closing' = [closing EXCEPT ![r] = "start"] /\ UNCHANGED recv
    BY <1>c, <2>1, <2>3
  <2>4. CASE closing[r] = "back" /\ closing' = [closing EXCEPT ![r] = "no"] /\ Loops(r)
    BY <1>b, <1>f, <2>1, <2>4 DEF RecvPC
  <2> QED
    BY <1>12, <2>2, <2>3, <2>4 DEF RecvHandle, steady
<1>13. CASE RecvInfo(r)
  BY <1>4, <1>5, <1>13 DEF RecvInfo, RecvPC, steady
<1>17. CASE DeferRecover(r)
  <2>1. UNCHANGED <<ws, sock>> /\ recv[r].pc \in {"recover", "reinfo"} /\ closing[r] = "no"
    BY <1>4, <1>17 DEF DeferRecover, steady
  <2>2. CASE (Recovers(r) \/ GotoR(r, "close_fn")) /\ UNCHANGED <<closing, crashed>>
    BY <1>5, <1>f, <2>1, <2>2 DEF RecvPC
  <2>3. CASE recv[r].pc = "reinfo" /\ ws = Nil /\ RecvDies(r, "RecvRequest")
    BY <1>d, <1>e, <2>1, <2>3 DEF Crashes
  <2> QED
    BY <1>17, <2>2, <2>3 DEF DeferRecover
<1>18. CASE DeferCloseFn(r)
  <2>1. UNCHANGED <<ws, sock>> /\ recv[r].pc = "close_fn"
    BY <1>18 DEF DeferCloseFn, steady
  <2>2. CASE closing[r] \in {"no", "back"} /\ DeferTest(r) /\ UNCHANGED crashed
    <3>1. CASE Leave(r)
      BY <1>0, <1>3, <1>6, <2>1, <2>2, <3>1 DEF SockTypes
    <3>2. CASE GotoR(r, "shut") /\ closing' = [closing EXCEPT ![r] = "no"]
      BY <1>b, <2>1, <2>2, <3>2 DEF RecvPC
    <3> QED
      BY <2>2, <3>1, <3>2 DEF DeferTest
  <2>3. CASE closing[r] \in {"no", "back"} /\ RecvDies(r, "close_fn")
    BY <1>d, <2>1, <2>3 DEF Crashes
  <2>4. CASE closing[r] = "no" /\ closing' = [closing EXCEPT ![r] = "start"] /\ UNCHANGED <<recv, crashed>>
    BY <1>c, <2>1, <2>4
  <2> QED
    BY <1>18, <2>2, <2>3, <2>4 DEF DeferCloseFn
<1>14. CASE DeferShut(r)
  <2>1. UNCHANGED ws /\ recv[r].pc = "shut" /\ closing[r] = "no"
    BY <1>4, <1>14 DEF DeferShut, steady
  <2>2. CASE /\ ws # Nil
             /\ sock' = [sock EXCEPT ![ws] = "closed"]
             /\ GotoR(r, "clear")
             /\ UNCHANGED <<closing, crashed>>
    <3>1. /\ sock' \in [Socks -> {"none", "open", "broken", "closed"}]
          /\ sock'[ws] = "closed" /\ \A x \in Socks \ {ws} : sock'[x] = sock[x]
      BY <1>0, <2>2 DEF SockTypes
    <3>2. GoneOrLate'
      BY <2>1, <3>1 DEF GoneOrLate
    <3>3. Kept'
      BY <1>0, <1>1, <2>1, <3>1 DEF Kept
    <3> QED
      BY <1>0, <1>1, <1>2, <1>a, <2>1, <2>2, <3>1, <3>2, <3>3, Goto DEF RecvPC, SockTypes
  <2>3. CASE ws = Nil /\ RecvDies(r, "RecvRequest") /\ UNCHANGED sock
    BY <1>d, <1>e, <2>1, <2>3 DEF Crashes
  <2> QED
    BY <1>14, <2>2, <2>3 DEF DeferShut, steady
<1>15. CASE DeferClear(r)
  <2>1. /\ UNCHANGED <<sock, crashed>> /\ recv[r].pc = "clear" /\ closing[r] = "no"
        /\ ws' = Nil /\ Leave(r)
    BY <1>4, <1>15 DEF DeferClear, steady
  <2>2. GoneOrLate'
    BY <2>1 DEF GoneOrLate
  <2>3. Kept'
    BY <1>0, <1>1, <2>1 DEF Kept, ClearsShut, GoneOrLate
  <2> QED
    BY <1>0, <1>6, <2>1, <2>2, <2>3 DEF SockTypes
<1>16. CASE Left(r)
  <2>1. /\ UNCHANGED <<ws, sock, crashed>> /\ recv[r].pc = "leaving" /\ closing[r] = "back"
        /\ closing' = [closing EXCEPT ![r] = "no"] /\ GotoR(r, "ended")
    BY <1>16 DEF Left, steady
  <2>2. /\ closing' \in [Callers -> ClosePC] /\ closing'[r] = "no"
        /\ \A x \in Callers \ {r} : closing'[x] = closing[x]
    BY <1>1, <2>1, CloserAt DEF ClosePC
  <2> QED
    BY <1>0, <1>1, <1>2, <1>3, <1>a, <2>1, <2>2, Goto DEF SockTypes, RecvPC
<1> QED
  BY <1>7, <1>9, <1>10, <1>11, <1>12, <1>13, <1>14, <1>15, <1>16, <1>17, <1>18 DEF RecvStep

(* A call of Close, a connection that breaks, and a handler's panic.       *)
LEMMA OutsideInv ==
    ASSUME TypeOK, SockInv, HandlerInfo \/ CloseCall \/ RemoteFails
    PROVE  SockTypes' /\ SockInv'
<1>0. /\ SockTypes /\ HandsOK /\ DialsNil /\ ClosersOK /\ OwnsSocket /\ CrashOK
      /\ ClearsShut /\ Kept /\ Pending
  BY Types DEF SockInv
<1>1. CASE CloseCall
  <2>1. /\ UNCHANGED <<role, ws, sock, ch, dialer, recv, handler, reconnect, crashed, late>>
        /\ closing[App] = "no" /\ App \in Callers /\ App \notin Socks
        /\ closing' = [closing EXCEPT ![App] = "start"]
    BY <1>1, WsConnAssumption DEF CloseCall, Callers, steady
  <2>2. /\ closing' \in [Callers -> ClosePC] /\ closing'[App] = "start"
        /\ \A x \in Callers \ {App} : closing'[x] = closing[x]
    BY <2>1, CloserAt DEF ClosePC
  <2>3. SockTypes' /\ HandsOK' /\ DialsNil' /\ Kept'
    BY <1>0, <2>1, <2>2 DEF SockTypes, HandsOK, DialsNil, Kept, Live
  <2>4. ClosersOK'
    BY <1>0, <2>1, <2>2 DEF ClosersOK, Callers
  <2>5. OwnsSocket' /\ CrashOK'
    BY <1>0, <2>1 DEF OwnsSocket, CrashOK, InRecvRequest, Live
  <2>6. ClearsShut' /\ Pending'
    BY <1>0, <2>1, <2>2 DEF ClearsShut, Pending, GoneOrLate
  <2> QED
    BY <2>3, <2>4, <2>5, <2>6 DEF SockInv
<1>2. CASE RemoteFails
  <2>1. /\ UNCHANGED <<role, ws, ch, dialer, recv, closing, handler, reconnect, crashed, late>>
        /\ \E s \in Socks : sock[s] = "open" /\ sock' = [sock EXCEPT ![s] = "broken"]
    BY <1>2 DEF RemoteFails, goVars, steady
  <2>2. /\ sock' \in [Socks -> {"none", "open", "broken", "closed"}]
        /\ \A x \in Socks : sock[x] = "closed" => sock'[x] = "closed"
        /\ \A x \in Socks : sock'[x] \in {"open", "broken"} => sock[x] \in {"open", "broken"}
    BY <1>0, <2>1 DEF SockTypes
  <2>3. SockTypes' /\ HandsOK' /\ DialsNil' /\ Kept'
    BY <1>0, <2>1, <2>2 DEF SockTypes, HandsOK, DialsNil, Kept, Live
  <2>4. ClosersOK' /\ OwnsSocket' /\ CrashOK'
    BY <1>0, <2>1 DEF ClosersOK, OwnsSocket, CrashOK, InRecvRequest, Live
  <2>5. GoneOrLate => GoneOrLate'
    BY <1>0, <2>1, <2>2 DEF GoneOrLate, SockTypes
  <2>6. ClearsShut' /\ Pending'
    BY <1>0, <2>1, <2>5 DEF ClearsShut, Pending
  <2> QED
    BY <2>3, <2>4, <2>5, <2>6 DEF SockInv
<1>3. CASE HandlerInfo
  <2>1. /\ UNCHANGED <<role, ws, sock, ch, dialer, recv, closing, reconnect, late>>
        /\ handler' \in {"no", "info"} /\ crashed' \in {crashed, "handler"}
    BY <1>3 DEF HandlerInfo, steady
  <2>2. SockTypes' /\ HandsOK' /\ DialsNil' /\ Kept' /\ ClosersOK'
    BY <1>0, <2>1 DEF SockTypes, Crashes, HandsOK, DialsNil, Kept, ClosersOK, Live
  <2>3. OwnsSocket' /\ CrashOK'
    BY <1>0, <2>1 DEF OwnsSocket, CrashOK, InRecvRequest, Live
  <2>4. ClearsShut' /\ Pending'
    BY <1>0, <2>1 DEF ClearsShut, Pending, GoneOrLate
  <2> QED
    BY <2>2, <2>3, <2>4 DEF SockInv
<1> QED
  BY <1>1, <1>2, <1>3
-----------------------------------------------------------------------------
(* How often Ws has been set, and what the sender has seen of it.          *)
LEMMA SeenTwiceStep ==
    ASSUME TypeOK, SeenTwice, Next
    PROVE  SeenTwice'
<1>0. /\ role \in {"client", "server"} /\ reconnect \in Nat /\ reconnect <= MaxCount
      /\ MaxCount \in Nat \ {0, 1} /\ sender \in [pc : SendPC, m : 0..MaxSend]
  BY WsConnAssumption DEF TypeOK
<1>1. CASE SenderStep
  <2>1. UNCHANGED <<role, ws, dialer, reconnect>> /\ crashed' \in {crashed, "serializedSend"}
    BY <1>1 DEF SenderStep, SenderRecv, SenderCheck, SenderWait, SenderWrite, SenderLog,
       SenderRecover, steady
  <2>2. CASE SenderRecv \/ SenderWait
    <3>1. crashed' = crashed /\ sender'.pc \in {"recv", "check", "ended"}
      BY <1>0, <2>2 DEF SenderRecv, SenderWait
    <3> QED
      BY <2>1, <3>1 DEF SeenTwice, Dials
  <2>3. CASE SenderCheck
    <3>1. crashed' = crashed /\ (sender'.pc = "wait" \/ (sender'.pc = "write" /\ ws # Nil))
      BY <1>0, <2>3 DEF SenderCheck
    <3> QED
      BY <2>1, <3>1 DEF SeenTwice, Dials
  <2>4. CASE SenderWrite
    <3>1. /\ crashed' = crashed /\ sender.pc = "write"
          /\ sender'.pc \in {"recv", "log"} \/ (sender'.pc = "recover" /\ ws = Nil)
      BY <1>0, <2>4 DEF SenderWrite
    <3> QED
      BY <1>0, <2>1, <3>1 DEF SeenTwice, Dials
  <2>5. CASE SenderLog
    <3>1. /\ crashed' = crashed /\ sender.pc \in {"log", "info"}
          /\ sender'.pc \in {"recv", "info"} \/ (sender'.pc = "recover" /\ ws = Nil)
      BY <1>0, <2>5 DEF SenderLog
    <3> QED
      BY <1>0, <2>1, <3>1 DEF SeenTwice, Dials
  <2>6. CASE SenderRecover
    <3>1. \/ sender'.pc = "dead" /\ crashed' = crashed
          \/ sender.pc = "recover" /\ sender'.pc = "reinfo" /\ ws # Nil /\ crashed' = crashed
          \/ sender.pc = "reinfo" /\ sender' = sender /\ crashed' = "serializedSend"
      BY <1>0, <2>6 DEF SenderRecover
    <3> QED
      BY <1>0, <2>1, <3>1 DEF SeenTwice, Dials
  <2> QED
    BY <1>1, <2>2, <2>3, <2>4, <2>5, <2>6 DEF SenderStep
<1>2. CASE Install
  <2>1. /\ UNCHANGED <<role, sender, crashed>> /\ dialer.pc = "install"
        /\ reconnect' = IF reconnect = MaxCount THEN MaxCount ELSE reconnect + 1
    BY <1>2 DEF Install
  <2>2. role = "client" /\ Dials = reconnect /\ Dials' = reconnect'
    BY <1>0, <2>1 DEF SeenTwice, Dials
  <2>3. /\ reconnect' \in Nat /\ reconnect' >= 1 /\ (reconnect >= 1 => reconnect' >= 2)
    BY <1>0, <2>1
  <2> QED
    BY <1>0, <2>1, <2>2, <2>3 DEF SeenTwice
(* The other steps set Ws to nil, if at all, and do not touch the sender.  *)
<1>3. ASSUME UNCHANGED <<role, sender, reconnect>>, ws' \in {ws, Nil},
             crashed' = crashed \/ crashed' # "serializedSend",
             role = "server" => dialer'.pc = dialer.pc
      PROVE  SeenTwice'
  BY <1>0, <1>3 DEF SeenTwice, Dials
<1>4. CASE DialStep
  <2>1. CASE DialCheck \/ DialFails \/ DialSucceeds \/ DialSelect
    <3>1. UNCHANGED <<role, ws, sender, reconnect, crashed>> /\ dialer.pc # "ended"
      BY <2>1 DEF DialCheck, DialFails, DialSucceeds, DialSelect, steady
    <3>2. role # "server"
      BY <3>1 DEF SeenTwice
    <3> QED
      BY <1>3, <3>1, <3>2
  <2> QED
    BY <1>2, <1>4, <2>1 DEF DialStep
<1>5. CASE HandlerInfo \/ SendRpc \/ CloseCall \/ RemoteFails
  <2>1. /\ UNCHANGED <<role, ws, dialer, sender, reconnect>>
        /\ crashed' = crashed \/ crashed' = "handler"
    BY <1>5 DEF HandlerInfo, SendRpc, CloseCall, RemoteFails, goVars, steady
  <2> QED
    BY <1>3, <2>1
<1>6. ASSUME NEW c \in Callers, CloseStep(c) PROVE SeenTwice'
  <2>1. /\ UNCHANGED <<role, dialer, sender, reconnect>> /\ ws' \in {ws, Nil}
        /\ crashed' = crashed \/ crashed' = "Close"
    BY <1>6 DEF CloseStep, CloseSignal, CloseResp, CloseTest, CloseShut, CloseClear, ClosePanics,
       RecvDies, steady
  <2> QED
    BY <1>3, <2>1
<1>7. ASSUME NEW r \in Socks, RecvStep(r) \/ RecvMessage(r) PROVE SeenTwice'
  <2>1. /\ UNCHANGED <<role, dialer, sender, reconnect>> /\ ws' \in {ws, Nil}
        /\ crashed' = crashed \/ crashed' \in {"RecvRequest", "close_fn"}
    BY <1>7 DEF RecvStep, RecvMessage, Opened, RecvDeref, RecvFails, RecvHandle, RecvInfo,
       DeferRecover, DeferCloseFn, DeferShut, DeferClear, Left, RecvDies, steady
  <2> QED
    BY <1>3, <2>1
<1> QED
  BY <1>1, <1>4, <1>5, <1>6, <1>7 DEF Next
-----------------------------------------------------------------------------
(* A server starts with a socket and its receiver, a client with none.     *)
LEMMA InvInit == ASSUME Init PROVE IInv
<1>1. PICK s \in Socks :
         /\ ws = IF role = "server" THEN s ELSE Nil
         /\ sock = [x \in Socks |-> IF x = ws THEN "open" ELSE "none"]
         /\ recv = [x \in Socks |-> IF x = ws THEN Starting("opening") ELSE NotStarted]
  BY DEF Init
<1>2. /\ role \in {"client", "server"}
      /\ ch = [buf |-> << >>, closed |-> FALSE, respClosed |-> FALSE]
      /\ dialer = [pc |-> IF role = "client" THEN "check" ELSE "ended", s |-> Nil]
      /\ closing = [c \in Callers |-> "no"]
      /\ sender = [pc |-> "recv", m |-> 0]
      /\ handler = "no" /\ reconnect = 0
      /\ sent = 0 /\ wire = << >> /\ crashed = "no" /\ late = {}
  BY DEF Init
<1>3. << >> \in Seq(1..MaxSend) /\ Len(<< >>) = 0
  BY EmptySeq
<1>4. MsgTypes
  BY <1>2, <1>3, WsConnAssumption DEF MsgTypes, SendPC
<1>5. /\ recv \in [Socks -> [pc : RecvPC, rd : Socks \cup {Nil}]]
      /\ \A x \in Socks : recv[x].pc = IF x = ws THEN "opening" ELSE "off"
  BY <1>1 DEF Starting, NotStarted, RecvPC
<1>6. SockTypes
  BY <1>1, <1>2, <1>5, WsConnAssumption DEF SockTypes, DialPC, ClosePC, Crashes
<1>7. /\ ~ch.closed /\ dialer.pc \in {"check", "ended"} /\ \A c \in Callers : closing[c] = "no"
      /\ \A x \in Socks : sock[x] \in {"open", "broken"} => ws = x
  BY <1>1, <1>2
<1>8. HandsOK /\ DialsNil /\ ClosersOK /\ OwnsSocket /\ CrashOK /\ ClearsShut
  BY <1>2, <1>5, <1>7 DEF HandsOK, DialsNil, ClosersOK, OwnsSocket, CrashOK, ClearsShut,
     InRecvRequest, Live, Callers
<1>9. Kept /\ Pending
  BY <1>7 DEF Kept, Pending
<1>10. MsgInv
  BY <1>2, <1>3 DEF MsgInv, Apart, Held
<1>11. SeenTwice
  BY <1>1, <1>2 DEF SeenTwice, Dials
<1> QED
  BY <1>4, <1>6, <1>8, <1>9, <1>10, <1>11, Types DEF IInv, SockInv

(* The invariant is inductive.                                             *)
LEMMA Inductive == ASSUME IInv, [Next]_vars PROVE IInv'
<1>0. TypeOK /\ SockTypes /\ MsgTypes /\ SockInv /\ MsgInv /\ SeenTwice
  BY Types DEF IInv
<1>1. CASE UNCHANGED vars
  <2>1. TypeOK'
    BY <1>0, <1>1 DEF TypeOK, vars, goVars
  <2>2. SockInv'
    BY <1>0, <1>1 DEF SockInv, HandsOK, DialsNil, ClosersOK, OwnsSocket, CrashOK,
       ClearsShut, Kept, Pending, GoneOrLate, InRecvRequest, Live, vars, goVars
  <2>3. MsgInv' /\ SeenTwice'
    BY <1>0, <1>1 DEF MsgInv, Held, SeenTwice, Dials, vars, goVars
  <2> QED
    BY <2>1, <2>2, <2>3 DEF IInv
<1>a. ASSUME Next PROVE SeenTwice'
  BY <1>0, <1>a, SeenTwiceStep
<1>2. ASSUME Next, SenderStep \/ SendRpc, UNCHANGED SockVars,
             crashed' \in {crashed, "serializedSend"}
      PROVE  IInv'
  <2>1. MsgTypes' /\ MsgInv'
    BY <1>2, MsgTypesStep, MsgInvStep
  <2>3. SockTypes'
    BY <1>0, <1>2 DEF SockTypes, Crashes, SockVars
  <2>4. SockInv'
    BY <1>0, <1>2 DEF SockInv, HandsOK, DialsNil, ClosersOK, OwnsSocket, CrashOK,
       ClearsShut, Kept, Pending, GoneOrLate, InRecvRequest, Live, SockVars
  <2>5. TypeOK'
    BY <2>1, <2>3, Types DEF TypeOK, SockTypes, MsgTypes, DialPC, ClosePC, SendPC, Crashes
  <2> QED
    BY <1>2, <1>a, <2>1, <2>4, <2>5 DEF IInv
<1>3. ASSUME Next, SockStep, UNCHANGED MsgVars PROVE IInv'
  <2>1. SockTypes' /\ SockInv'
    BY <1>0, <1>3, DialInv, CloseInv, RecvInv, OutsideInv DEF Next, SockStep
  <2>2. MsgInv'
    BY <1>0, <1>3 DEF MsgInv, Held, MsgVars
  <2>3. ch' \in [buf : Seq(1..MaxSend), closed : BOOLEAN, respClosed : BOOLEAN]
    BY <1>0, <1>3 DEF SockStep, DialStep, DialCheck, DialFails, DialSucceeds, Install, DialSelect,
       HandlerInfo, CloseCall, RemoteFails, CloseStep, CloseSignal, CloseResp, CloseTest, CloseShut,
       CloseClear, RecvStep, RecvMessage, Opened, RecvDeref, RecvFails, RecvHandle, RecvInfo,
       DeferRecover, DeferCloseFn, DeferShut, DeferClear, Left, MsgTypes, goVars, steady
  <2>4. MsgTypes'
    BY <1>0, <1>3, <2>3 DEF MsgTypes, MsgVars
  <2>5. TypeOK'
    BY <2>1, <2>4 DEF TypeOK, SockTypes, MsgTypes, DialPC, ClosePC, SendPC, Crashes
  <2> QED
    BY <1>3, <1>a, <2>1, <2>2, <2>5 DEF IInv
<1> QED
  BY <1>0, <1>1, <1>2, <1>3, TwoHalves
-----------------------------------------------------------------------------
(* WsConn's invariant, for any number of connections and messages.         *)
THEOREM Invariant == Spec => []IInv
  BY InvInit, Inductive, PTL DEF Spec

(* Every variable keeps its type: a receiver reads only a connection, and  *)
(* the queue never holds more than its capacity (websock.go:134,465).      *)
THEOREM Typing == Spec => []TypeOK
  BY Invariant, PTL DEF IInv

(* Until Close is called there is one receiver, and it leaves with its own *)
(* connection (websock.go:338,141): Ws changes only from nil, by the       *)
(* dialer, and to nil, by the receiver of the connection it points to.     *)
THEOREM OneReceiver == Spec => []OwnsSocket
<1>1. IInv => OwnsSocket
  BY DEF IInv, SockInv
<1> QED
  BY <1>1, Invariant, PTL

(* The uses of Ws that nothing recovers, in Close and in RecvRequest's     *)
(* deferred function (websock.go:241,331,337), end the process only after  *)
(* Close was called; that in the sender's (websock.go:453) only in a       *)
(* client that has dialled twice, however often it breaks after.           *)
THEOREM NoCrashBeforeClose == Spec => []CrashNeedsClose
<1>1. ASSUME IInv PROVE CrashNeedsClose
  <2>1. role \in {"client", "server"} /\ CrashOK
    BY <1>1 DEF IInv, TypeOK, SockInv
  <2>2. crashed = "serializedSend" => Dials >= 2
    BY <1>1 DEF IInv, SeenTwice
  <2> QED
    BY <2>1, <2>2 DEF CrashNeedsClose, CrashOK, Dials
<1> QED
  BY <1>1, Invariant, PTL

(* Only a connection installed after Close began outlives the WebSock      *)
(* (websock.go:243,181): any other that is not closed is still in Ws, and  *)
(* the Close that signalled has not yet come to it.                        *)
THEOREM LeaksAreLate == Spec => []OnlyLateLeaks
<1>1. ASSUME IInv PROVE OnlyLateLeaks
  <2>1. SUFFICES ASSUME Ended, NEW s \in Socks, sock[s] \in {"open", "broken"}, s \notin late
                 PROVE  FALSE
    BY DEF OnlyLateLeaks
  <2>2. ClosersOK /\ Kept /\ Pending
    BY <1>1 DEF IInv, SockInv
  <2>3. ws = s
    BY <2>1, <2>2 DEF Ended, DialerDone, Kept
  <2>4. closing[App] = "back" /\ ch.closed
    BY <2>1, <2>2 DEF Ended, ClosersOK, Callers
  <2>5. \A r \in Socks : closing[r] = "no"
    BY <2>1, <2>2 DEF Ended, ClosersOK, Live
  <2>6. \A c \in Callers : closing[c] \notin {"resp", "test", "shut"}
    BY <2>4, <2>5 DEF Callers
  <2>7. GoneOrLate
    BY <2>2, <2>4, <2>6 DEF Pending
  <2> QED
    BY <2>1, <2>3, <2>7, WsConnAssumption DEF GoneOrLate
<1> QED
  BY <1>1, Invariant, PTL

(* No message is written twice (websock.go:465-470): it is in the queue,   *)
(* in the sender's hands or on the wire, and in one of them only.          *)
THEOREM WrittenOnce == Spec => []AtMostOnce
<1>1. IInv => AtMostOnce
  BY DEF IInv, MsgInv, Apart, AtMostOnce
<1> QED
  BY <1>1, Invariant, PTL
=============================================================================
