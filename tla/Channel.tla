------------------------------- MODULE Channel -------------------------------
(***************************************************************************)
(* channel.go: a ChannelManager hands out Channels, each with a sequence   *)
(* number, a bounded message queue (respChan) and a closed signal, and     *)
(* registers them in a sync.Map so that any goroutine can push to one by   *)
(* its sequence number or to all of them.                                  *)
(*                                                                         *)
(* Every goroutine runs one call at a time; a step of a call is what the   *)
(* code does atomically (one sync.Map operation, one select, one close).   *)
(***************************************************************************)
EXTENDS GoSync, Integers

CONSTANTS Chans,     \* the Channel structs that may be allocated
          None,      \* no channel
          Procs,     \* the goroutines that share the manager
          Highs,     \* the seq_high8 arguments (an absent one acts as 0)
          ChLen,     \* chlen: the capacity of every respChan
          SeqShift,  \* 2^56: the weight of the high byte of a sequence
          MaxPush,   \* bound: push calls started in one behaviour
          MaxReclose \* bound: calls of Close on a channel already closed

ASSUME ChannelAssumption ==
    /\ None \notin Chans
    /\ ChLen \in Nat \ {0}
    /\ SeqShift \in Nat \ {0}
    /\ Highs \subseteq Int
    /\ MaxPush \in Nat
    /\ MaxReclose \in Nat

VARIABLES rpcSequence, \* ChannelManager.rpcSequence
          channelMap,  \* ChannelManager.channelMap: sequence -> Channel
          chan,        \* the Channel structs
          op,          \* the call each goroutine is in
          result,      \* what the call a goroutine last ended returned
          pushes,      \* push calls started
          recloses,    \* repeated calls of Close started
          accepted,    \* history: what was put in each respChan
          delivered    \* history: what the consumer took from each respChan

mgrVars == <<rpcSequence, channelMap>>
vars == <<mgrVars, chan, op, result, pushes, recloses, accepted, delivered>>
-----------------------------------------------------------------------------
(* A message: its number, and the sequence it was sent to (0 when it was   *)
(* sent to a *Channel the caller holds, or broadcast).                     *)
Message == [dest : Nat, id : Nat]
NoMessage == [dest |-> 0, id |-> 0]

(* A Channel struct; seq = 0 stands for one not allocated yet.             *)
ChannelRec == [seq : Nat, buf : Seq(Message),
               respClosed : BOOLEAN, closed : BOOLEAN]
Unallocated == [seq |-> 0, buf |-> << >>, respClosed |-> FALSE, closed |-> FALSE]

(* Seeded fault: the high byte is added without its shift.                 *)
SequenceUnshifted(n, high8) == n + (high8 % 256)

Sequence(n, high8) == n + (high8 % 256) * SeqShift

GetSeqType(seq) == seq \div SeqShift

Allocated(c) == chan[c].seq # 0

(* NewChannel has returned c, so that some caller may use it.              *)
Returned(c) == /\ Allocated(c)
               /\ \A p \in Procs : ~(op[p].pc = "store" /\ op[p].ch = c)

(* A call in progress: where it is, the channel and message at hand and,   *)
(* for a call that uses Range, which one it is, the keys still to visit,   *)
(* the channels its filter fn accepts and the count so far.                *)
PC == {"idle", "store", "closeClosed", "closeResp", "load", "push", "range"}
Idle == [pc |-> "idle", ch |-> None, msg |-> NoMessage,
         range |-> "no", keys |-> {}, fn |-> {}, n |-> 0]

Begin(p, call) == /\ op[p] = Idle
                  /\ op' = [op EXCEPT ![p] = call]
                  /\ result' = [result EXCEPT ![p] = "none"]

Return(p, res) == /\ op' = [op EXCEPT ![p] = Idle]
                  /\ result' = [result EXCEPT ![p] = res]
-----------------------------------------------------------------------------
Init == /\ rpcSequence = 1
        /\ channelMap = NoEntries
        /\ chan = [c \in Chans |-> Unallocated]
        /\ op = [p \in Procs |-> Idle]
        /\ result = [p \in Procs |-> "none"]
        /\ pushes = 0
        /\ recloses = 0
        /\ accepted = [c \in Chans |-> << >>]
        /\ delivered = [c \in Chans |-> << >>]
-----------------------------------------------------------------------------
(* NewChannel: the sequence is drawn with an atomic add; registering the   *)
(* channel in the map is a second step.                                    *)
NewChannel(p, c, high8) ==
    /\ ~Allocated(c)
    /\ rpcSequence + 1 < SeqShift
    /\ rpcSequence' = rpcSequence + 1
    /\ chan' = [chan EXCEPT ![c].seq = Sequence(rpcSequence + 1, high8)]
    /\ Begin(p, [Idle EXCEPT !.pc = "store", !.ch = c])
    /\ UNCHANGED <<channelMap, pushes, recloses, accepted, delivered>>

(* Seeded fault: the key is read again from the manager's counter.         *)
NewChannelStoreCounter(p) ==
    /\ op[p].pc = "store"
    /\ channelMap' = MapStore(channelMap, rpcSequence, op[p].ch)
    /\ Return(p, "nil")
    /\ UNCHANGED <<rpcSequence, chan, pushes, recloses, accepted, delivered>>

NewChannelStore(p) ==
    /\ op[p].pc = "store"
    /\ channelMap' = MapStore(channelMap, chan[op[p].ch].seq, op[p].ch)
    /\ Return(p, "nil")
    /\ UNCHANGED <<rpcSequence, chan, pushes, recloses, accepted, delivered>>
-----------------------------------------------------------------------------
(* Seeded fault: the channel stays registered.                             *)
DelChannelRegistered(p, c) ==
    /\ Returned(c)
    /\ chan[c].closed => recloses < MaxReclose
    /\ recloses' = IF chan[c].closed THEN recloses + 1 ELSE recloses
    /\ Begin(p, [Idle EXCEPT !.pc = "closeClosed", !.ch = c])
    /\ UNCHANGED <<mgrVars, chan, pushes, accepted, delivered>>

(* Close -> DelChannel: unregister, close(closed), close(respChan).        *)
(* Closing a closed Go channel panics, out of Close and into the caller.   *)
DelChannel(p, c) ==
    /\ Returned(c)
    /\ chan[c].closed => recloses < MaxReclose
    /\ recloses' = IF chan[c].closed THEN recloses + 1 ELSE recloses
    /\ channelMap' = MapDelete(channelMap, chan[c].seq)
    /\ Begin(p, [Idle EXCEPT !.pc = "closeClosed", !.ch = c])
    /\ UNCHANGED <<rpcSequence, chan, pushes, accepted, delivered>>

CloseClosed(p) ==
    LET c == op[p].ch IN
    /\ op[p].pc = "closeClosed"
    /\ \/ /\ chan[c].closed
          /\ Return(p, "panic")
          /\ UNCHANGED chan
       \/ /\ ~chan[c].closed
          /\ chan' = [chan EXCEPT ![c].closed = TRUE]
          /\ op' = [op EXCEPT ![p].pc = "closeResp"]
          /\ UNCHANGED result
    /\ UNCHANGED <<mgrVars, pushes, recloses, accepted, delivered>>

(* Seeded fault: respChan is left open.                                    *)
CloseRespForgotten(p) ==
    /\ op[p].pc = "closeResp"
    /\ Return(p, "nil")
    /\ UNCHANGED <<mgrVars, chan, pushes, recloses, accepted, delivered>>

CloseResp(p) ==
    /\ op[p].pc = "closeResp"
    /\ chan' = [chan EXCEPT ![op[p].ch].respClosed = TRUE]
    /\ Return(p, IF chan[op[p].ch].respClosed THEN "panic" ELSE "nil")
    /\ UNCHANGED <<mgrVars, pushes, recloses, accepted, delivered>>
-----------------------------------------------------------------------------
(* The select of PushMsg.  The send is ready when there is room, and also  *)
(* when respChan is closed: it then panics, and the recovered PushMsg      *)
(* returns its named result err, still nil.  Of the ready cases Go picks   *)
(* any; default is taken when none is.                                     *)
HasRoom(c) == ~chan[c].respClosed /\ Len(chan[c].buf) < ChLen

(* Seeded fault: a full queue gives up its oldest message for the new one. *)
PushMsgEvict(c, m, res) ==
    /\ res = "nil"
    /\ accepted' = [accepted EXCEPT ![c] = Append(@, m)]
    /\ chan' = [chan EXCEPT ![c].buf = IF Len(@) < ChLen THEN Append(@, m)
                                                        ELSE Append(Tail(@), m)]

(* Seeded fault: a full queue drops the message and reports no error.      *)
PushMsgDrop(c, m, res) ==
    /\ res = "nil"
    /\ IF HasRoom(c)
       THEN /\ chan' = [chan EXCEPT ![c].buf = Append(@, m)]
            /\ accepted' = [accepted EXCEPT ![c] = Append(@, m)]
       ELSE UNCHANGED <<chan, accepted>>

PushMsg(c, m, res) ==
    \/ /\ HasRoom(c)
       /\ res = "nil"
       /\ chan' = [chan EXCEPT ![c].buf = Append(@, m)]
       /\ accepted' = [accepted EXCEPT ![c] = Append(@, m)]
    \/ /\ \/ chan[c].respClosed /\ res = "nil"
          \/ chan[c].closed /\ res = "closed"
          \/ /\ ~HasRoom(c) /\ ~chan[c].respClosed /\ ~chan[c].closed
             /\ res = "full"
       /\ UNCHANGED <<chan, accepted>>

(* A push call: directly on a channel the caller holds, ...                *)
StartPush(p, call) ==
    /\ pushes < MaxPush
    /\ pushes' = pushes + 1
    /\ Begin(p, call)
    /\ UNCHANGED <<mgrVars, chan, recloses, accepted, delivered>>

Direct(p, c) ==
    /\ Returned(c)
    /\ StartPush(p, [Idle EXCEPT !.pc = "push", !.ch = c, !.msg.id = pushes + 1])

(* ... or by a sequence, which is looked up in the map first.              *)
PushChannelMsg(p, seq) ==
    StartPush(p, [Idle EXCEPT !.pc = "load",
                              !.msg = [dest |-> seq, id |-> pushes + 1]])

LoadChannel(p) ==
    LET seq == op[p].msg.dest IN
    /\ op[p].pc = "load"
    /\ \/ /\ seq \in DOMAIN channelMap
          /\ op' = [op EXCEPT ![p].pc = "push", ![p].ch = channelMap[seq]]
          /\ UNCHANGED result
       \/ /\ seq \notin DOMAIN channelMap
          /\ Return(p, "notFound")
    /\ UNCHANGED <<mgrVars, chan, pushes, recloses, accepted, delivered>>

(* PushAllChannelMsg and PushOneChannelMsg walk the map with Range: the    *)
(* keys present at its start, each at most once; one deleted meanwhile is  *)
(* skipped, one stored meanwhile not visited.                              *)
PushRange(p, which, fn) ==
    StartPush(p, [Idle EXCEPT !.pc = "range", !.range = which, !.fn = fn,
                              !.keys = DOMAIN channelMap, !.msg.id = pushes + 1])

(* Seeded fault: an entry deleted during the walk is not skipped.          *)
RangeVisitDeleted(p, k) ==
    /\ op[p].pc = "range"
    /\ k \in op[p].keys
    /\ op' = [op EXCEPT ![p].keys = @ \ {k},
                        ![p].ch = IF k \in DOMAIN channelMap THEN channelMap[k] ELSE None,
                        ![p].pc = "push"]
    /\ UNCHANGED <<mgrVars, chan, result, pushes, recloses, accepted, delivered>>

RangeVisit(p, k) ==
    /\ op[p].pc = "range"
    /\ k \in op[p].keys
    /\ op' = [op EXCEPT ![p].keys = @ \ {k},
                        ![p].ch = IF k \in DOMAIN channelMap THEN channelMap[k] ELSE None,
                        ![p].pc = IF k \in DOMAIN channelMap /\ channelMap[k] \in op[p].fn
                                  THEN "push" ELSE "range"]
    /\ UNCHANGED <<mgrVars, chan, result, pushes, recloses, accepted, delivered>>

(* PushAllChannelMsg returns its count; PushOneChannelMsg that found no    *)
(* channel returns a nil err.                                              *)
RangeEnd(p) ==
    /\ op[p].pc = "range"
    /\ op[p].keys = {}
    /\ Return(p, IF op[p].range = "all" THEN "count" ELSE "nil")
    /\ UNCHANGED <<mgrVars, chan, pushes, recloses, accepted, delivered>>

(* The push itself, and what its caller does with the error.               *)
Push(p) ==
    /\ op[p].pc = "push"
    /\ \E res \in {"nil", "closed", "full"} :
          /\ PushMsg(op[p].ch, op[p].msg, res)
          /\ IF op[p].range = "all"
             THEN /\ op' = [op EXCEPT ![p].pc = "range",
                                      ![p].n = IF res = "nil" THEN @ + 1 ELSE @]
                  /\ UNCHANGED result
             ELSE Return(p, res)
    /\ UNCHANGED <<mgrVars, pushes, recloses, delivered>>
-----------------------------------------------------------------------------
(* The consumer of RecvChan: it gets what is queued even after respChan    *)
(* was closed.                                                             *)
Recv(c) ==
    /\ chan[c].buf # << >>
    /\ chan' = [chan EXCEPT ![c].buf = Tail(@)]
    /\ delivered' = [delivered EXCEPT ![c] = Append(@, Head(chan[c].buf))]
    /\ UNCHANGED <<mgrVars, op, result, pushes, recloses, accepted>>
-----------------------------------------------------------------------------
(* A sequence a caller may know: a channel's, or one never handed out.     *)
KnownSeqs == {chan[c].seq : c \in Chans}

Start(p) ==
    \/ \E c \in Chans, high8 \in Highs : NewChannel(p, c, high8)
    \/ \E c \in Chans : DelChannel(p, c) \/ Direct(p, c)
    \/ \E seq \in KnownSeqs : PushChannelMsg(p, seq)
    \/ \E fn \in SUBSET Chans \ {{}}, which \in {"all", "one"} : PushRange(p, which, fn)

Continue(p) ==
    \/ NewChannelStore(p)
    \/ CloseClosed(p) \/ CloseResp(p)
    \/ LoadChannel(p) \/ Push(p) \/ RangeEnd(p)
    \/ \E k \in op[p].keys : RangeVisit(p, k)

Next == \/ \E p \in Procs : Start(p) \/ Continue(p)
        \/ \E c \in Chans : Recv(c)

(* A goroutine inside a call is scheduled until the call returns (no step  *)
(* of a call blocks), and the consumer keeps reading; nobody has to start  *)
(* a call.                                                                 *)
Fairness == /\ \A p \in Procs : WF_vars(Continue(p))
            /\ \A c \in Chans : WF_vars(Recv(c))

Spec == Init /\ [][Next]_vars /\ Fairness
-----------------------------------------------------------------------------
OpRec == [pc : PC, ch : Chans \cup {None}, msg : Message,
          range : {"no", "all", "one"}, keys : SUBSET Nat,
          fn : SUBSET Chans, n : Nat]
Results == {"none", "nil", "panic", "notFound", "closed", "full", "count"}

NeedsChannel(call) == call.pc \in {"store", "closeClosed", "closeResp", "push"}

CallsOK == /\ op \in [Procs -> OpRec]
           /\ \A p \in Procs : NeedsChannel(op[p]) => op[p].ch \in Chans
           /\ result \in [Procs -> Results]

(* Every variable has its type, every call at hand has the channel it      *)
(* needs, and the sequences of the map belong to the channels stored.      *)
TypeOK ==
    /\ rpcSequence \in Nat
    /\ DOMAIN channelMap \subseteq Nat
    /\ \A s \in DOMAIN channelMap : channelMap[s] \in Chans
    /\ chan \in [Chans -> ChannelRec]
    /\ CallsOK
    /\ pushes \in Nat
    /\ recloses \in Nat
    /\ accepted \in [Chans -> Seq(Message)]
    /\ delivered \in [Chans -> Seq(Message)]

(* Two channels never share a sequence, whatever high bytes they were      *)
(* given: a lookup by sequence (channel.go:78-96) can mean only one.       *)
SequencesUnique ==
    \A c, d \in Chans : Allocated(c) /\ chan[c].seq = chan[d].seq => c = d

(* A message pushed by sequence is only ever queued in the channel of that *)
(* sequence, though the lookup and the push are two steps and channels     *)
(* come and go in between (channel.go:86-96).                              *)
RoutedBySequence ==
    \A c \in Chans : \A i \in DOMAIN accepted[c] :
        accepted[c][i].dest \in {0, chan[c].seq}

(* The consumer receives exactly the accepted messages, in order, none     *)
(* lost and none twice, across pushes by several goroutines and a close.   *)
DeliveredIsPrefix ==
    \A c \in Chans : accepted[c] = delivered[c] \o chan[c].buf

(* Once a channel's closed signal fires nobody finds it in the map, and a  *)
(* registration still in flight cannot bring it back (channel.go:63-77).   *)
ClosedIsUnregistered ==
    \A c \in Chans : chan[c].closed =>
        \A s \in DOMAIN channelMap : channelMap[s] # c

(* A push may report success without queueing only on a channel whose      *)
(* Close has passed its last step; before that nil means queued            *)
(* (channel.go:41-56: the recovered send on a closed respChan).            *)
NilMeansQueuedUntilClosed ==
    [][\A p \in Procs :
         LET c == op[p].ch IN
         Push(p) /\ accepted' = accepted /\ ~chan[c].respClosed
           => IF op[p].range = "all" THEN op'[p].n = op[p].n
                                     ELSE result'[p] # "nil"]_vars

(* A Close that began unregistering ends with both Go channels closed and  *)
(* the queue drained, also when a second Close panics half way.            *)
CloseCompletes ==
    \A c \in Chans : (\E p \in Procs : op[p].pc = "closeClosed" /\ op[p].ch = c)
        ~> chan[c].closed /\ chan[c].respClosed /\ chan[c].buf = << >>

(* The channels implement the abstract mailboxes: what is allocated is     *)
(* open until its closed signal, and closed for good with respChan.        *)
Stage(c) == CASE chan[c].respClosed -> "closed"
              [] chan[c].closed /\ ~chan[c].respClosed -> "closing"
              [] Allocated(c) /\ ~chan[c].closed /\ ~chan[c].respClosed -> "open"
              [] OTHER -> "none"

Boxes == INSTANCE Mailbox WITH
            Boxes <- Chans, Capacity <- ChLen,
            stage <- [c \in Chans |-> Stage(c)],
            queue <- [c \in Chans |-> chan[c].buf]

MailboxSpec == Boxes!BoxSpec
=============================================================================
