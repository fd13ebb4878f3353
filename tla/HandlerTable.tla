---------------------------- MODULE HandlerTable -----------------------------
(***************************************************************************)
(* The handler tables of natssvr.go and websock.go.  A handler of the new  *)
(* style is found by one lookup, in ctxHandleMap.  One of the old style is *)
(* kept in handleMap, behind an adapter in ctxHandleMap that looks again.  *)
(* Registering and removing therefore take two steps, and so does finding; *)
(* any number of goroutines may be at either.                              *)
(*                                                                         *)
(* The event tables of NatsService are a second pair of such maps, without *)
(* a default handler.                                                      *)
(***************************************************************************)
EXTENDS Naturals, FiniteSets

CONSTANTS MsgCmds,    \* the commands of requests, and what the tables are keyed by
          CmdNames,   \* the names handlers are registered under
          Qualified,  \* the command a name stands for
          CtxFns,     \* handlers of the new style (ReqCtxHandler)
          OldFns,     \* handlers of the old style (NatsHandler, WsHandler)
          Compat,     \* the adapter, compatibleNatsCtxHandler or compatibleWsCtxHandler
          NoHandler,  \* nothing registered
          Registrars, \* goroutines that register or remove handlers
          Requests,   \* requests being dispatched
          MaxRegs     \* bound: registrations

(* The two styles are different Go types, and the adapter is unexported.   *)
ASSUME HandlerTableAssumption ==
    /\ Qualified \in [CmdNames -> MsgCmds]
    /\ CtxFns \cap OldFns = {} /\ "default" \notin MsgCmds /\ MaxRegs \in Nat
    /\ {Compat, NoHandler} \cap (CtxFns \cup OldFns) = {} /\ Compat # NoHandler

VARIABLES handleMap,    \* command -> handler of the old style
          ctxHandleMap, \* command -> handler of the new style, or Compat
          defHandler, defCtxHandler,
          reg,          \* where each registrar is
          req,          \* where each dispatch is
          regs,         \* registrations begun
          current,      \* history: what is registered, by the calls that returned
          overlap,      \* history: the slots with two registrations at a time
          disturbed     \* history: the requests dispatched while a registration ran

tableVars == <<handleMap, ctxHandleMap, defHandler, defCtxHandler, reg, req, regs,
               current, overlap, disturbed>>

Default == "default"                  \* the slot of the default handler
Slots == MsgCmds \cup {Default}

(* SubMsgHandle puts the service before a name that has none, so that two  *)
(* names may share a slot; HandleFunc and SubEventHandle take it as it is. *)
SlotOf(name) == IF name = Default THEN Default ELSE Qualified[name]

RegIdle == [pc |-> "idle", slot |-> Default, fn |-> NoHandler]
ReqIdle == [pc |-> "idle", cmd |-> Default, fn |-> NoHandler]

TableInit ==
    /\ handleMap = [c \in MsgCmds |-> NoHandler] /\ ctxHandleMap = handleMap
    /\ defHandler = NoHandler /\ defCtxHandler = NoHandler
    /\ reg = [r \in Registrars |-> RegIdle]
    /\ req = [m \in Requests |-> ReqIdle]
    /\ regs = 0
    /\ current = [s \in Slots |-> NoHandler]
    /\ overlap = {} /\ disturbed = {}
-----------------------------------------------------------------------------
(* SubMsgHandle and SubEventHandle, HandleFunc: fn for a command, or       *)
(* nothing (nil); SubDefaultHandle, DefHandleFunc: fn for everything else. *)
Dispatching == {m \in Requests : req[m].pc # "idle"}
Registering(s) == {r \in Registrars : reg[r].pc # "idle" /\ reg[r].slot = s}

Register(r, slot, fn) ==
    /\ reg[r].pc = "idle" /\ regs < MaxRegs
    /\ slot = Default => fn # NoHandler
    /\ regs' = regs + 1
    /\ reg' = [reg EXCEPT ![r] = [pc |-> IF fn \in CtxFns THEN "second" ELSE "first",
                                  slot |-> slot, fn |-> fn]]
    /\ overlap' = IF Registering(slot) # {} THEN overlap \cup {slot} ELSE overlap
    /\ disturbed' = disturbed \cup Dispatching
    /\ UNCHANGED <<handleMap, ctxHandleMap, defHandler, defCtxHandler, req, current>>

(* The first step stores, or deletes, the handler of the old style.        *)
First(r) ==
    LET s == reg[r].slot IN
    /\ reg[r].pc = "first"
    /\ IF s = Default
       THEN defHandler' = reg[r].fn /\ UNCHANGED handleMap
       ELSE handleMap' = [handleMap EXCEPT ![s] = reg[r].fn] /\ UNCHANGED defHandler
    /\ reg' = [reg EXCEPT ![r].pc = "second"]
    /\ UNCHANGED <<ctxHandleMap, defCtxHandler, req, regs, current, overlap, disturbed>>

(* Seeded fault (HandledAsRegistered): a handler of the old style that was *)
(* removed keeps its adapter.                                              *)
SecondKeepsAdapter(r) ==
    LET s == reg[r].slot
        fn == IF reg[r].fn \in OldFns THEN Compat ELSE reg[r].fn IN
    /\ reg[r].pc = "second"
    /\ IF s = Default
       THEN defCtxHandler' = fn /\ UNCHANGED ctxHandleMap
       ELSE /\ ctxHandleMap' = [ctxHandleMap EXCEPT ![s] =
                                  IF fn = NoHandler /\ @ = Compat THEN @ ELSE fn]
            /\ UNCHANGED defCtxHandler
    /\ reg' = [reg EXCEPT ![r] = RegIdle]
    /\ current' = [current EXCEPT ![s] = reg[r].fn]
    /\ UNCHANGED <<handleMap, defHandler, req, regs, overlap, disturbed>>

(* The second stores the handler of the new style, or the adapter.  One of *)
(* the new style leaves what handleMap holds where it is.                  *)
Second(r) ==
    LET s == reg[r].slot
        fn == IF reg[r].fn \in OldFns THEN Compat ELSE reg[r].fn IN
    /\ reg[r].pc = "second"
    /\ IF s = Default
       THEN defCtxHandler' = fn /\ UNCHANGED ctxHandleMap
       ELSE ctxHandleMap' = [ctxHandleMap EXCEPT ![s] = fn] /\ UNCHANGED defCtxHandler
    /\ reg' = [reg EXCEPT ![r] = RegIdle]
    /\ current' = [current EXCEPT ![s] = reg[r].fn]
    /\ UNCHANGED <<handleMap, defHandler, req, regs, overlap, disturbed>>
-----------------------------------------------------------------------------
(* natsHandler and RecvRequest: the default is read first and replaced by  *)
(* what the command's entry holds; ...                                     *)
Arrive(m, cmd) ==
    /\ req[m] = ReqIdle
    /\ req' = [req EXCEPT ![m] = [pc |-> "load", cmd |-> cmd, fn |-> defCtxHandler]]
    /\ disturbed' = IF \E s \in Slots : Registering(s) # {}
                    THEN disturbed \cup {m} ELSE disturbed \ {m}
    /\ UNCHANGED <<handleMap, ctxHandleMap, defHandler, defCtxHandler, reg, regs, current,
                   overlap>>

Load(m) ==
    LET c == req[m].cmd
        fn == IF ctxHandleMap[c] # NoHandler THEN ctxHandleMap[c] ELSE req[m].fn IN
    /\ req[m].pc = "load"
    /\ req' = [req EXCEPT ![m].fn = fn, ![m].pc = IF fn = Compat THEN "compat" ELSE "done"]
    /\ UNCHANGED <<handleMap, ctxHandleMap, defHandler, defCtxHandler, reg, regs, current,
                   overlap, disturbed>>

(* ... the adapter does the same with the old tables, ...                  *)
CompatDefault(m) ==
    /\ req[m].pc = "compat"
    /\ req' = [req EXCEPT ![m].fn = defHandler, ![m].pc = "compatLoad"]
    /\ UNCHANGED <<handleMap, ctxHandleMap, defHandler, defCtxHandler, reg, regs, current,
                   overlap, disturbed>>

CompatLoad(m) ==
    LET c == req[m].cmd IN
    /\ req[m].pc = "compatLoad"
    /\ req' = [req EXCEPT ![m].pc = "done",
                          ![m].fn = IF handleMap[c] # NoHandler THEN handleMap[c] ELSE @]
    /\ UNCHANGED <<handleMap, ctxHandleMap, defHandler, defCtxHandler, reg, regs, current,
                   overlap, disturbed>>

(* ... and what was found runs, if anything was.                           *)
Forget(m) == /\ req[m].pc = "done"
             /\ req' = [req EXCEPT ![m] = ReqIdle]
             /\ UNCHANGED <<handleMap, ctxHandleMap, defHandler, defCtxHandler, reg, regs,
                            current, overlap, disturbed>>

TableNext ==
    \/ \E r \in Registrars : \/ First(r) \/ Second(r)
                             \/ \E name \in CmdNames \cup {Default},
                                   fn \in CtxFns \cup OldFns \cup {NoHandler} :
                                    Register(r, SlotOf(name), fn)
    \/ \E m \in Requests : \/ Load(m) \/ CompatDefault(m) \/ CompatLoad(m) \/ Forget(m)
                           \/ \E c \in MsgCmds : Arrive(m, c)

TableSpec == TableInit /\ [][TableNext]_tableVars
-----------------------------------------------------------------------------
Registered(cmd) == IF current[cmd] # NoHandler THEN current[cmd] ELSE current[Default]

(* A request dispatched while nobody registers runs what was last          *)
(* registered for its command, under whichever of its names, or else as    *)
(* the default, whatever was replaced, in whichever style, or removed      *)
(* before: no handler left behind in the tables comes back, and none is    *)
(* missed.  Only two registrations of one slot at a time can leave the     *)
(* tables otherwise (natssvr.go:441, websock.go:271).                      *)
HandledAsRegistered ==
    \A m \in Requests :
        (req[m].pc = "done" /\ m \notin disturbed /\ overlap = {})
            => req[m].fn = Registered(req[m].cmd)
=============================================================================
