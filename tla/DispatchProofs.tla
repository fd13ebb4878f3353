---------------------------- MODULE DispatchProofs ----------------------------
(***************************************************************************)
(* Theorems about how a request finds its handler (HandlerTable), how a    *)
(* publisher finds a service (NatsSubjects) and how a dispatcher runs a    *)
(* request (ReqDispatcher), for any number of commands, handlers, filters, *)
(* dispatchers, goroutines and processes.                                  *)
(***************************************************************************)
EXTENDS HandlerTable, NatsSubjects, ReqDispatcher, FiniteSetTheorems, SequenceTheorems,
        WellFoundedInduction, TLAPS

(* The entries of a slot, and the adapter a handler of the old style gets. *)
Ctx(s) == IF s = Default THEN defCtxHandler ELSE ctxHandleMap[s]
Old(s) == IF s = Default THEN defHandler ELSE handleMap[s]
Adapted(fn) == IF fn \in OldFns THEN Compat ELSE fn

AllFns == CtxFns \cup OldFns \cup {NoHandler}
CtxEntry == CtxFns \cup {Compat, NoHandler}
OldEntry == OldFns \cup {NoHandler}

TableType ==
    /\ handleMap \in [MsgCmds -> OldEntry] /\ defHandler \in OldEntry
    /\ ctxHandleMap \in [MsgCmds -> CtxEntry] /\ defCtxHandler \in CtxEntry
    /\ reg \in [Registrars -> [pc : {"idle", "first", "second"}, slot : Slots, fn : AllFns]]
    /\ \A r \in Registrars : reg[r].pc = "first" => reg[r].fn \in OldEntry
    /\ req \in [Requests -> [pc : {"idle", "load", "compat", "compatLoad", "done"},
                             cmd : Slots, fn : AllFns \cup {Compat}]]
    /\ \A m \in Requests : req[m].pc # "idle" => req[m].cmd \in MsgCmds
    /\ current \in [Slots -> AllFns]

(* ctxHandleMap always holds what the calls that returned say.             *)
CtxOK == \A s \in Slots : Ctx(s) = Adapted(current[s])

(* handleMap does where it is looked at, once the slot is quiet; before    *)
(* that it holds what is being registered.                                 *)
OldOK == \A s \in Slots \ overlap :
    /\ \A r, q \in Registering(s) : r = q
    /\ Registering(s) = {} /\ current[s] \notin CtxFns => Old(s) = current[s]
    /\ \A r \in Registering(s) :
         reg[r].pc = "second" /\ reg[r].fn \notin CtxFns => Old(s) = reg[r].fn

(* A dispatch that nothing disturbs is on its way to the handler.          *)
OnItsWay(m) ==
    LET fn == Registered(req[m].cmd) IN
    CASE req[m].pc = "load" -> req[m].fn = Ctx(Default)
      [] req[m].pc = "compat" -> fn \in OldFns
      [] req[m].pc = "compatLoad" -> fn \in OldFns /\ req[m].fn = Old(Default)
      [] req[m].pc = "done" -> req[m].fn = fn
      [] OTHER -> TRUE

ReqOK == \A m \in Dispatching \ disturbed :
    /\ \A s \in Slots : Registering(s) = {}
    /\ overlap = {} => OnItsWay(m)

TableInv == TableType /\ CtxOK /\ OldOK /\ ReqOK
-----------------------------------------------------------------------------
(* The steps, field by field: what is written, the rest of a record being  *)
(* as before.                                                              *)
RegType == [pc : {"idle", "first", "second"}, slot : Slots, fn : AllFns]
ReqType == [pc : {"idle", "load", "compat", "compatLoad", "done"},
            cmd : Slots, fn : AllFns \cup {Compat}]

RegTo(r, pc, slot, fn) ==
    /\ reg' \in [Registrars -> RegType]
    /\ \A q \in Registrars \ {r} : reg'[q] = reg[q]
    /\ reg'[r].pc = pc /\ reg'[r].slot = slot /\ reg'[r].fn = fn

ReqTo(m, pc, cmd, fn) ==
    /\ req' \in [Requests -> ReqType]
    /\ \A q \in Requests \ {m} : req'[q] = req[q]
    /\ req'[m].pc = pc /\ req'[m].cmd = cmd /\ req'[m].fn = fn

(* Registering and removing.                                               *)
LEMMA RegEffects ==
    ASSUME TableType, NEW r \in Registrars
    PROVE  /\ \A s \in Slots, fn \in AllFns :
                Register(r, s, fn) => RegTo(r, IF fn \in CtxFns THEN "second" ELSE "first", s, fn)
           /\ First(r) => RegTo(r, "second", reg[r].slot, reg[r].fn)
           /\ Second(r) => RegTo(r, "idle", Default, NoHandler)
<1>1. reg \in [Registrars -> RegType] /\ reg[r] \in RegType
  BY DEF TableType, RegType
<1>2. ASSUME NEW s \in Slots, NEW fn \in AllFns, Register(r, s, fn)
      PROVE  RegTo(r, IF fn \in CtxFns THEN "second" ELSE "first", s, fn)
  BY <1>1, <1>2 DEF Register, RegTo, RegType
<1>3. ASSUME First(r) PROVE RegTo(r, "second", reg[r].slot, reg[r].fn)
  <2>1. PICK rec : rec = [reg[r] EXCEPT !.pc = "second"]
    OBVIOUS
  <2>2. rec \in RegType /\ rec.pc = "second" /\ rec.slot = reg[r].slot /\ rec.fn = reg[r].fn
    BY <1>1, <2>1 DEF RegType
  <2>3. reg' = [reg EXCEPT ![r] = rec]
    BY <1>3, <2>1 DEF First
  <2> QED
    BY <1>1, <2>2, <2>3 DEF RegTo
<1>4. ASSUME Second(r) PROVE RegTo(r, "idle", Default, NoHandler)
  <2>1. RegIdle \in RegType
    BY DEF RegIdle, RegType, AllFns, Slots
  <2> QED
    BY <1>1, <1>4, <2>1 DEF Second, RegTo, RegIdle
<1> QED
  BY <1>2, <1>3, <1>4

(* Whatever name a handler is registered under, it has a slot.             *)
LEMMA SlotIsSlot == ASSUME NEW name \in CmdNames \cup {Default} PROVE SlotOf(name) \in Slots
  BY HandlerTableAssumption DEF SlotOf, Slots

(* Dispatching.                                                            *)
LEMMA ReqEffects ==
    ASSUME TableType, NEW m \in Requests
    PROVE  LET c == req[m].cmd
               found == IF ctxHandleMap[c] # NoHandler THEN ctxHandleMap[c] ELSE req[m].fn
               old == IF handleMap[c] # NoHandler THEN handleMap[c] ELSE req[m].fn IN
           /\ \A cmd \in MsgCmds : Arrive(m, cmd) => ReqTo(m, "load", cmd, defCtxHandler)
           /\ Load(m) => /\ c \in MsgCmds
                         /\ ReqTo(m, IF found = Compat THEN "compat" ELSE "done", c, found)
           /\ CompatDefault(m) => ReqTo(m, "compatLoad", c, defHandler)
           /\ CompatLoad(m) => c \in MsgCmds /\ ReqTo(m, "done", c, old)
           /\ Forget(m) => ReqTo(m, "idle", Default, NoHandler)
<1> DEFINE c == req[m].cmd
           found == IF ctxHandleMap[c] # NoHandler THEN ctxHandleMap[c] ELSE req[m].fn
           old == IF handleMap[c] # NoHandler THEN handleMap[c] ELSE req[m].fn
<1>1. /\ req \in [Requests -> ReqType] /\ req[m] \in ReqType
      /\ defCtxHandler \in AllFns \cup {Compat} /\ defHandler \in AllFns \cup {Compat}
  BY DEF TableType, ReqType, CtxEntry, OldEntry, AllFns
<1>a. req[m].pc # "idle" => c \in MsgCmds
  BY DEF TableType
<1>b. c \in MsgCmds => found \in AllFns \cup {Compat} /\ old \in AllFns \cup {Compat}
  BY <1>1 DEF TableType, ReqType, CtxEntry, OldEntry, AllFns
<1>2. \A rec \in ReqType : req' = [req EXCEPT ![m] = rec] => ReqTo(m, rec.pc, rec.cmd, rec.fn)
  BY <1>1 DEF ReqTo
<1>3. ASSUME NEW pc \in {"idle", "load", "compat", "compatLoad", "done"},
             NEW fn \in AllFns \cup {Compat},
             req' = [req EXCEPT ![m] = [[req[m] EXCEPT !.fn = fn] EXCEPT !.pc = pc]]
      PROVE  ReqTo(m, pc, c, fn)
  <2>1. PICK rec : rec = [[req[m] EXCEPT !.fn = fn] EXCEPT !.pc = pc]
    OBVIOUS
  <2>2. rec \in ReqType /\ rec.pc = pc /\ rec.cmd = c /\ rec.fn = fn
    BY <1>1, <2>1 DEF ReqType
  <2> QED
    BY <1>2, <1>3, <2>1, <2>2
<1>4. ASSUME NEW cmd \in MsgCmds, Arrive(m, cmd) PROVE ReqTo(m, "load", cmd, defCtxHandler)
  <2>1. [pc |-> "load", cmd |-> cmd, fn |-> defCtxHandler] \in ReqType
    BY <1>1 DEF ReqType, Slots
  <2> QED
    BY <1>2, <1>4, <2>1 DEF Arrive
<1>5. ASSUME Load(m)
      PROVE  c \in MsgCmds /\ ReqTo(m, IF found = Compat THEN "compat" ELSE "done", c, found)
  <2>1. c \in MsgCmds
    BY <1>a, <1>5 DEF Load
  <2>2. req' = [req EXCEPT ![m] = [[req[m] EXCEPT !.fn = found] EXCEPT
                                     !.pc = IF found = Compat THEN "compat" ELSE "done"]]
    BY <1>1, <1>5 DEF Load
  <2> QED
    BY <1>3, <1>b, <2>1, <2>2
<1>6. ASSUME CompatDefault(m) PROVE ReqTo(m, "compatLoad", c, defHandler)
  <2>1. req' = [req EXCEPT ![m] = [[req[m] EXCEPT !.fn = defHandler] EXCEPT !.pc = "compatLoad"]]
    BY <1>1, <1>6 DEF CompatDefault
  <2> QED
    BY <1>1, <1>3, <2>1
<1>7. ASSUME CompatLoad(m) PROVE c \in MsgCmds /\ ReqTo(m, "done", c, old)
  <2>1. c \in MsgCmds
    BY <1>a, <1>7 DEF CompatLoad
  <2>2. PICK rec : rec = [[req[m] EXCEPT !.pc = "done"] EXCEPT !.fn = old]
    OBVIOUS
  <2>3. rec \in ReqType /\ rec.pc = "done" /\ rec.cmd = c /\ rec.fn = old
    BY <1>1, <1>b, <2>1, <2>2 DEF ReqType
  <2>4. req' = [req EXCEPT ![m] = rec]
    BY <1>1, <1>7, <2>2 DEF CompatLoad
  <2> QED
    BY <1>2, <2>1, <2>3, <2>4
<1>8. ASSUME Forget(m) PROVE ReqTo(m, "idle", Default, NoHandler)
  <2>1. ReqIdle \in ReqType
    BY DEF ReqIdle, ReqType, Slots, AllFns
  <2> QED
    BY <1>2, <1>8, <2>1 DEF Forget, ReqIdle
<1> QED
  BY <1>4, <1>5, <1>6, <1>7, <1>8

(* What the tables hold after each step.                                   *)
LEMMA Entries ==
    ASSUME TableType, NEW s \in Slots
    PROVE  /\ \A r \in Registrars : First(r) =>
                /\ Ctx(s)' = Ctx(s)
                /\ Old(s)' = IF s = reg[r].slot THEN reg[r].fn ELSE Old(s)
           /\ \A r \in Registrars : Second(r) =>
                /\ Ctx(s)' = IF s = reg[r].slot THEN Adapted(reg[r].fn) ELSE Ctx(s)
                /\ Old(s)' = Old(s)
                /\ current'[s] = IF s = reg[r].slot THEN reg[r].fn ELSE current[s]
<1>0. Default \notin MsgCmds
  BY HandlerTableAssumption DEF Default
<1>1. ASSUME NEW r \in Registrars, First(r)
      PROVE  /\ Ctx(s)' = Ctx(s)
             /\ Old(s)' = IF s = reg[r].slot THEN reg[r].fn ELSE Old(s)
  BY <1>0, <1>1 DEF First, Ctx, Old, TableType, Slots
<1>2. ASSUME NEW r \in Registrars, Second(r)
      PROVE  /\ Ctx(s)' = IF s = reg[r].slot THEN Adapted(reg[r].fn) ELSE Ctx(s)
             /\ Old(s)' = Old(s)
             /\ current'[s] = IF s = reg[r].slot THEN reg[r].fn ELSE current[s]
  BY <1>0, <1>2 DEF Second, Ctx, Old, Adapted, TableType, Slots
<1> QED
  BY <1>1, <1>2

(* The tables keep their types; an old handler is stored first.            *)
LEMMA TableTypeStep ==
    ASSUME TableInv, [TableNext]_tableVars
    PROVE  TableType'
<1>0. TableType
  BY DEF TableInv
<1>a. Default \notin MsgCmds
  BY HandlerTableAssumption DEF Default
<1>1. ASSUME NEW r \in Registrars, NEW s \in Slots, NEW fn \in AllFns, Register(r, s, fn)
      PROVE  TableType'
  <2>1. UNCHANGED <<handleMap, ctxHandleMap, defHandler, defCtxHandler, req, current>>
    BY <1>1 DEF Register
  <2>2. RegTo(r, IF fn \in CtxFns THEN "second" ELSE "first", s, fn)
    BY <1>0, <1>1, RegEffects
  <2>3. \A q \in Registrars : reg'[q].pc = "first" => reg'[q].fn \in OldEntry
    BY <1>0, <2>2 DEF RegTo, TableType, AllFns, OldEntry
  <2> QED
    BY <1>0, <2>1, <2>2, <2>3 DEF TableType, RegTo, RegType
<1>2. ASSUME NEW r \in Registrars, First(r) PROVE TableType'
  <2>1. UNCHANGED <<ctxHandleMap, defCtxHandler, req, current>>
    BY <1>2 DEF First
  <2>2. RegTo(r, "second", reg[r].slot, reg[r].fn)
    BY <1>0, <1>2, RegEffects
  <2>3. reg[r].fn \in OldEntry
    BY <1>0, <1>2 DEF TableType, First
  <2>4. handleMap' \in [MsgCmds -> OldEntry] /\ defHandler' \in OldEntry
    BY <1>0, <1>2, <2>3 DEF TableType, First
  <2>5. \A q \in Registrars : reg'[q].pc = "first" => reg'[q].fn \in OldEntry
    BY <1>0, <2>2 DEF RegTo, TableType
  <2> QED
    BY <1>0, <2>1, <2>2, <2>4, <2>5 DEF TableType, RegTo, RegType
<1>3. ASSUME NEW r \in Registrars, Second(r) PROVE TableType'
  <2>1. UNCHANGED <<handleMap, defHandler, req>>
    BY <1>3 DEF Second
  <2>2. RegTo(r, "idle", Default, NoHandler)
    BY <1>0, <1>3, RegEffects
  <2>3. reg[r].fn \in AllFns /\ Adapted(reg[r].fn) \in CtxEntry
    BY <1>0 DEF TableType, AllFns, CtxEntry, Adapted
  <2>4. /\ ctxHandleMap' \in [MsgCmds -> CtxEntry] /\ defCtxHandler' \in CtxEntry
        /\ current' \in [Slots -> AllFns]
    BY <1>0, <1>3, <2>3 DEF TableType, Second, Adapted
  <2>5. \A q \in Registrars : reg'[q].pc = "first" => reg'[q].fn \in OldEntry
    BY <1>0, <2>2 DEF RegTo, TableType
  <2> QED
    BY <1>0, <2>1, <2>2, <2>4, <2>5 DEF TableType, RegTo, RegType
<1>4. ASSUME NEW m \in Requests,
             \/ Load(m) \/ CompatDefault(m) \/ CompatLoad(m) \/ Forget(m)
             \/ \E c \in MsgCmds : Arrive(m, c)
      PROVE  TableType'
  <2>1. UNCHANGED <<handleMap, ctxHandleMap, defHandler, defCtxHandler, reg, current>>
    BY <1>4 DEF Load, CompatDefault, CompatLoad, Forget, Arrive
  <2>2. CompatDefault(m) => req[m].cmd \in MsgCmds
    BY <1>0 DEF TableType, CompatDefault
  <2>3. PICK pc, cmd, fn : ReqTo(m, pc, cmd, fn) /\ (pc # "idle" => cmd \in MsgCmds)
    <3>1. CASE \E c \in MsgCmds : Arrive(m, c)
      BY <1>0, <3>1, ReqEffects
    <3>2. CASE Load(m) \/ CompatLoad(m)
      BY <1>0, <3>2, ReqEffects
    <3>3. CASE CompatDefault(m) \/ Forget(m)
      BY <1>0, <2>2, <3>3, ReqEffects
    <3> QED
      BY <1>4, <3>1, <3>2, <3>3
  <2>4. \A q \in Requests : req'[q].pc # "idle" => req'[q].cmd \in MsgCmds
    BY <1>0, <2>3 DEF ReqTo, TableType
  <2> QED
    BY <1>0, <2>1, <2>3, <2>4 DEF TableType, ReqTo, ReqType
<1>5. CASE UNCHANGED tableVars
  BY <1>0, <1>5 DEF TableType, tableVars
<1> QED
  BY <1>1, <1>2, <1>3, <1>4, <1>5, SlotIsSlot DEF TableNext, AllFns

(* The tables say what the calls that returned said.                       *)
LEMMA TablesStep ==
    ASSUME TableInv, [TableNext]_tableVars
    PROVE  CtxOK' /\ OldOK'
<1>0. TableType /\ CtxOK /\ OldOK
  BY DEF TableInv
<1>1. ASSUME UNCHANGED <<handleMap, ctxHandleMap, defHandler, defCtxHandler, reg, current, overlap>>
      PROVE  CtxOK' /\ OldOK'
  BY <1>0, <1>1 DEF CtxOK, OldOK, Ctx, Old, Registering
<1>2. ASSUME NEW r \in Registrars, NEW slot \in Slots, NEW fn \in AllFns, Register(r, slot, fn)
      PROVE  CtxOK' /\ OldOK'
  <2>1. /\ RegTo(r, IF fn \in CtxFns THEN "second" ELSE "first", slot, fn) /\ reg[r].pc = "idle"
        /\ UNCHANGED current /\ \A s : Ctx(s)' = Ctx(s) /\ Old(s)' = Old(s)
        /\ overlap' = IF Registering(slot) # {} THEN overlap \cup {slot} ELSE overlap
    BY <1>0, <1>2, RegEffects DEF Register, Ctx, Old
  <2>2. CtxOK'
    BY <1>0, <2>1 DEF CtxOK
  <2>3. ASSUME NEW s \in Slots, s \notin overlap'
        PROVE  /\ \A p, q \in Registering(s)' : p = q
               /\ Registering(s)' = {} /\ current'[s] \notin CtxFns => Old(s)' = current'[s]
               /\ \A q \in Registering(s)' :
                    reg'[q].pc = "second" /\ reg'[q].fn \notin CtxFns => Old(s)' = reg'[q].fn
    <3>1. CASE s = slot
      <4>1. Registering(s) = {} /\ Registering(s)' = {r}
        BY <2>1, <2>3, <3>1 DEF Registering, RegTo
      <4> QED
        BY <2>1, <4>1 DEF RegTo
    <3>2. CASE s # slot
      <4>1. /\ Registering(s)' = Registering(s) /\ s \notin overlap
            /\ \A q \in Registering(s) : reg'[q] = reg[q]
        BY <2>1, <2>3, <3>2 DEF Registering, RegTo
      <4> QED
        BY <1>0, <2>1, <4>1 DEF OldOK
    <3> QED
      BY <3>1, <3>2
  <2> QED
    BY <2>2, <2>3 DEF OldOK
<1>3. ASSUME NEW r \in Registrars, First(r) PROVE CtxOK' /\ OldOK'
  <2>1. /\ RegTo(r, "second", reg[r].slot, reg[r].fn) /\ reg[r].pc = "first"
        /\ UNCHANGED <<current, overlap>>
        /\ \A s \in Slots : /\ Ctx(s)' = Ctx(s)
                            /\ Old(s)' = IF s = reg[r].slot THEN reg[r].fn ELSE Old(s)
    BY <1>0, <1>3, RegEffects, Entries DEF First
  <2>2. CtxOK'
    BY <1>0, <2>1 DEF CtxOK
  <2>3. ASSUME NEW s \in Slots, s \notin overlap
        PROVE  /\ \A p, q \in Registering(s)' : p = q
               /\ Registering(s)' = {} /\ current[s] \notin CtxFns => Old(s)' = current[s]
               /\ \A q \in Registering(s)' :
                    reg'[q].pc = "second" /\ reg'[q].fn \notin CtxFns => Old(s)' = reg'[q].fn
    <3>1. Registering(s)' = Registering(s)
      BY <2>1 DEF Registering, RegTo
    <3>2. CASE s = reg[r].slot
      <4>1. \A q \in Registering(s) : q = r
        BY <1>0, <2>1, <2>3, <3>2 DEF OldOK, Registering
      <4>2. r \in Registering(s)
        BY <2>1, <3>2 DEF Registering
      <4> QED
        BY <2>1, <3>1, <3>2, <4>1, <4>2 DEF RegTo
    <3>3. CASE s # reg[r].slot
      <4>1. \A q \in Registering(s) : reg'[q] = reg[q]
        BY <2>1, <3>3 DEF Registering, RegTo
      <4> QED
        BY <1>0, <2>1, <2>3, <3>1, <3>3, <4>1 DEF OldOK
    <3> QED
      BY <3>2, <3>3
  <2> QED
    BY <2>1, <2>2, <2>3 DEF OldOK
<1>4. ASSUME NEW r \in Registrars, Second(r) PROVE CtxOK' /\ OldOK'
  <2>1. /\ RegTo(r, "idle", Default, NoHandler) /\ reg[r].pc = "second" /\ UNCHANGED overlap
        /\ \A s \in Slots :
             /\ Ctx(s)' = IF s = reg[r].slot THEN Adapted(reg[r].fn) ELSE Ctx(s)
             /\ Old(s)' = Old(s)
             /\ current'[s] = IF s = reg[r].slot THEN reg[r].fn ELSE current[s]
    BY <1>0, <1>4, RegEffects, Entries DEF Second
  <2>2. CtxOK'
    BY <1>0, <2>1 DEF CtxOK, Adapted
  <2>3. ASSUME NEW s \in Slots, s \notin overlap
        PROVE  /\ \A p, q \in Registering(s)' : p = q
               /\ Registering(s)' = {} /\ current'[s] \notin CtxFns => Old(s)' = current'[s]
               /\ \A q \in Registering(s)' :
                    reg'[q].pc = "second" /\ reg'[q].fn \notin CtxFns => Old(s)' = reg'[q].fn
    <3>1. Registering(s)' = Registering(s) \ {r}
      BY <2>1 DEF Registering, RegTo
    <3>2. CASE s = reg[r].slot
      <4>1. r \in Registering(s) /\ \A q \in Registering(s) : q = r
        BY <1>0, <2>1, <2>3, <3>2 DEF OldOK, Registering
      <4>2. reg[r].fn \notin CtxFns => Old(s) = reg[r].fn
        BY <1>0, <2>1, <2>3, <4>1 DEF OldOK
      <4> QED
        BY <2>1, <3>1, <3>2, <4>1, <4>2
    <3>3. CASE s # reg[r].slot
      <4>1. r \notin Registering(s) /\ \A q \in Registering(s) : reg'[q] = reg[q]
        BY <2>1, <3>3 DEF Registering, RegTo
      <4> QED
        BY <1>0, <2>1, <2>3, <3>1, <3>3, <4>1 DEF OldOK
    <3> QED
      BY <3>2, <3>3
  <2> QED
    BY <2>1, <2>2, <2>3 DEF OldOK
<1>5. ASSUME NEW m \in Requests,
             \/ Load(m) \/ CompatDefault(m) \/ CompatLoad(m) \/ Forget(m)
             \/ \E c \in MsgCmds : Arrive(m, c)
      PROVE  CtxOK' /\ OldOK'
  BY <1>1, <1>5 DEF Load, CompatDefault, CompatLoad, Forget, Arrive
<1>6. CASE UNCHANGED tableVars
  BY <1>1, <1>6 DEF tableVars
<1> QED
  BY <1>2, <1>3, <1>4, <1>5, <1>6, SlotIsSlot DEF TableNext, AllFns

(* What is found in a quiet table.                                         *)
LEMMA Lookup ==
    ASSUME TableInv, overlap = {}, \A s \in Slots : Registering(s) = {},
           NEW c \in MsgCmds
    PROVE  LET found == IF ctxHandleMap[c] # NoHandler THEN ctxHandleMap[c] ELSE Ctx(Default)
               old == IF handleMap[c] # NoHandler THEN handleMap[c] ELSE Old(Default) IN
           /\ found = Compat => Registered(c) \in OldFns
           /\ found # Compat => found = Registered(c)
           /\ Registered(c) \in OldFns => old = Registered(c)
<1>0. /\ c \in Slots /\ Default \in Slots /\ c # Default
      /\ ctxHandleMap[c] = Ctx(c) /\ handleMap[c] = Old(c)
  BY HandlerTableAssumption DEF Slots, Default, Ctx, Old
<1>1. /\ Ctx(c) = Adapted(current[c]) /\ Ctx(Default) = Adapted(current[Default])
      /\ current[c] \in AllFns /\ current[Default] \in AllFns
  BY <1>0 DEF TableInv, CtxOK, TableType
<1>2. /\ current[c] \notin CtxFns => Old(c) = current[c]
      /\ current[Default] \notin CtxFns => Old(Default) = current[Default]
  BY <1>0 DEF TableInv, OldOK
<1>3. \A fn \in AllFns : /\ Adapted(fn) = NoHandler <=> fn = NoHandler
                         /\ Adapted(fn) = Compat <=> fn \in OldFns
                         /\ fn \notin OldFns => Adapted(fn) = fn
  BY HandlerTableAssumption DEF Adapted, AllFns
<1>4. NoHandler \notin CtxFns /\ NoHandler \notin OldFns /\ CtxFns \cap OldFns = {}
  BY HandlerTableAssumption
<1> QED
  BY <1>0, <1>1, <1>2, <1>3, <1>4 DEF Registered

(* A dispatch goes on towards its handler, whatever the other dispatches   *)
(* do, as long as nobody registers.                                        *)
LEMMA ReqStep ==
    ASSUME TableInv, [TableNext]_tableVars
    PROVE  ReqOK'
<1>0. TableType /\ CtxOK /\ OldOK /\ ReqOK
  BY DEF TableInv
<1>1. ASSUME NEW r \in Registrars, NEW slot \in Slots, NEW fn \in AllFns, Register(r, slot, fn)
      PROVE  ReqOK'
  BY <1>1 DEF Register, ReqOK, Dispatching
<1>2. ASSUME NEW r \in Registrars, First(r) \/ Second(r) PROVE ReqOK'
  <2>1. UNCHANGED <<req, disturbed>> /\ reg[r].pc # "idle"
    BY <1>2 DEF First, Second
  <2>2. reg[r].slot \in Slots /\ r \in Registering(reg[r].slot)
    BY <1>0, <2>1 DEF TableType, Registering
  <2>3. Dispatching \ disturbed = {}
    BY <1>0, <2>2 DEF ReqOK
  <2> QED
    BY <2>1, <2>3 DEF ReqOK, Dispatching
<1>3. ASSUME UNCHANGED <<handleMap, ctxHandleMap, defHandler, defCtxHandler, reg, current, overlap>>
      PROVE  /\ \A s : Ctx(s)' = Ctx(s) /\ Old(s)' = Old(s) /\ Registering(s)' = Registering(s)
             /\ \A c : Registered(c)' = Registered(c)
  BY <1>3 DEF Ctx, Old, Registering, Registered
<1>4. ASSUME NEW m \in Requests, NEW pc, NEW cmd, NEW fn, ReqTo(m, pc, cmd, fn),
             UNCHANGED <<handleMap, ctxHandleMap, defHandler, defCtxHandler, reg, current,
                         overlap>>,
             disturbed \ {m} \subseteq disturbed',
             (m \in Dispatching \/ m \notin disturbed') /\ m \in Dispatching' \ disturbed' =>
                 /\ \A s \in Slots : Registering(s) = {}
                 /\ overlap = {} => OnItsWay(m)'
      PROVE  ReqOK'
  <2>1. ASSUME NEW q \in Dispatching' \ disturbed'
        PROVE  /\ \A s \in Slots : Registering(s)' = {}
               /\ overlap' = {} => OnItsWay(q)'
    <3>1. CASE q = m
      BY <1>3, <1>4, <2>1, <3>1
    <3>2. CASE q # m
      <4>1. q \in Dispatching \ disturbed /\ req'[q] = req[q]
        BY <1>4, <2>1, <3>2 DEF Dispatching, ReqTo
      <4>2. OnItsWay(q)' <=> OnItsWay(q)
        BY <1>3, <1>4, <4>1 DEF OnItsWay
      <4> QED
        BY <1>0, <1>3, <1>4, <4>1, <4>2 DEF ReqOK
    <3> QED
      BY <3>1, <3>2
  <2> QED
    BY <2>1 DEF ReqOK
<1>5. ASSUME NEW m \in Requests, NEW c \in MsgCmds, Arrive(m, c) PROVE ReqOK'
  <2>1. /\ UNCHANGED <<handleMap, ctxHandleMap, defHandler, defCtxHandler, reg, current, overlap>>
        /\ disturbed' = IF \E s \in Slots : Registering(s) # {}
                        THEN disturbed \cup {m} ELSE disturbed \ {m}
    BY <1>5 DEF Arrive
  <2>2. ReqTo(m, "load", c, defCtxHandler)
    BY <1>0, <1>5, ReqEffects
  <2>3. OnItsWay(m)'
    BY <2>1, <2>2 DEF OnItsWay, ReqTo, Ctx
  <2> QED
    BY <1>4, <2>1, <2>2, <2>3
<1>6. ASSUME NEW m \in Requests, Load(m) \/ CompatDefault(m) \/ CompatLoad(m) PROVE ReqOK'
  <2>1. /\ UNCHANGED <<handleMap, ctxHandleMap, defHandler, defCtxHandler, reg, current, overlap,
                       disturbed>>
        /\ m \in Dispatching
    BY <1>6 DEF Load, CompatDefault, CompatLoad, Dispatching
  <2> DEFINE c == req[m].cmd
             found == IF ctxHandleMap[c] # NoHandler THEN ctxHandleMap[c] ELSE req[m].fn
             old == IF handleMap[c] # NoHandler THEN handleMap[c] ELSE req[m].fn
  <2>2. PICK pc, fn : /\ ReqTo(m, pc, c, fn)
                      /\ Load(m) => fn = found /\ pc = IF found = Compat THEN "compat" ELSE "done"
                      /\ CompatDefault(m) => fn = defHandler /\ pc = "compatLoad"
                      /\ CompatLoad(m) => fn = old /\ pc = "done"
    <3>1. CASE Load(m)
      <4>1. ~CompatDefault(m) /\ ~CompatLoad(m)
        BY <3>1 DEF Load, CompatDefault, CompatLoad
      <4> QED
        BY <1>0, <3>1, <4>1, ReqEffects
    <3>2. CASE CompatDefault(m)
      <4>1. ~Load(m) /\ ~CompatLoad(m)
        BY <3>2 DEF Load, CompatDefault, CompatLoad
      <4> QED
        BY <1>0, <3>2, <4>1, ReqEffects
    <3>3. CASE CompatLoad(m)
      <4>1. ~CompatDefault(m) /\ ~Load(m)
        BY <3>3 DEF Load, CompatDefault, CompatLoad
      <4> QED
        BY <1>0, <3>3, <4>1, ReqEffects
    <3> QED
      BY <1>6, <3>1, <3>2, <3>3
  <2>3. ASSUME m \notin disturbed
        PROVE  /\ \A s \in Slots : Registering(s) = {}
               /\ overlap = {} => OnItsWay(m)'
    <3>1. /\ \A s \in Slots : Registering(s) = {}
          /\ overlap = {} => OnItsWay(m)
      BY <1>0, <2>1, <2>3 DEF ReqOK
    <3>2. /\ req'[m].pc = pc /\ req'[m].cmd = c /\ req'[m].fn = fn /\ c \in MsgCmds
          /\ Registered(c)' = Registered(c) /\ Old(Default)' = defHandler
      BY <1>0, <1>3, <2>1, <2>2 DEF ReqTo, TableType, Dispatching, Old
    <3>3. ASSUME overlap = {} PROVE OnItsWay(m)'
      <4>1. CASE Load(m)
        <5>1. req[m].fn = Ctx(Default)
          BY <3>1, <3>3, <4>1 DEF OnItsWay, Load
        <5>2. /\ found = Compat => Registered(c) \in OldFns
              /\ found # Compat => found = Registered(c)
          BY <3>1, <3>2, <3>3, <5>1, Lookup
        <5> QED
          BY <2>2, <3>2, <4>1, <5>2 DEF OnItsWay
      <4>2. CASE CompatDefault(m)
        <5>1. Registered(c) \in OldFns
          BY <3>1, <3>3, <4>2 DEF OnItsWay, CompatDefault
        <5> QED
          BY <2>2, <3>2, <4>2, <5>1 DEF OnItsWay
      <4>3. CASE CompatLoad(m)
        <5>1. Registered(c) \in OldFns /\ req[m].fn = Old(Default)
          BY <3>1, <3>3, <4>3 DEF OnItsWay, CompatLoad
        <5>2. old = Registered(c)
          BY <3>1, <3>2, <3>3, <5>1, Lookup
        <5> QED
          BY <2>2, <3>2, <4>3, <5>2 DEF OnItsWay
      <4> QED
        BY <1>6, <4>1, <4>2, <4>3
    <3> QED
      BY <3>1, <3>3
  <2> QED
    BY <1>4, <2>1, <2>2, <2>3
<1>7. ASSUME NEW m \in Requests, Forget(m) PROVE ReqOK'
  <2>1. UNCHANGED <<handleMap, ctxHandleMap, defHandler, defCtxHandler, reg, current, overlap,
                    disturbed>>
    BY <1>7 DEF Forget
  <2>2. ReqTo(m, "idle", Default, NoHandler)
    BY <1>0, <1>7, ReqEffects
  <2>3. m \notin Dispatching'
    BY <2>2 DEF Dispatching, ReqTo
  <2> QED
    BY <1>4, <2>1, <2>2, <2>3
<1>8. CASE UNCHANGED tableVars
  BY <1>0, <1>8 DEF tableVars, ReqOK, Dispatching, Registering, OnItsWay, Registered, Ctx, Old
<1> QED
  BY <1>1, <1>2, <1>5, <1>6, <1>7, <1>8, SlotIsSlot DEF TableNext, AllFns

(* The tables satisfy the invariant, however they are used.                *)
THEOREM TableInvariant == TableSpec => []TableInv
<1>1. TableInit => TableInv
  <2> SUFFICES ASSUME TableInit PROVE TableInv
    OBVIOUS
  <2>1. RegIdle \in RegType /\ ReqIdle \in ReqType
    BY DEF RegIdle, ReqIdle, RegType, ReqType, AllFns, Slots
  <2>2. TableType
    BY <2>1 DEF TableInit, TableType, RegType, ReqType, RegIdle, ReqIdle, AllFns, CtxEntry, OldEntry
  <2>3. CtxOK /\ OldOK
    BY HandlerTableAssumption
       DEF TableInit, CtxOK, OldOK, Ctx, Old, Adapted, Registering, RegIdle, Slots
  <2>4. ReqOK
    BY DEF TableInit, ReqOK, Dispatching, ReqIdle
  <2> QED
    BY <2>2, <2>3, <2>4 DEF TableInv
<1>2. TableInv /\ [TableNext]_tableVars => TableInv'
  BY TableTypeStep, TablesStep, ReqStep DEF TableInv
<1> QED
  BY <1>1, <1>2, PTL DEF TableSpec

(* A request runs the handler registered for it: any number of goroutines  *)
(* may register, replace and remove handlers of both styles, and others    *)
(* dispatch, as long as no registration of any slot overlapped another of  *)
(* the same slot, and none ran during this dispatch.                       *)
THEOREM RightHandler == TableSpec => []HandledAsRegistered
<1>1. TableInv => HandledAsRegistered
  BY DEF TableInv, ReqOK, OnItsWay, HandledAsRegistered, Dispatching
<1> QED
  BY <1>1, TableInvariant, PTL
-----------------------------------------------------------------------------
(* Subjects.  A service subscribes to its own and to any events.           *)
AllSubs == {<<"req", n, "*">> : n \in Names \cup Marks}
      \cup {<<"req", n, "*", "*", "*">> : n \in Names \cup Marks}
      \cup {<<"rsp", p, "*">> : p \in Marks}
      \cup {<<"evt", n, ev>> : n \in Names, ev \in Methods}

ListType == [ready : BOOLEAN, subjs : {MakeSubjs(ss) : ss \in SUBSET AllSubs}]
FetchType == [pc : {"wait", "ask"}, left : SUBSET Servers, ss : SUBSET AllSubs]

SubjInv ==
    /\ subs \in [Marks -> SUBSET AllSubs]
    /\ fetch \in [Marks -> FetchType]
    /\ known \in [Marks -> ListType]

(* A subject with some of its last tokens replaced by stars.               *)
LEMMA StarredTokens ==
    ASSUME NEW a, NEW b, NEW c
    PROVE  /\ Starred(<<a, b, c>>, 2) = <<a, "*", "*">>
           /\ Starred(<<a, b, c>>, 3) = <<a, b, "*">>
           /\ Starred(<<a, b, c>>, 4) = <<a, b, c>>
  BY DEF Starred

(* The same for the subject of a call.                                     *)
LEMMA StarredCall ==
    ASSUME NEW a, NEW b, NEW c, NEW d, NEW e
    PROVE  /\ Starred(<<a, b, c, d, e>>, 2) = <<a, "*", "*", "*", "*">>
           /\ Starred(<<a, b, c, d, e>>, 3) = <<a, b, "*", "*", "*">>
  BY DEF Starred

(* It matches the subject it was made from.                                *)
LEMMA StarredMatches ==
    ASSUME NEW subj, \/ \E a, b, c : subj = <<a, b, c>>
                     \/ \E a, b, c, d, e : subj = <<a, b, c, d, e>>,
           NEW i \in 2 .. Len(subj) + 1
    PROVE  Matches(Starred(subj, i), subj)
<1>1. CASE \E a, b, c : subj = <<a, b, c>>
  <2>1. PICK a, b, c : subj = <<a, b, c>>
    BY <1>1
  <2>2. /\ Len(subj) = 3 /\ DOMAIN subj = 1 .. 3
        /\ Starred(subj, i) = [j \in 1 .. 3 |-> IF j >= i THEN "*" ELSE subj[j]]
    BY <2>1 DEF Starred
  <2>3. Len(Starred(subj, i)) = 3
    BY <2>2
  <2> QED
    BY <2>2, <2>3 DEF Matches
<1>2. CASE \E a, b, c, d, e : subj = <<a, b, c, d, e>>
  <2>1. PICK a, b, c, d, e : subj = <<a, b, c, d, e>>
    BY <1>2
  <2>2. /\ Len(subj) = 5 /\ DOMAIN subj = 1 .. 5
        /\ Starred(subj, i) = [j \in 1 .. 5 |-> IF j >= i THEN "*" ELSE subj[j]]
    BY <2>1 DEF Starred
  <2>3. Len(Starred(subj, i)) = 5
    BY <2>2
  <2> QED
    BY <2>2, <2>3 DEF Matches
<1> QED
  BY <1>1, <1>2

(* A subscription that matches a subject is the subject, starred.          *)
LEMMA MatchesStarred ==
    ASSUME NEW s \in AllSubs, NEW subj \in Subjects, Matches(s, subj)
    PROVE  \E i \in 2 .. Len(subj) + 1 : s = Starred(subj, i)
<1>1. CASE \E x, y, z : s = <<x, y, z>>
  <2>1. PICK x, y, z : s = <<x, y, z>>
    BY <1>1
  <2>2. Len(subj) = 3
    BY <2>1 DEF Matches
  <2>3. \E a, b, c : subj = <<a, b, c>>
    BY <2>2 DEF Subjects, MsgSubject, CallSubject, ReplySubject, EventSubject
  <2>4. PICK a, b, c : subj = <<a, b, c>>
    BY <2>3
  <2>5. x \in {"*", a} /\ y \in {"*", b} /\ z \in {"*", c}
    BY <2>1, <2>4 DEF Matches
  <2>6. \/ x \in {"req", "rsp"} /\ z = "*"
        \/ x = "evt" /\ y # "*"
    BY <2>1, SubjectsAssumption DEF AllSubs
  <2>7. s \in {<<a, "*", "*">>, <<a, b, "*">>, <<a, b, c>>}
    BY <2>1, <2>5, <2>6
  <2> QED
    BY <2>2, <2>4, <2>7, StarredTokens
<1>2. CASE \E n : s = <<"req", n, "*", "*", "*">>
  <2>1. PICK n : s = <<"req", n, "*", "*", "*">>
    BY <1>2
  <2>2. Len(subj) = 5
    BY <2>1 DEF Matches
  <2>3. \E a, b, c, d, e : subj = <<a, b, c, d, e>>
    BY <2>2 DEF Subjects, MsgSubject, CallSubject, ReplySubject, EventSubject
  <2>4. PICK a, b, c, d, e : subj = <<a, b, c, d, e>>
    BY <2>3
  <2>5. "req" \in {"*", a} /\ n \in {"*", b}
    BY <2>1, <2>4 DEF Matches
  <2>6. s = <<a, "*", "*", "*", "*">> \/ s = <<a, b, "*", "*", "*">>
    BY <2>1, <2>5
  <2>a. /\ Starred(<<a, b, c, d, e>>, 2) = <<a, "*", "*", "*", "*">>
        /\ Starred(<<a, b, c, d, e>>, 3) = <<a, b, "*", "*", "*">>
    BY StarredCall, Zenon
  <2>7. s = Starred(subj, 2) \/ s = Starred(subj, 3)
    BY <2>4, <2>6, <2>a
  <2>8. 2 \in 2 .. Len(subj) + 1 /\ 3 \in 2 .. Len(subj) + 1
    BY <2>2
  <2> QED
    BY <2>7, <2>8
<1> QED
  BY <1>1, <1>2 DEF AllSubs

(* Among the numbers a lookup tries there is a largest that hits.          *)
LEMMA LargestHit ==
    ASSUME NEW hits \in SUBSET (2 .. 6), hits # {}
    PROVE  (CHOOSE i \in hits : \A j \in hits : i >= j) \in hits
<1>1. \E i \in hits : \A j \in hits : i >= j
  <2>1. CASE 6 \in hits
    BY <2>1
  <2>2. CASE 6 \notin hits /\ 5 \in hits
    BY <2>2
  <2>3. CASE hits \cap {6, 5} = {} /\ 4 \in hits
    BY <2>3
  <2>4. CASE hits \cap {6, 5, 4} = {} /\ 3 \in hits
    BY <2>4
  <2>5. CASE hits \cap {6, 5, 4, 3} = {} /\ 2 \in hits
    BY <2>5
  <2>6. \A i \in hits : i \in {2, 3, 4, 5, 6}
    OBVIOUS
  <2>7. \/ 6 \in hits
        \/ 6 \notin hits /\ 5 \in hits
        \/ hits \cap {6, 5} = {} /\ 4 \in hits
        \/ hits \cap {6, 5, 4} = {} /\ 3 \in hits
        \/ hits \cap {6, 5, 4, 3} = {} /\ 2 \in hits
    BY <2>6
  <2> QED
    BY <2>1, <2>2, <2>3, <2>4, <2>5, <2>7
<1> QED
  BY <1>1

(* The lookup lets through what a listed subscription matches.             *)
LEMMA CheckSubjExact ==
    ASSUME NEW ss \in SUBSET AllSubs, NEW subj \in Subjects
    PROVE  CheckSubj(MakeSubjs(ss), subj) <=> \E s \in ss : Matches(s, subj)
<1> DEFINE hits == {i \in 2..(Len(subj) + 1) : Starred(subj, i) \in DOMAIN MakeSubjs(ss)}
           last == CHOOSE i \in hits : \A j \in hits : i >= j
<1>1. \/ \E a, b, c : subj = <<a, b, c>>
      \/ \E a, b, c, d, e : subj = <<a, b, c, d, e>>
  BY DEF Subjects, MsgSubject, CallSubject, ReplySubject, EventSubject
<1>2. Len(subj) \in {3, 5}
  BY <1>1
<1>3. DOMAIN MakeSubjs(ss) = ss /\ \A s \in ss : MakeSubjs(ss)[s] = TRUE
  BY DEF MakeSubjs
<1>4. hits \in SUBSET (2 .. 6)
  <2>1. ASSUME NEW n \in {3, 5} PROVE 2 .. (n + 1) \subseteq 2 .. 6
    OBVIOUS
  <2> QED
    BY <1>2, <2>1
<1>5. hits # {} => last \in hits
  BY <1>4, LargestHit
<1>6. CheckSubj(MakeSubjs(ss), subj) <=> hits # {}
  <2>1. CheckSubj(MakeSubjs(ss), subj) <=> (hits # {} /\ MakeSubjs(ss)[Starred(subj, last)])
    BY DEF CheckSubj
  <2>2. hits # {} => Starred(subj, last) \in ss
    BY <1>3, <1>5
  <2> HIDE DEF hits, last
  <2> QED
    BY <1>3, <2>1, <2>2
<1>7. ASSUME hits # {} PROVE \E s \in ss : Matches(s, subj)
  BY <1>1, <1>3, <1>7, StarredMatches
<1>8. ASSUME NEW s \in ss, Matches(s, subj) PROVE hits # {}
  BY <1>3, <1>8, MatchesStarred
<1> QED
  BY <1>6, <1>7, <1>8

(* What is subscribed to, fetched and listed are subjects of these kinds.  *)
LEMMA SubjStep == SubjInv /\ [SubjNext]_subjVars => SubjInv'
<1> SUFFICES ASSUME SubjInv, [SubjNext]_subjVars PROVE SubjInv'
  OBVIOUS
<1> USE DEF SubjInv
<1>1. ASSUME NEW p \in Marks, NatsSubSpec(p) PROVE SubjInv'
  <2>1. \A i \in 1..5 : SubSpec(p)[i] \in AllSubs
    BY SubjectsAssumption DEF SubSpec, AllSubs
  <2>2. Cardinality(Subscribed(p)) + 1 \in 1..5
    <3>0. IsFiniteSet(1..5)
      <4>1. 1 \in Int /\ 5 \in Int
        OBVIOUS
      <4> QED
        BY <4>1, FS_Interval, Zenon
    <3>1. Subscribed(p) \subseteq 1..5
      BY DEF Subscribed
    <3>2. Cardinality(Subscribed(p)) \in Nat
      BY <3>0, <3>1, FS_Subset, FS_CardinalityType
    <3> QED
      BY <1>1, <3>2 DEF NatsSubSpec
  <2>3. subs' \in [Marks -> SUBSET AllSubs] /\ UNCHANGED <<known, fetch>>
    BY <1>1, <2>1, <2>2 DEF NatsSubSpec
  <2> QED
    BY <2>3
<1>2. ASSUME NEW p \in Marks, NEW mod \in Names, NEW ev \in Methods, SubEventHandle(p, mod, ev)
      PROVE  SubjInv'
  <2>1. subs' \in [Marks -> SUBSET AllSubs] /\ UNCHANGED <<known, fetch>>
    BY <1>2 DEF SubEventHandle, EventSubject, AllSubs
  <2> QED
    BY <2>1
<1>3. ASSUME NEW p \in Marks, ProcessEnds(p) PROVE SubjInv'
  <2>1. Waiting \in FetchType /\ Unready \in ListType
    BY DEF Waiting, FetchType, Unready, ListType
  <2> QED
    BY <1>3, <2>1 DEF ProcessEnds
<1>4. ASSUME NEW p \in Marks, FetchStart(p) PROVE SubjInv'
  <2>1. [pc |-> "ask", left |-> Servers, ss |-> {}] \in FetchType
    BY DEF FetchType
  <2> QED
    BY <1>4, <2>1 DEF FetchStart
<1>5. ASSUME NEW p \in Marks, FetchAsk(p) PROVE SubjInv'
  <2>0. PICK s \in fetch[p].left : \E seen \in {{}, {s}, Servers \ {s}, Servers} :
          fetch' = [fetch EXCEPT ![p].left = @ \ {s}, ![p].ss = @ \cup SubsAt(seen)]
    BY <1>5 DEF FetchAsk
  <2>1. PICK seen \in {{}, {s}, Servers \ {s}, Servers} :
          fetch' = [fetch EXCEPT ![p].left = @ \ {s}, ![p].ss = @ \cup SubsAt(seen)]
    BY <2>0
  <2>2. SubsAt(seen) \in SUBSET AllSubs
    BY DEF SubsAt
  <2>3. PICK r : r = [[fetch[p] EXCEPT !.left = @ \ {s}] EXCEPT !.ss = @ \cup SubsAt(seen)]
    OBVIOUS
  <2>4. r \in FetchType
    BY <2>2, <2>3 DEF FetchType
  <2>5. fetch' = [fetch EXCEPT ![p] = r]
    BY <2>1, <2>3
  <2> QED
    BY <1>5, <2>4, <2>5 DEF FetchAsk
<1>6. ASSUME NEW p \in Marks, FetchDone(p) PROVE SubjInv'
  <2>1. Waiting \in FetchType
    BY DEF Waiting, FetchType
  <2>2. [ready |-> TRUE, subjs |-> MakeSubjs(fetch[p].ss)] \in ListType
    BY DEF FetchType, ListType
  <2> QED
    BY <1>6, <2>1, <2>2 DEF FetchDone
<1>7. CASE UNCHANGED subjVars
  BY <1>7 DEF subjVars
<1> QED
  BY <1>1, <1>2, <1>3, <1>4, <1>5, <1>6, <1>7 DEF SubjNext

(* A publisher that has a list publishes to exactly the subjects that one  *)
(* of the listed subscriptions would receive.                              *)
THEOREM ServedExactly == SubjSpec => []SubscribedIsServed
<1>1. SubjInit => SubjInv
  BY DEF SubjInit, SubjInv, Unready, Waiting, FetchType, ListType
<1>2. SubjInv => SubscribedIsServed
  <2> SUFFICES ASSUME SubjInv, NEW p \in Marks, known[p].ready, NEW subj \in Subjects
               PROVE  CheckServiceSubscriptions(p, subj)
                        <=> \E s \in DOMAIN known[p].subjs : Matches(s, subj)
    BY DEF SubscribedIsServed
  <2>1. PICK ss \in SUBSET AllSubs : known[p].subjs = MakeSubjs(ss)
    BY DEF SubjInv, ListType
  <2>2. DOMAIN MakeSubjs(ss) = ss
    BY DEF MakeSubjs
  <2> QED
    BY <2>1, <2>2, CheckSubjExact DEF CheckServiceSubscriptions
<1> QED
  BY <1>1, <1>2, SubjStep, PTL DEF SubjSpec
-----------------------------------------------------------------------------
(* Dispatchers.  The run of a request is a recursion over dispatchers, so  *)
(* what it does at one of them is shown for the least one at which it      *)
(* would not.                                                              *)
LEMMA LeastNat == ASSUME NEW T \in SUBSET Nat, T # {} PROVE \E x \in T : \A y \in T : x <= y
<1>1. PICK R : R = OpToRel(<, Nat) OBVIOUS
<1>2. IsWellFoundedOn(R, Nat) BY <1>1, NatLessThanWellFounded
<1>3. PICK x \in T : \A y \in T : <<y, x>> \notin R BY <1>2, WFMin
<1>4. \A y, z \in Nat : y < z => <<y, z>> \in R BY <1>1 DEF OpToRel
<1>5. ASSUME NEW y \in T PROVE x <= y
  <2>1. x \in Nat /\ y \in Nat /\ <<y, x>> \notin R BY <1>3
  <2>2. ~(y < x) BY <1>4, <2>1
  <2> QED BY <2>1, <2>2
<1> QED BY <1>5

LEMMA SetInduction ==
    ASSUME NEW T, 0 \in T, \A n \in Nat : n \in T => n + 1 \in T
    PROVE  Nat \subseteq T
<1>1. CASE \E n \in Nat : n \notin T
  <2>1. PICK x \in Nat \ T : \A y \in Nat \ T : x <= y BY <1>1, LeastNat
  <2>2. x # 0 OBVIOUS
  <2>3. x - 1 \in Nat /\ x - 1 \in T BY <2>1, <2>2
  <2>4. x \in T BY <2>3
  <2> QED BY <2>4
<1> QED BY <1>1


(* What RunHandlerEx comes to, once there is a function that solves the    *)
(* recursion.                                                              *)
Solves(run, cmd) == run = [d \in Dispatchers |-> RunKey(run, d, cmd, cmd)]

LEMMA RunSolves == ASSUME NEW cmd, \E f : Solves(f, cmd)
    PROVE \E run : Solves(run, cmd) /\ \A d, key : RunHandlerEx(d, key, cmd) = RunKey(run, d, key, cmd)
<1> DEFINE run == CHOOSE f : Solves(f, cmd)
<1>1. Solves(run, cmd) BY Zenon
<1>2. run = CHOOSE f : f = [d \in Dispatchers |-> RunKey(f, d, cmd, cmd)] BY DEF Solves
<1>3. \A d, key : RunHandlerEx(d, key, cmd) = RunKey(run, d, key, cmd)
  BY DEF RunHandlerEx, Solves
<1> HIDE DEF run
<1> QED BY <1>1, <1>3
-----------------------------------------------------------------------------
(* A dispatcher has filters, and as handlers functions or dispatchers      *)
(* below it.                                                               *)
FilterRec == [prio : Prios, fn : Filters]
HandlerOf(d) == [fn : Fns \cup 1 .. d - 1, flag : Flags]
DispType(d) == [in : Seq(FilterRec), out : Seq(FilterRec), handlers : [Cmds -> Seq(HandlerOf(d))],
                def : Fns \cup {NoFn}]

DispTypeOK == /\ DOMAIN disp = Dispatchers /\ \A d \in Dispatchers : disp[d] \in DispType(d)
              /\ verdict \in Verdicts

(* A step that keeps FiltersGuard, and a result of such steps.             *)
GoodStep == {s \in [kind : {"in", "fn", "out"}, path : Seq([d : Dispatchers, flag : Flags]),
                    fn : Fns \cup Filters] :
                s.kind = "fn" => \A j \in DOMAIN s.path : ~Refuses(s.path[j].d, s.path[j].flag)}
GoodResult == [steps : Seq(GoodStep), rsp : BOOLEAN, paras : Seq(Fns), err : BOOLEAN]

LEMMA ResultGood ==
    ASSUME NEW steps \in Seq(GoodStep), NEW rsp \in BOOLEAN, NEW paras \in Seq(Fns),
           NEW err \in BOOLEAN
    PROVE  /\ Result(steps, rsp, paras, err) \in GoodResult
           /\ Result(steps, rsp, paras, err).steps = steps
  BY DEF Result, GoodResult

(* The first rejection is 0 only when there is none: a set of positions    *)
(* has a least one.                                                        *)
LEMMA RejectionFound ==
    ASSUME NEW fs \in Seq(FilterRec), NEW flag
    PROVE  /\ FirstRejection(fs, flag) \in 0 .. Len(fs)
           /\ FirstRejection(fs, flag) = 0
                => \A i \in DOMAIN fs : flag \in verdict.accepts[fs[i].fn]
<1> DEFINE no == {i \in DOMAIN fs : flag \notin verdict.accepts[fs[i].fn]}
<1>1. no \subseteq 1 .. Len(fs) OBVIOUS
<1>2. CASE no = {}
  <2>1. FirstRejection(fs, flag) = 0 BY <1>2 DEF FirstRejection
  <2> QED BY <1>2, <2>1
<1>3. CASE no # {}
  <2>1. \E i \in no : \A j \in no : i <= j
    <3> HIDE DEF no
    <3>1. no \in SUBSET Nat BY <1>1
    <3> QED BY <1>3, <3>1, LeastNat
  <2>2. FirstRejection(fs, flag) = CHOOSE i \in no : \A j \in no : i <= j
    BY <1>3 DEF FirstRejection
  <2>3. FirstRejection(fs, flag) \in no
    <3> HIDE DEF no
    <3> QED BY <2>1, <2>2
  <2> QED BY <1>1, <2>3
<1> QED BY <1>2, <1>3

LEMMA FiltersGood ==
    ASSUME NEW d \in Dispatchers, NEW flag \in Flags, NEW kind \in {"in", "out"},
           NEW fs \in Seq(FilterRec)
    PROVE  FilterSteps(kind, d, flag, fs) \in Seq(GoodStep)
<1> DEFINE n == FirstRejection(fs, flag)
           len == IF n = 0 THEN Len(fs) ELSE n
<1>1. n \in 0 .. Len(fs) BY RejectionFound
<1> HIDE DEF n
<1>2. len \in Nat /\ len <= Len(fs) BY <1>1
<1>3. ASSUME NEW i \in 1 .. len PROVE Step(kind, d, flag, fs[i].fn) \in GoodStep
  <2>1. fs[i].fn \in Filters
    <3> HIDE DEF len
    <3>1. i \in 1 .. Len(fs) BY <1>2
    <3>2. fs[i] \in FilterRec BY <3>1
    <3> QED BY <3>2 DEF FilterRec
  <2>2. PICK at : at = [d |-> d, flag |-> flag] OBVIOUS
  <2>3. at \in [d : Dispatchers, flag : Flags] BY <2>2
  <2>4. <<at>> \in Seq([d : Dispatchers, flag : Flags]) BY <2>3
  <2>5. Step(kind, d, flag, fs[i].fn) = [kind |-> kind, path |-> <<at>>, fn |-> fs[i].fn]
    BY <2>2 DEF Step
  <2>6. kind # "fn" /\ kind \in {"in", "fn", "out"} OBVIOUS
  <2> QED BY <2>1, <2>4, <2>5, <2>6 DEF GoodStep
<1>4. FilterSteps(kind, d, flag, fs) = [i \in 1 .. len |-> Step(kind, d, flag, fs[i].fn)]
  BY DEF FilterSteps, n
<1> HIDE DEF len
<1> QED BY <1>2, <1>3, <1>4

LEMMA NotRefused ==
    ASSUME NEW d \in Dispatchers, DispTypeOK, NEW flag \in Flags,
           FirstRejection(disp[d].in, flag) = 0
    PROVE  ~Refuses(d, flag)
<1>1. disp[d].in \in Seq(FilterRec) BY DEF DispTypeOK, DispType
<1> QED BY <1>1, RejectionFound DEF Refuses

LEMMA OutcomeGood ==
    ASSUME DispAssumption, DispTypeOK, NEW d \in Dispatchers, NEW flag \in Flags,
           NEW fn \in Fns, ~Refuses(d, flag)
    PROVE  Outcome(d, flag, fn) \in GoodResult
<1> DEFINE o == verdict.out[fn]
<1>1. PICK at : at = [d |-> d, flag |-> flag] OBVIOUS
<1>2. at \in [d : Dispatchers, flag : Flags] /\ at.d = d /\ at.flag = flag BY <1>1
<1>3. <<at>> \in Seq([d : Dispatchers, flag : Flags]) /\ DOMAIN <<at>> = {1} /\ <<at>>[1] = at
  BY <1>2
<1>4. PICK path : path = <<at>> OBVIOUS
<1>5. Step("fn", d, flag, fn) = [kind |-> "fn", path |-> path, fn |-> fn]
  BY <1>1, <1>4 DEF Step
<1>6. \A j \in DOMAIN path : ~Refuses(path[j].d, path[j].flag) BY <1>2, <1>3, <1>4
<1>7. PICK s : s = [kind |-> "fn", path |-> path, fn |-> fn] OBVIOUS
<1>8. s \in GoodStep BY <1>3, <1>4, <1>6, <1>7 DEF GoodStep
<1>9. <<s>> \in Seq(GoodStep) BY <1>8
<1>10. PICK paras : paras = IF o = "reply" THEN <<fn>> ELSE << >> OBVIOUS
<1>11. paras \in Seq(Fns) BY <1>10
<1>12. PICK rsp : rsp = (o \in {"reply", "ack"}) OBVIOUS
<1>13. PICK err : err = (o = "error") OBVIOUS
<1>14. rsp \in BOOLEAN /\ err \in BOOLEAN BY <1>12, <1>13
<1>15. Outcome(d, flag, fn) = Result(<<s>>, rsp, paras, err)
  BY <1>5, <1>7, <1>10, <1>12, <1>13 DEF Outcome
<1>16. PICK ss : ss = <<s>> OBVIOUS
<1>17. ss \in Seq(GoodStep) BY <1>9, <1>16
<1>18. Result(ss, rsp, paras, err) \in GoodResult BY <1>11, <1>14, <1>17, ResultGood
<1> QED BY <1>15, <1>16, <1>18

LEMMA ThroughGood ==
    ASSUME NEW d \in Dispatchers, NEW flag \in Flags, NEW steps \in Seq(GoodStep), ~Refuses(d, flag)
    PROVE  Through(d, flag, steps) \in Seq(GoodStep)
<1>0. PICK P : P = [d : Dispatchers, flag : Flags] OBVIOUS
<1>1. PICK at : at = [d |-> d, flag |-> flag] OBVIOUS
<1>2. at \in [d : Dispatchers, flag : Flags] /\ at.d = d /\ at.flag = flag BY <1>1
<1>3. PICK h : h = <<at>> OBVIOUS
<1>4. h \in Seq(P) /\ Len(h) = 1 /\ h[1] = at BY <1>0, <1>2, <1>3
<1>5. ASSUME NEW i \in DOMAIN steps
      PROVE  [steps[i] EXCEPT !.path = h \o @] \in GoodStep
  <2>1. PICK s : s = steps[i] OBVIOUS
  <2>2. s \in GoodStep /\ s.path \in Seq(P)
    <3>1. s \in GoodStep BY <2>1
    <3> QED BY <1>0, <3>1 DEF GoodStep
  <2>3. PICK path : path = h \o s.path OBVIOUS
  <2>4. path \in Seq(P) /\ Len(path) = 1 + Len(s.path)
        /\ \A j \in 1 .. 1 + Len(s.path) : path[j] = IF j <= 1 THEN h[j] ELSE s.path[j - 1]
    <3>1. PICK p : p = s.path OBVIOUS
    <3>2. p \in Seq(P) BY <2>2, <3>1
    <3>3. /\ h \o p \in Seq(P) /\ Len(h \o p) = Len(h) + Len(p)
          /\ \A j \in 1 .. Len(h) + Len(p) : (h \o p)[j] = IF j <= Len(h) THEN h[j] ELSE p[j - Len(h)]
      BY <1>4, <3>2, ConcatProperties
    <3> QED BY <1>4, <2>3, <3>1, <3>3
  <2>5. PICK t : t = [s EXCEPT !.path = path] OBVIOUS
  <2>6. t \in [kind : {"in", "fn", "out"}, path : Seq(P), fn : Fns \cup Filters]
        /\ t.kind = s.kind /\ t.path = path
    BY <1>0, <2>2, <2>4, <2>5 DEF GoodStep
  <2>7. ASSUME s.kind = "fn", NEW j \in DOMAIN path PROVE ~Refuses(path[j].d, path[j].flag)
    <3>1. j \in 1 .. 1 + Len(s.path) BY <2>4
    <3>2. CASE j = 1 BY <1>2, <1>4, <2>4, <3>1, <3>2
    <3>3. CASE j # 1
      <4>1. Len(s.path) \in Nat /\ j - 1 \in 1 .. Len(s.path) BY <2>2, <3>1, <3>3
      <4>2. path[j] = s.path[j - 1] /\ j - 1 \in DOMAIN s.path BY <2>2, <2>4, <3>1, <3>3, <4>1
      <4> QED BY <2>2, <2>7, <4>2 DEF GoodStep
    <3> QED BY <3>2, <3>3
  <2>8. t \in GoodStep BY <1>0, <2>6, <2>7 DEF GoodStep
  <2>9. t = [steps[i] EXCEPT !.path = h \o @] BY <2>1, <2>3, <2>5
  <2> QED BY <2>8, <2>9
<1>6. Through(d, flag, steps) = [i \in DOMAIN steps |-> [steps[i] EXCEPT !.path = h \o @]]
  BY <1>1, <1>3 DEF Through
<1>7. DOMAIN steps = 1 .. Len(steps) /\ Len(steps) \in Nat OBVIOUS
<1> QED BY <1>5, <1>6, <1>7, SMTT(20)

LEMMA RunOneGood ==
    ASSUME DispAssumption, DispTypeOK, NEW d \in Dispatchers, NEW h, h.flag \in Flags, NEW inner,
           h.fn \in Fns \/ inner \in GoodResult
    PROVE  RunOne(d, h, inner) \in GoodResult
<1> DEFINE ins == FilterSteps("in", d, h.flag, disp[d].in)
           outs == FilterSteps("out", d, h.flag, disp[d].out)
           first == FirstRejection(disp[d].in, h.flag)
           last == FirstRejection(disp[d].out, h.flag)
           r == IF h.fn \in Fns THEN Outcome(d, h.flag, h.fn)
                ELSE [inner EXCEPT !.steps = Through(d, h.flag, @)]
<1>1. disp[d].in \in Seq(FilterRec) /\ disp[d].out \in Seq(FilterRec)
  BY DEF DispTypeOK, DispType
<1>2. ins \in Seq(GoodStep) /\ outs \in Seq(GoodStep) BY <1>1, FiltersGood
<1>3. RunOne(d, h, inner) =
        CASE first # 0 -> Result(ins, FALSE, << >>, TRUE)
          [] first = 0 /\ (r.err \/ ~r.rsp) -> [r EXCEPT !.steps = ins \o @]
          [] OTHER -> [r EXCEPT !.steps = ins \o @ \o outs, !.err = last # 0]
  BY DEF RunOne
<1>4. CASE first # 0
  <2>0. PICK nil : nil = << >> OBVIOUS
  <2>1. PICK yes \in BOOLEAN, no \in BOOLEAN : yes = TRUE /\ no = FALSE OBVIOUS
  <2>2. nil \in Seq(Fns) BY <2>0
  <2>3. Result(ins, no, nil, yes) \in GoodResult
    <3> HIDE DEF ins
    <3> QED BY <1>2, <2>2, ResultGood
  <2> HIDE DEF ins, outs, first, last, r
  <2>4. RunOne(d, h, inner) = Result(ins, no, nil, yes) BY <1>3, <1>4, <2>0, <2>1
  <2> QED BY <2>3, <2>4
<1>5. CASE first = 0
  <2>1. ~Refuses(d, h.flag) BY <1>5, NotRefused
  <2>2. r \in GoodResult
    <3>1. CASE h.fn \in Fns BY <2>1, <3>1, OutcomeGood
    <3>2. CASE h.fn \notin Fns
      <4>1. inner \in GoodResult /\ inner.steps \in Seq(GoodStep) BY <3>2 DEF GoodResult
      <4>2. PICK steps : steps = Through(d, h.flag, inner.steps) OBVIOUS
      <4>3. steps \in Seq(GoodStep) BY <2>1, <4>1, <4>2, ThroughGood
      <4>4. r = [inner EXCEPT !.steps = steps] BY <3>2, <4>2
      <4> HIDE DEF r
      <4> QED BY <4>1, <4>3, <4>4 DEF GoodResult
    <3> QED BY <3>1, <3>2
  <2> HIDE DEF ins, outs, first, last, r
  <2>3. r.steps \in Seq(GoodStep) BY <2>2 DEF GoodResult
  <2>4. PICK one : one = ins \o r.steps OBVIOUS
  <2>5. one \in Seq(GoodStep) BY <1>2, <2>3, <2>4, ConcatProperties
  <2>6. PICK all : all = one \o outs OBVIOUS
  <2>7. all \in Seq(GoodStep) BY <1>2, <2>5, <2>6, ConcatProperties
  <2>8. PICK err : err = (last # 0) OBVIOUS
  <2>9. err \in BOOLEAN BY <2>8
  <2>10. [r EXCEPT !.steps = one] \in GoodResult BY <2>2, <2>5 DEF GoodResult
  <2>11. [r EXCEPT !.steps = all, !.err = err] \in GoodResult BY <2>2, <2>7, <2>9 DEF GoodResult
  <2>12. [r EXCEPT !.steps = ins \o @] = [r EXCEPT !.steps = one] BY <2>4
  <2>13. [r EXCEPT !.steps = ins \o @ \o outs, !.err = last # 0]
           = [r EXCEPT !.steps = all, !.err = err]
    BY <2>4, <2>6, <2>8
  <2>14. \/ RunOne(d, h, inner) = [r EXCEPT !.steps = ins \o @]
         \/ RunOne(d, h, inner) = [r EXCEPT !.steps = ins \o @ \o outs, !.err = last # 0]
    BY <1>3, <1>5
  <2> QED BY <2>10, <2>11, <2>12, <2>13, <2>14
<1> QED BY <1>4, <1>5

(* Several handlers: the recursion of Combined has a solution, and every   *)
(* solution is good.                                                       *)
Joined(rs, n, r) == IF n = 0 THEN Result(<< >>, TRUE, << >>, FALSE)
                    ELSE [r EXCEPT !.steps = @ \o rs[n].steps,
                                   !.paras = IF rs[n].err THEN @ ELSE @ \o rs[n].paras]

Joins(join, rs, m) == join = [n \in 0 .. m |-> Joined(rs, n, join[n - 1])]

LEMMA JoinExists == ASSUME NEW rs, NEW m \in Nat PROVE \E join : Joins(join, rs, m)
<1> DEFINE T == {l \in Nat : \E join : Joins(join, rs, l)}
<1>1. 0 \in T
  <2>1. PICK join : join = [n \in 0 .. 0 |-> Result(<< >>, TRUE, << >>, FALSE)] OBVIOUS
  <2>2. \A n \in 0 .. 0 : Joined(rs, n, join[n - 1]) = Result(<< >>, TRUE, << >>, FALSE)
    BY DEF Joined
  <2>3. Joins(join, rs, 0) BY <2>1, <2>2 DEF Joins
  <2> QED BY <2>3
<1>2. ASSUME NEW l \in Nat, l \in T PROVE l + 1 \in T
  <2>1. PICK f : Joins(f, rs, l) BY <1>2
  <2>2. PICK g : g = [n \in 0 .. l + 1 |-> Joined(rs, n, IF n - 1 \in 0 .. l THEN f[n - 1] ELSE 0)]
    OBVIOUS
  <2>3. \A n \in 0 .. l : n - 1 \in 0 .. l \/ n = 0 OBVIOUS
  <2>4. \A r, q : Joined(rs, 0, r) = Joined(rs, 0, q) BY DEF Joined
  <2>5. ASSUME NEW n \in 0 .. l PROVE g[n] = f[n]
    <3>1. f[n] = Joined(rs, n, f[n - 1]) BY <2>1 DEF Joins
    <3>2. g[n] = Joined(rs, n, IF n - 1 \in 0 .. l THEN f[n - 1] ELSE 0) BY <2>2
    <3> QED BY <2>3, <2>4, <3>1, <3>2
  <2>6. ASSUME NEW n \in 0 .. l + 1 PROVE g[n] = Joined(rs, n, g[n - 1])
    <3>1. g[n] = Joined(rs, n, IF n - 1 \in 0 .. l THEN f[n - 1] ELSE 0) BY <2>2
    <3>2. CASE n = 0 BY <2>4, <3>1, <3>2
    <3>3. CASE n # 0
      <4>1. n - 1 \in 0 .. l BY <3>3
      <4>2. g[n - 1] = f[n - 1] BY <2>5, <4>1
      <4> QED BY <3>1, <4>1, <4>2
    <3> QED BY <3>2, <3>3
  <2>7. Joins(g, rs, l + 1) BY <2>2, <2>6 DEF Joins
  <2> QED BY <2>7
<1>3. Nat \subseteq T
  <2> HIDE DEF T
  <2> QED BY <1>1, <1>2, SetInduction
<1> QED BY <1>3

LEMMA CombinedGood == ASSUME NEW rs \in Seq(GoodResult) PROVE Combined(rs) \in GoodResult
<1> DEFINE join == CHOOSE f : Joins(f, rs, Len(rs))
<1>0. Len(rs) \in Nat OBVIOUS
<1>1. Combined(rs) = join[Len(rs)] BY DEF Combined, Joins, Joined
<1>2. Joins(join, rs, Len(rs))
  <2>1. \E f : Joins(f, rs, Len(rs)) BY <1>0, JoinExists
  <2> QED BY <2>1, Zenon
<1> HIDE DEF join
<1> DEFINE T == {m \in Nat : m <= Len(rs) => join[m] \in GoodResult}
<1>3. 0 \in T
  <2>1. join[0] = Joined(rs, 0, join[0 - 1]) BY <1>0, <1>2 DEF Joins
  <2>0. PICK nil : nil = << >> OBVIOUS
  <2>2. PICK yes \in BOOLEAN, no \in BOOLEAN : yes = TRUE /\ no = FALSE OBVIOUS
  <2>3. nil \in Seq(GoodStep) /\ nil \in Seq(Fns) BY <2>0
  <2>4. Result(nil, yes, nil, no) \in GoodResult BY <2>3, ResultGood
  <2>5. join[0] = Result(nil, yes, nil, no) BY <2>0, <2>1, <2>2 DEF Joined
  <2> QED BY <2>4, <2>5
<1>4. ASSUME NEW m \in Nat, m \in T PROVE m + 1 \in T
  <2> SUFFICES ASSUME m + 1 <= Len(rs) PROVE join[m + 1] \in GoodResult OBVIOUS
  <2>1. PICK r : r = join[m] OBVIOUS
  <2>2. r \in GoodResult BY <1>0, <1>4, <2>1
  <2>3. m + 1 \in 0 .. Len(rs) /\ m + 1 # 0 /\ (m + 1) - 1 = m BY <1>0
  <2>4. join[m + 1] = Joined(rs, m + 1, r) BY <1>2, <2>1, <2>3 DEF Joins
  <2>5. PICK q : q = rs[m + 1] OBVIOUS
  <2>6. q \in GoodResult BY <1>0, <2>3, <2>5
  <2>7. PICK steps : steps = r.steps \o q.steps OBVIOUS
  <2>8. PICK paras : paras = IF q.err THEN r.paras ELSE r.paras \o q.paras OBVIOUS
  <2>9. /\ r.steps \in Seq(GoodStep) /\ q.steps \in Seq(GoodStep)
        /\ r.paras \in Seq(Fns) /\ q.paras \in Seq(Fns)
    BY <2>2, <2>6 DEF GoodResult
  <2>10. steps \in Seq(GoodStep) BY <2>7, <2>9, ConcatProperties
  <2>11. r.paras \o q.paras \in Seq(Fns) BY <2>9, ConcatProperties
  <2>12. paras \in Seq(Fns) BY <2>8, <2>9, <2>11
  <2>13. [r EXCEPT !.steps = steps, !.paras = paras] \in GoodResult
    BY <2>2, <2>10, <2>12 DEF GoodResult
  <2>14. join[m + 1] = [r EXCEPT !.steps = steps, !.paras = paras]
    BY <2>2, <2>3, <2>4, <2>5, <2>7, <2>8 DEF Joined, GoodResult
  <2> QED BY <2>13, <2>14
<1>5. Nat \subseteq T
  <2> HIDE DEF T
  <2> QED BY <1>3, <1>4, SetInduction
<1> QED BY <1>0, <1>1, <1>5

(* A dispatcher's run depends on those below it only.                      *)
LEMMA RunBelow ==
    ASSUME DispAssumption, DispTypeOK, NEW d \in Dispatchers, NEW key \in Cmds, NEW cmd, NEW f, NEW g,
           \A c \in 1 .. d - 1 : f[c] = g[c]
    PROVE  RunKey(f, d, key, cmd) = RunKey(g, d, key, cmd)
<1> DEFINE Inner(run, h) == IF h.fn \in Dispatchers THEN run[h.fn] ELSE h
           One(run, h) == RunOne(d, h, Inner(run, h))
           hs == disp[d].handlers[key]
           Each(run) == [i \in DOMAIN hs |-> One(run, hs[i])]
           default == [fn |-> disp[d].def, flag |-> 0]
<1>1. hs \in Seq(HandlerOf(d)) /\ disp[d].def \in Fns \cup {NoFn} BY DEF DispTypeOK, DispType
<1>2. Fns \cap Dispatchers = {} BY DEF DispAssumption, Dispatchers
<1>3. ASSUME NEW h \in HandlerOf(d) PROVE Inner(f, h) = Inner(g, h)
  <2>1. h.fn \in Fns \cup 1 .. d - 1 BY DEF HandlerOf
  <2> QED BY <1>2, <2>1
<1>4. disp[d].def # NoFn => Inner(f, default) = Inner(g, default)
  <2>1. default.fn = disp[d].def OBVIOUS
  <2> QED BY <1>1, <1>2, <2>1
<1>5. \A h \in HandlerOf(d) : One(f, h) = One(g, h) BY <1>3
<1>6. disp[d].def # NoFn => One(f, default) = One(g, default) BY <1>4
<1>7. \A i \in DOMAIN hs : One(f, hs[i]) = One(g, hs[i])
  <2> HIDE DEF One
  <2> QED BY <1>1, <1>5
<1>8. Each(f) = Each(g)
  <2> HIDE DEF One, hs
  <2> QED BY <1>7
<1>9. Len(hs) = 1 => One(f, hs[1]) = One(g, hs[1])
  <2> HIDE DEF One
  <2> QED BY <1>1, <1>7
<1>10. ASSUME NEW run
       PROVE  RunKey(run, d, key, cmd) =
                 CASE Len(hs) = 1 -> One(run, hs[1])
                   [] Len(hs) > 1 -> Combined(Each(run))
                   [] Len(hs) = 0 /\ disp[d].def # NoFn -> One(run, default)
                   [] OTHER -> Result(<< >>, FALSE, << >>, FALSE)
  BY DEF RunKey
<1> HIDE DEF One, hs, default, Each
<1>11. CASE Len(hs) = 1
  <2>1. ASSUME NEW run PROVE RunKey(run, d, key, cmd) = One(run, hs[1]) BY <1>10, <1>11
  <2> QED BY <1>9, <1>11, <2>1, Zenon
<1>12. CASE Len(hs) # 1 /\ Len(hs) > 1
  <2>1. ASSUME NEW run PROVE RunKey(run, d, key, cmd) = Combined(Each(run))
    <3>1. PICK k, a, b, c, z :
             /\ k = RunKey(run, d, key, cmd) /\ a = One(run, hs[1]) /\ b = Combined(Each(run))
             /\ c = One(run, default) /\ z = Result(<< >>, FALSE, << >>, FALSE)
      OBVIOUS
    <3>2. k = CASE Len(hs) = 1 -> a [] Len(hs) > 1 -> b
                [] Len(hs) = 0 /\ disp[d].def # NoFn -> c [] OTHER -> z
      BY <1>10, <3>1, Zenon
    <3>3. k = b BY <1>12, <3>2
    <3> QED BY <3>1, <3>3
  <2> QED BY <1>8, <2>1, Zenon
<1>13. CASE Len(hs) # 1 /\ ~(Len(hs) > 1) /\ Len(hs) = 0 /\ disp[d].def # NoFn
  <2>1. ASSUME NEW run PROVE RunKey(run, d, key, cmd) = One(run, default) BY <1>10, <1>13
  <2> QED BY <1>6, <1>13, <2>1, Zenon
<1>14. CASE Len(hs) # 1 /\ ~(Len(hs) > 1) /\ ~(Len(hs) = 0 /\ disp[d].def # NoFn)
  <2>1. ASSUME NEW run
        PROVE  RunKey(run, d, key, cmd) = Result(<< >>, FALSE, << >>, FALSE)
    BY <1>10, <1>14
  <2> QED BY <2>1, Zenon
<1> QED BY <1>11, <1>12, <1>13, <1>14, Zenon

LEMMA RunExists == ASSUME DispAssumption, DispTypeOK, NEW cmd \in Cmds PROVE \E f : Solves(f, cmd)
<1> DEFINE Upto(f, m) == f = [d \in 1 .. m |-> RunKey(f, d, cmd, cmd)]
           T == {m \in Nat : m <= NDisp => \E f : Upto(f, m)}
<1>0. NDisp \in Nat BY DEF DispAssumption
<1>1. 0 \in T
  <2>1. PICK f : f = [d \in 1 .. 0 |-> 0] OBVIOUS
  <2>2. Upto(f, 0) BY <2>1
  <2> HIDE DEF Upto
  <2> QED BY <2>2
<1>2. ASSUME NEW m \in Nat, m \in T PROVE m + 1 \in T
  <2> SUFFICES ASSUME m + 1 <= NDisp PROVE \E f : Upto(f, m + 1) OBVIOUS
  <2>1. PICK f : Upto(f, m)
    <3> HIDE DEF Upto
    <3> QED BY <1>0, <1>2
  <2>2. PICK last : last = RunKey(f, m + 1, cmd, cmd) OBVIOUS
  <2>3. PICK g : g = [d \in 1 .. m + 1 |-> IF d <= m THEN f[d] ELSE last] OBVIOUS
  <2>4. \A d \in 1 .. m : g[d] = f[d] BY <2>3
  <2>5. ASSUME NEW d \in 1 .. m + 1 PROVE RunKey(f, d, cmd, cmd) = RunKey(g, d, cmd, cmd)
    <3>1. d \in Dispatchers BY <1>0 DEF Dispatchers
    <3>2. \A c \in 1 .. d - 1 : f[c] = g[c] BY <2>4
    <3> QED BY <3>1, <3>2, RunBelow
  <2>6. ASSUME NEW d \in 1 .. m + 1 PROVE g[d] = RunKey(g, d, cmd, cmd)
    <3>1. CASE d <= m
      <4>1. f[d] = RunKey(f, d, cmd, cmd) BY <2>1, <3>1
      <4> QED BY <2>4, <2>5, <3>1, <4>1
    <3>2. CASE d = m + 1
      <4>1. g[d] = last BY <2>3, <3>2
      <4> QED BY <2>2, <2>5, <3>2, <4>1
    <3> QED BY <3>1, <3>2
  <2>7. Upto(g, m + 1) BY <2>3, <2>6
  <2> HIDE DEF Upto
  <2> QED BY <2>7
<1>3. Nat \subseteq T
  <2> HIDE DEF T
  <2> QED BY <1>1, <1>2, SetInduction
<1>4. \E f : Upto(f, NDisp)
  <2> HIDE DEF Upto
  <2> QED BY <1>0, <1>3
<1> QED BY <1>4 DEF Solves, Dispatchers

LEMMA RunKeyGood ==
    ASSUME DispAssumption, DispTypeOK, NEW d \in Dispatchers, NEW key \in Cmds, NEW cmd, NEW run,
           \A c \in 1 .. d - 1 : run[c] \in GoodResult
    PROVE  RunKey(run, d, key, cmd) \in GoodResult
<1> DEFINE Inner(h) == IF h.fn \in Dispatchers THEN run[h.fn] ELSE h
           One(h) == RunOne(d, h, Inner(h))
           hs == disp[d].handlers[key]
           default == [fn |-> disp[d].def, flag |-> 0]
           none == Result(<< >>, FALSE, << >>, FALSE)
<1>1. hs \in Seq(HandlerOf(d)) /\ disp[d].def \in Fns \cup {NoFn} BY DEF DispTypeOK, DispType
<1>2. RunKey(run, d, key, cmd) =
        CASE Len(hs) = 1 -> One(hs[1])
          [] Len(hs) > 1 -> Combined([i \in DOMAIN hs |-> One(hs[i])])
          [] Len(hs) = 0 /\ disp[d].def # NoFn -> One(default)
          [] OTHER -> none
  BY DEF RunKey
<1>3. ASSUME NEW h \in HandlerOf(d) PROVE One(h) \in GoodResult
  <2>1. h.fn \in Fns \cup 1 .. d - 1 /\ h.flag \in Flags BY DEF HandlerOf
  <2>2. \A c \in 1 .. d - 1 : c \in Dispatchers BY DEF Dispatchers
  <2>3. h.fn \in Fns \/ Inner(h) \in GoodResult BY <2>1, <2>2
  <2> HIDE DEF Inner
  <2> QED BY <2>1, <2>3, RunOneGood
<1>4. ASSUME disp[d].def # NoFn PROVE One(default) \in GoodResult
  <2>1. default.fn \in Fns /\ default.flag \in Flags BY <1>1, <1>4 DEF Flags
  <2> HIDE DEF Inner, default
  <2> QED BY <2>1, RunOneGood
<1>5. none \in GoodResult
  <2>0. PICK nil : nil = << >> OBVIOUS
  <2>1. PICK no \in BOOLEAN : no = FALSE OBVIOUS
  <2>2. nil \in Seq(GoodStep) /\ nil \in Seq(Fns) BY <2>0
  <2>3. Result(nil, no, nil, no) \in GoodResult BY <2>2, ResultGood
  <2> QED BY <2>0, <2>1, <2>3
<1> HIDE DEF One, default, none
<1>6. [i \in DOMAIN hs |-> One(hs[i])] \in Seq(GoodResult)
  <2>1. \A i \in 1 .. Len(hs) : One(hs[i]) \in GoodResult BY <1>1, <1>3
  <2> HIDE DEF hs
  <2>2. DOMAIN hs = 1 .. Len(hs) /\ Len(hs) \in Nat BY <1>1
  <2> QED BY <2>1, <2>2
<1>7. Len(hs) > 1 => Combined([i \in DOMAIN hs |-> One(hs[i])]) \in GoodResult
  BY <1>6, CombinedGood
<1>8. Len(hs) = 1 => One(hs[1]) \in GoodResult BY <1>1, <1>3
<1> QED BY <1>2, <1>4, <1>5, <1>7, <1>8

LEMMA AllGood ==
    ASSUME DispAssumption, DispTypeOK, NEW cmd \in Cmds, NEW run, Solves(run, cmd)
    PROVE  \A d \in Dispatchers : run[d] \in GoodResult
<1> DEFINE Bad == {d \in Dispatchers : run[d] \notin GoodResult}
<1>1. CASE Bad # {}
  <2>0. Bad \in SUBSET Nat BY DEF Dispatchers
  <2>1. PICK d \in Bad : \A c \in Bad : d <= c
    <3> HIDE DEF Bad
    <3> QED BY <1>1, <2>0, LeastNat
  <2>2. \A c \in 1 .. d - 1 : run[c] \in GoodResult
    <3>1. ASSUME NEW c \in 1 .. d - 1 PROVE c \in Dispatchers /\ ~(d <= c)
      BY <2>1 DEF Dispatchers
    <3> QED BY <2>1, <3>1
  <2>3. run[d] = RunKey(run, d, cmd, cmd) BY <2>1 DEF Solves
  <2>4. run[d] \in GoodResult BY <2>1, <2>2, <2>3, RunKeyGood
  <2> QED BY <2>1, <2>4
<1> QED BY <1>1

LEMMA TypesGuard == ASSUME DispAssumption, DispTypeOK PROVE FiltersGuard
<1>1. ASSUME NEW d \in Dispatchers, NEW key \in Cmds, NEW cmd \in Cmds
      PROVE  RunHandlerEx(d, key, cmd).steps \in Seq(GoodStep)
  <2>1. PICK run : /\ Solves(run, cmd)
                   /\ RunHandlerEx(d, key, cmd) = RunKey(run, d, key, cmd)
    BY RunExists, RunSolves
  <2>2. \A c \in 1 .. d - 1 : run[c] \in GoodResult BY <2>1, AllGood DEF Dispatchers
  <2>3. RunHandlerEx(d, key, cmd) \in GoodResult BY <2>1, <2>2, RunKeyGood
  <2> QED BY <2>3 DEF GoodResult
<1>2. ASSUME NEW steps \in Seq(GoodStep), NEW i \in DOMAIN steps, steps[i].kind = "fn",
             NEW j \in DOMAIN steps[i].path
      PROVE  ~Refuses(steps[i].path[j].d, steps[i].path[j].flag)
  <2>1. PICK s : s = steps[i] OBVIOUS
  <2>2. s \in GoodStep BY <2>1
  <2> QED BY <1>2, <2>1, <2>2 DEF GoodStep
<1> QED BY <1>1, <1>2 DEF FiltersGuard

-----------------------------------------------------------------------------
(* Building keeps the types: whatever a building call makes of a           *)
(* dispatcher, only those below it are called from it.                     *)
LEMMA InitTypes == ASSUME DispAssumption, DispInit PROVE DispTypeOK
<1> DEFINE M == CreateReqDispatcher
<1>1. PICK nil, none : nil = << >> /\ none = [c \in Cmds |-> nil] OBVIOUS
<1>2. nil \in Seq(FilterRec) BY <1>1
<1>3. ASSUME NEW d \in Dispatchers PROVE M \in DispType(d)
  <2>1. none \in [Cmds -> Seq(HandlerOf(d))] BY <1>1
  <2>2. M = [in |-> nil, out |-> nil, handlers |-> none, def |-> NoFn]
    BY <1>1 DEF CreateReqDispatcher
  <2> HIDE DEF M
  <2> QED BY <1>2, <2>1, <2>2 DEF DispType
<1>4. disp = [d \in Dispatchers |-> M] /\ verdict \in Verdicts BY DEF DispInit
<1> HIDE DEF M
<1> QED BY <1>3, <1>4 DEF DispTypeOK

LEMMA BuildTypes ==
    ASSUME DispTypeOK, NEW d \in Dispatchers, NEW m \in DispType(d), Build(d, m)
    PROVE  DispTypeOK'
<1>1. disp' = [disp EXCEPT ![d] = m] /\ verdict' = verdict BY DEF Build
<1>2. PICK after : after = [disp EXCEPT ![d] = m] OBVIOUS
<1>3. DOMAIN after = Dispatchers /\ \A e \in Dispatchers : after[e] \in DispType(e)
  BY <1>2 DEF DispTypeOK
<1> QED BY <1>1, <1>2, <1>3 DEF DispTypeOK, Dispatchers, DispType, HandlerOf, Flags, FilterRec

LEMMA SortedTypes ==
    ASSUME NEW S, NEW fs \in Seq(S), NEW gs \in Sorted(fs) PROVE gs \in Seq(S)
<1>1. PICK p \in [DOMAIN fs -> DOMAIN fs] : gs = [i \in DOMAIN fs |-> fs[p[i]]] BY DEF Sorted
<1>2. DOMAIN fs = 1 .. Len(fs) /\ Len(fs) \in Nat OBVIOUS
<1> QED BY <1>1, <1>2

LEMMA HandlersTypes ==
    ASSUME NEW d, NEW m \in DispType(d), NEW hs \in [Cmds -> Seq(HandlerOf(d))],
           NEW def \in Fns \cup {NoFn}
    PROVE  [m EXCEPT !.handlers = hs, !.def = def] \in DispType(d)
  BY DEF DispType

(* The dispatchers keep their types: what is called from one is below it.  *)
THEOREM DispInvariant == DispSpec => []DispTypeOK
<1> USE DispAssumption
<1>1. DispInit => DispTypeOK BY InitTypes
<1>2. ASSUME DispTypeOK, DispNext PROVE DispTypeOK'
  <2>1. PICK d \in Dispatchers :
           \/ \E cmd \in Cmds, fn \in Fns, flag \in Flags : AddHandler(d, cmd, fn, flag)
           \/ \E fn \in Fns : SetDefHandler(d, fn)
           \/ \E prio \in Prios, fn \in Filters :
                 AddInFilter(d, prio, fn) \/ AddOutFilter(d, prio, fn)
           \/ \E c \in Dispatchers : Merge(d, c, FALSE) \/ AppendDispatcher(d, c)
    BY <1>2 DEF DispNext
  <2>2. PICK m : m = disp[d] OBVIOUS
  <2>3. m \in DispType(d) BY <1>2, <2>2 DEF DispTypeOK
  <2>4. m.in \in Seq(FilterRec) /\ m.out \in Seq(FilterRec) BY <2>3 DEF DispType
  <2>5. m.handlers \in [Cmds -> Seq(HandlerOf(d))] /\ m.def \in Fns \cup {NoFn}
    BY <2>3 DEF DispType
  <2>6. CASE \E cmd \in Cmds, fn \in Fns, flag \in Flags : AddHandler(d, cmd, fn, flag)
    <3>1. PICK cmd \in Cmds, fn \in Fns, flag \in Flags : AddHandler(d, cmd, fn, flag) BY <2>6
    <3>2. PICK h : h = [fn |-> fn, flag |-> flag] OBVIOUS
    <3>3. h \in HandlerOf(d) BY <3>2 DEF HandlerOf
    <3>4. PICK hs : hs = m.handlers OBVIOUS
    <3>5. PICK new : new = [hs EXCEPT ![cmd] = Append(@, h)] OBVIOUS
    <3>6. new \in [Cmds -> Seq(HandlerOf(d))] BY <2>5, <3>3, <3>4, <3>5
    <3>7. PICK after : after = [m EXCEPT !.handlers = new] OBVIOUS
    <3>8. after \in DispType(d) BY <2>3, <3>6, <3>7 DEF DispType
    <3>9. WithHandler(m, cmd, fn, flag) = after BY <3>2, <3>4, <3>5, <3>7 DEF WithHandler
    <3>10. Build(d, after) BY <2>2, <3>1, <3>9 DEF AddHandler
    <3> QED BY <1>2, <3>8, <3>10, BuildTypes
  <2>7. CASE \E fn \in Fns : SetDefHandler(d, fn)
    <3>1. PICK fn \in Fns : SetDefHandler(d, fn) BY <2>7
    <3>2. PICK after : after = [m EXCEPT !.def = fn] OBVIOUS
    <3>3. after \in DispType(d) BY <2>3, <3>2 DEF DispType
    <3>4. Build(d, after) BY <2>2, <3>1, <3>2 DEF SetDefHandler
    <3> QED BY <1>2, <3>3, <3>4, BuildTypes
  <2>8. ASSUME NEW prio \in Prios, NEW fn \in Filters, AddInFilter(d, prio, fn) PROVE DispTypeOK'
    <3>1. PICK f : f = [prio |-> prio, fn |-> fn] OBVIOUS
    <3>2. f \in FilterRec BY <3>1 DEF FilterRec
    <3>3. PICK fs : fs = Append(m.in, f) OBVIOUS
    <3>4. fs \in Seq(FilterRec) BY <2>4, <3>2, <3>3
    <3>5. PICK gs \in Sorted(fs) : Build(d, [m EXCEPT !.in = gs])
      BY <2>2, <2>8, <3>1, <3>3 DEF AddInFilter
    <3>6. gs \in Seq(FilterRec) BY <3>4, SortedTypes
    <3>7. PICK after : after = [m EXCEPT !.in = gs] OBVIOUS
    <3>8. after \in DispType(d) BY <2>3, <3>6, <3>7 DEF DispType
    <3> QED BY <1>2, <3>5, <3>7, <3>8, BuildTypes
  <2>9. ASSUME NEW prio \in Prios, NEW fn \in Filters, AddOutFilter(d, prio, fn) PROVE DispTypeOK'
    <3>1. PICK f : f = [prio |-> prio, fn |-> fn] OBVIOUS
    <3>2. f \in FilterRec BY <3>1 DEF FilterRec
    <3>3. PICK fs : fs = Append(m.out, f) OBVIOUS
    <3>4. fs \in Seq(FilterRec) BY <2>4, <3>2, <3>3
    <3>5. PICK gs \in Sorted(fs) : Build(d, [m EXCEPT !.out = gs])
      BY <2>2, <2>9, <3>1, <3>3 DEF AddOutFilter
    <3>6. gs \in Seq(FilterRec) BY <3>4, SortedTypes
    <3>7. PICK after : after = [m EXCEPT !.out = gs] OBVIOUS
    <3>8. after \in DispType(d) BY <2>3, <3>6, <3>7 DEF DispType
    <3> QED BY <1>2, <3>5, <3>7, <3>8, BuildTypes
  <2>10. ASSUME NEW c \in Dispatchers, NEW unique \in BOOLEAN, Merge(d, c, unique)
         PROVE  DispTypeOK'
    <3>1. c < d /\ Build(d, WithHandlersOf(m, c, unique)) BY <2>2, <2>10 DEF Merge
    <3>2. c \in 1 .. d - 1 BY <3>1 DEF Dispatchers, DispAssumption
    <3>3. PICK h : h = [fn |-> c, flag |-> 0] OBVIOUS
    <3>4. h \in HandlerOf(d) BY <3>2, <3>3 DEF HandlerOf, Flags
    <3>5. PICK hs : hs = [cmd \in Cmds |->
             IF disp[c].handlers[cmd] # << >> /\ (~unique \/ m.handlers[cmd] = << >>)
             THEN Append(m.handlers[cmd], h) ELSE m.handlers[cmd]]
      OBVIOUS
    <3>6. hs \in [Cmds -> Seq(HandlerOf(d))] BY <2>5, <3>4, <3>5
    <3>7. PICK def : def = IF m.def = NoFn THEN disp[c].def ELSE m.def OBVIOUS
    <3>8. disp[c].def \in Fns \cup {NoFn} BY <1>2 DEF DispTypeOK, DispType
    <3>9. def \in Fns \cup {NoFn} BY <2>5, <3>7, <3>8
    <3>10. WithHandlersOf(m, c, unique) = [m EXCEPT !.handlers = hs, !.def = def]
      BY <3>3, <3>5, <3>7 DEF WithHandlersOf
    <3>11. PICK after : after = [m EXCEPT !.handlers = hs, !.def = def] OBVIOUS
    <3>12. after \in DispType(d) BY <2>3, <3>6, <3>9, <3>11, HandlersTypes
    <3>13. Build(d, after) BY <3>1, <3>10, <3>11
    <3> QED BY <1>2, <3>12, <3>13, BuildTypes
  <2> QED BY <2>1, <2>6, <2>7, <2>8, <2>9, <2>10 DEF AppendDispatcher
<1>3. ASSUME DispTypeOK, UNCHANGED dispVars PROVE DispTypeOK'
  BY <1>3 DEF DispTypeOK, dispVars, Dispatchers, DispType, HandlerOf, Flags, FilterRec
<1> QED BY <1>1, <1>2, <1>3, PTL DEF DispSpec

(* No request reaches a handler past an input filter that refused it, at   *)
(* any of the dispatchers on its way, whichever of them were merged into   *)
(* which, with which filters and handlers, by however many calls.          *)
THEOREM NoHandlerPastAFilter == DispSpec => []FiltersGuard
<1>1. DispTypeOK => FiltersGuard BY DispAssumption, TypesGuard
<1> QED BY <1>1, DispInvariant, PTL
=============================================================================
