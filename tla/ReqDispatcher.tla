---------------------------- MODULE ReqDispatcher ----------------------------
(***************************************************************************)
(* reqhandler.go: dispatchers from commands to handlers, with filters      *)
(* before and after, merged into one another.  The application builds them *)
(* (the actions below) and then runs requests through them, from any       *)
(* number of goroutines: a run changes no dispatcher and is a function     *)
(* here, of the filters' verdicts and the handlers' outcomes.              *)
(*                                                                         *)
(* Dispatchers are numbered so that one is merged into those above it      *)
(* only: a cycle of them would call itself for ever.                       *)
(***************************************************************************)
EXTENDS Naturals, Sequences, FiniteSets

CONSTANTS NDisp,    \* number of dispatchers
          Cmds,     \* the keys of handlersMap
          Fns,      \* handlers of the application
          NoFn,     \* no default handler
          Filters,  \* input and output filters
          Prios,    \* their priorities
          Verdicts, \* what filters say to a flag, and how handlers end: records
                    \* of accepts, [Filters -> SUBSET Flags], and
                    \* out, [Fns -> {"reply", "ack", "silent", "error"}]
          MaxBuild  \* bound: building calls

ASSUME DispAssumption ==
    /\ NDisp \in Nat /\ Fns \cap 1..NDisp = {} /\ NoFn \notin Fns
    /\ Verdicts \subseteq [accepts : [Filters -> SUBSET {0, 1}],
                           out : [Fns -> {"reply", "ack", "silent", "error"}]]

VARIABLES disp,    \* the dispatchers
          built,   \* building calls made
          verdict  \* one of Verdicts

dispVars == <<disp, built, verdict>>
Dispatchers == 1..NDisp
Flags == {0, 1}  \* hFlag: 0 is the default
-----------------------------------------------------------------------------
(* Running a request.  A step of a run: what ran, after the dispatchers it *)
(* was reached through, each with the flag its handler had there.          *)
Step(kind, d, flag, fn) == [kind |-> kind, path |-> <<[d |-> d, flag |-> flag]>>, fn |-> fn]
Through(d, flag, steps) ==
    [i \in DOMAIN steps |-> [steps[i] EXCEPT !.path = <<[d |-> d, flag |-> flag]>> \o @]]

(* A result: the steps, whether there is a reply, its data, and an error.  *)
Result(steps, rsp, paras, err) == [steps |-> steps, rsp |-> rsp, paras |-> paras, err |-> err]

Outcome(d, flag, fn) ==
    LET o == verdict.out[fn] IN
    Result(<<Step("fn", d, flag, fn)>>, o \in {"reply", "ack"},
           IF o = "reply" THEN <<fn>> ELSE << >>, o = "error")

FirstRejection(fs, flag) ==
    LET no == {i \in DOMAIN fs : flag \notin verdict.accepts[fs[i].fn]}
    IN IF no = {} THEN 0 ELSE CHOOSE i \in no : \A j \in no : i <= j

FilterSteps(kind, d, flag, fs) ==
    LET n == FirstRejection(fs, flag)
    IN [i \in 1..(IF n = 0 THEN Len(fs) ELSE n) |-> Step(kind, d, flag, fs[i].fn)]

(* Seeded fault (FiltersGuard): a rejection only ends the filters.         *)
RunOneUnguarded(d, h, inner) ==
    LET ins == FilterSteps("in", d, h.flag, disp[d].in)
        r == IF h.fn \in Fns THEN Outcome(d, h.flag, h.fn)
             ELSE [inner EXCEPT !.steps = Through(d, h.flag, @)]
    IN [r EXCEPT !.steps = ins \o @]

(* runOneHanler: the input filters until one rejects, the handler, and,    *)
(* when it replied without an error, the output filters until one rejects. *)
(* A rejected reply is returned all the same, beside the error.            *)
RunOne(d, h, inner) ==
    LET ins == FilterSteps("in", d, h.flag, disp[d].in)
        outs == FilterSteps("out", d, h.flag, disp[d].out)
        r == IF h.fn \in Fns THEN Outcome(d, h.flag, h.fn)
             ELSE [inner EXCEPT !.steps = Through(d, h.flag, @)]
    IN CASE FirstRejection(disp[d].in, h.flag) # 0 -> Result(ins, FALSE, << >>, TRUE)
         [] FirstRejection(disp[d].in, h.flag) = 0 /\ (r.err \/ ~r.rsp) ->
              [r EXCEPT !.steps = ins \o @]
         [] OTHER -> [r EXCEPT !.steps = ins \o @ \o outs,
                               !.err = FirstRejection(disp[d].out, h.flag) # 0]

(* Several handlers: each has its turn with a copy of the request, their   *)
(* errors are dropped, and the reply collects their data.                  *)
Combined(rs) ==
    LET join[n \in 0..Len(rs)] ==
          IF n = 0 THEN Result(<< >>, TRUE, << >>, FALSE)
          ELSE [join[n - 1] EXCEPT
                  !.steps = @ \o rs[n].steps,
                  !.paras = IF rs[n].err THEN @ ELSE @ \o rs[n].paras]
    IN join[Len(rs)]

(* The handlers d has for a key; run is what the dispatchers merged into   *)
(* it come to, which look at the Cmd whatever the outer key was.           *)
RunKey(run, d, key, cmd) ==
    LET one(h) == RunOne(d, h, IF h.fn \in Dispatchers THEN run[h.fn] ELSE h)
        hs == disp[d].handlers[key]
    IN CASE Len(hs) = 1 -> one(hs[1])
         [] Len(hs) > 1 -> Combined([i \in DOMAIN hs |-> one(hs[i])])
         [] Len(hs) = 0 /\ disp[d].def # NoFn -> one([fn |-> disp[d].def, flag |-> 0])
         [] OTHER -> Result(<< >>, FALSE, << >>, FALSE)

(* RunHandlerEx with a key of the caller's choice: RunHandler's is the     *)
(* request's Cmd, RunHandlerMark's its Mark.                               *)
RunHandlerEx(top, key, cmd) ==
    LET run[d \in Dispatchers] == RunKey(run, d, cmd, cmd)
    IN RunKey(run, top, key, cmd)

RunHandler(d, cmd) == RunHandlerEx(d, cmd, cmd)
-----------------------------------------------------------------------------
(* Building.                                                               *)
CreateReqDispatcher == [in |-> << >>, out |-> << >>, handlers |-> [c \in Cmds |-> << >>],
                        def |-> NoFn]

DispInit == /\ disp = [d \in Dispatchers |-> CreateReqDispatcher]
            /\ built = 0
            /\ verdict \in Verdicts

Build(d, with) == /\ built < MaxBuild
                  /\ built' = built + 1
                  /\ disp' = [disp EXCEPT ![d] = with]
                  /\ UNCHANGED verdict

WithHandler(m, cmd, fn, flag) ==
    [m EXCEPT !.handlers[cmd] = Append(@, [fn |-> fn, flag |-> flag])]

AddHandler(d, cmd, fn, flag) == Build(d, WithHandler(disp[d], cmd, fn, flag))

SetDefHandler(d, fn) == Build(d, [disp[d] EXCEPT !.def = fn])

(* sort.Slice by priority: equal priorities may come out in any order.     *)
Sorted(fs) ==
    {[i \in DOMAIN fs |-> fs[p[i]]] : p \in
       {p \in [DOMAIN fs -> DOMAIN fs] :
          /\ \A i, j \in DOMAIN fs : i # j => p[i] # p[j]
          /\ \A i, j \in DOMAIN fs : i < j => fs[p[i]].prio <= fs[p[j]].prio}}

AddInFilter(d, prio, fn) ==
    \E fs \in Sorted(Append(disp[d].in, [prio |-> prio, fn |-> fn])) :
        Build(d, [disp[d] EXCEPT !.in = fs])

AddOutFilter(d, prio, fn) ==
    \E fs \in Sorted(Append(disp[d].out, [prio |-> prio, fn |-> fn])) :
        Build(d, [disp[d] EXCEPT !.out = fs])

(* Merge and AppendDispatcher: RunHandler of the other dispatcher becomes  *)
(* a handler, without a flag, of every command it has now: the first one   *)
(* to bring a command keeps it unless Merge is told otherwise.  A default  *)
(* handler is taken over by itself, without the other's filters.           *)
WithHandlersOf(m, c, unique) ==
    [m EXCEPT !.handlers = [cmd \in Cmds |->
                 IF disp[c].handlers[cmd] # << >> /\ (~unique \/ m.handlers[cmd] = << >>)
                 THEN Append(m.handlers[cmd], [fn |-> c, flag |-> 0])
                 ELSE m.handlers[cmd]],
              !.def = IF @ = NoFn THEN disp[c].def ELSE @]

Merge(d, c, unique) == c < d /\ Build(d, WithHandlersOf(disp[d], c, unique))
AppendDispatcher(d, c) == Merge(d, c, TRUE)

DispNext ==
    \E d \in Dispatchers :
       \/ \E cmd \in Cmds, fn \in Fns, flag \in Flags : AddHandler(d, cmd, fn, flag)
       \/ \E fn \in Fns : SetDefHandler(d, fn)
       \/ \E prio \in Prios, fn \in Filters : AddInFilter(d, prio, fn) \/ AddOutFilter(d, prio, fn)
       \/ \E c \in Dispatchers : Merge(d, c, FALSE) \/ AppendDispatcher(d, c)

DispSpec == DispInit /\ [][DispNext]_dispVars
-----------------------------------------------------------------------------
Refuses(d, flag) == \E i \in DOMAIN disp[d].in : flag \notin verdict.accepts[disp[d].in[i].fn]

(* No handler runs for a request that an input filter refused, at any of   *)
(* the dispatchers it is reached through, however they were merged and     *)
(* whichever field the request is dispatched by (reqhandler.go:125).       *)
FiltersGuard ==
    \A d \in Dispatchers, key, cmd \in Cmds :
        LET steps == RunHandlerEx(d, key, cmd).steps IN
        \A i \in DOMAIN steps : steps[i].kind = "fn" =>
            \A j \in DOMAIN steps[i].path :
                ~Refuses(steps[i].path[j].d, steps[i].path[j].flag)
=============================================================================
