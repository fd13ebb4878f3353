------------------------------- MODULE RpcCall -------------------------------
(***************************************************************************)
(* What a request-and-wait call promises its caller: the call ends, once,  *)
(* either with an answer the remote side gave to this very request or with *)
(* a failure (rejected, or out of time).  Nothing says that a call fails   *)
(* only when there was no answer: an answer may come too late.             *)
(***************************************************************************)
CONSTANT Calls

VARIABLES stage,    \* [Calls -> {"idle", "open", "answered", "failed"}]
          answers   \* the calls whose request the remote side has answered

rpcVars == <<stage, answers>>

RpcInit == stage = [k \in Calls |-> "idle"] /\ answers = {}

Open(k) == /\ stage[k] = "idle"
           /\ stage' = [stage EXCEPT ![k] = "open"]
           /\ UNCHANGED answers

(* The remote side may answer long after the caller gave up.               *)
Answer(k) == /\ stage[k] # "idle"
             /\ answers' = answers \cup {k}
             /\ UNCHANGED stage

Succeed(k) == /\ stage[k] = "open"
              /\ k \in answers
              /\ stage' = [stage EXCEPT ![k] = "answered"]
              /\ UNCHANGED answers

Fail(k) == /\ stage[k] = "open"
           /\ stage' = [stage EXCEPT ![k] = "failed"]
           /\ UNCHANGED answers

RpcNext == \E k \in Calls : Open(k) \/ Answer(k) \/ Succeed(k) \/ Fail(k)

RpcFairness == \A k \in Calls : WF_rpcVars(Succeed(k) \/ Fail(k))

RpcSpec == RpcInit /\ [][RpcNext]_rpcVars /\ RpcFairness
=============================================================================
