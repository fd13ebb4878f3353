------------------------------- MODULE JobPool -------------------------------
(***************************************************************************)
(* What a WaitJob promises: every job is run at most once; the result is   *)
(* exactly the set of failed jobs; and a job is left out only when quick   *)
(* cancel was asked for and some job failed.                               *)
(***************************************************************************)
CONSTANT Jobs

VARIABLES quick,     \* quick_cancel
          status,    \* [Jobs -> {"todo", "ok", "failed"}]
          returned,  \* has Wait returned?
          reported   \* the jobs whose errors it returned

poolVars == <<quick, status, returned, reported>>

Failed == {j \in Jobs : status[j] = "failed"}

PoolInit == /\ quick \in BOOLEAN
            /\ status = [j \in Jobs |-> "todo"]
            /\ returned = FALSE
            /\ reported = {}

Run(j) == /\ status[j] = "todo"
          /\ ~returned
          /\ \E res \in {"ok", "failed"} : status' = [status EXCEPT ![j] = res]
          /\ UNCHANGED <<quick, returned, reported>>

WaitReturns == /\ ~returned
               /\ (\E j \in Jobs : status[j] = "todo") => quick /\ Failed # {}
               /\ returned' = TRUE
               /\ reported' = Failed
               /\ UNCHANGED <<quick, status>>

PoolNext == WaitReturns \/ \E j \in Jobs : Run(j)

(* Without quick cancel every pool finishes.                               *)
PoolSpec == PoolInit /\ [][PoolNext]_poolVars /\ WF_poolVars(~quick /\ PoolNext)
=============================================================================
