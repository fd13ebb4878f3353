----------------------------- MODULE MCDispatch ------------------------------
(* Small instances for TLC of three parts of request dispatching that do   *)
(* not share state: in each behaviour one of them moves.                   *)
EXTENDS TLC, ReqDispatcher, HandlerTable, NatsSubjects
CONSTANTS f1, f2, g1, g2, cA, cB, c1, c2, o1, o2, r1, r2, m1, m2, d1, p1, p2, s1, e1
VARIABLE part

MCVerdicts == [accepts : [{g1, g2} -> {{0, 1}, {0}, {1}}],
               out : {[f \in {f1, f2} |-> "reply"],
                      [f \in {f1, f2} |-> IF f = f1 THEN "error" ELSE "ack"],
                      [f \in {f1, f2} |-> IF f = f1 THEN "silent" ELSE "reply"]}]
MCQualified == [name \in {m1, m2} |-> m2]  \* m1 is the name without its service
MCNameOf == [p \in {p1, p2} |-> s1]
MCServerOf == (p1 :> "n1") @@ (p2 :> "n2")

Init == /\ part \in {"dispatcher", "table", "subjects"}
        /\ DispInit /\ TableInit /\ SubjInit
        /\ part # "dispatcher" => verdict = CHOOSE v \in MCVerdicts : TRUE
Next == \/ part = "dispatcher" /\ DispNext /\ UNCHANGED <<tableVars, subjVars, part>>
        \/ part = "table" /\ TableNext /\ UNCHANGED <<dispVars, subjVars, part>>
        \/ part = "subjects" /\ SubjNext /\ UNCHANGED <<dispVars, tableVars, part>>
Spec == Init /\ [][Next]_<<dispVars, tableVars, subjVars, part>>
=============================================================================
