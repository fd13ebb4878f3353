-------------------------------- MODULE MCSql --------------------------------
(* Small instances for TLC of building statements and of running them: in  *)
(* each behaviour one of the two moves.                                    *)
EXTENDS TLC, Sqler, SqlTx
CONSTANTS r1, r2, k1, k2, x, y
VARIABLE part

Cond(n, kind, known, list, rows) ==
    [n |-> n, kind |-> kind, known |-> known, list |-> list, rows |-> rows]
MCConds == {Cond(3, "params", TRUE, << >>, {r1}), Cond(2, "params", TRUE, << >>, {r2}),
            Cond(3, "params", FALSE, << >>, {}), Cond(1, "other", TRUE, << >>, {}),
            Cond(1, "map", TRUE, << >>, {}),
            Cond(1, "list", TRUE, <<[n |-> 2, known |-> TRUE]>>, {r1, r2}),
            Cond(1, "list", TRUE, <<[n |-> 4, known |-> TRUE]>>, {r1}),
            Cond(4, "params", TRUE, << >>, {r1})}
MCDatas == {[kind |-> "text", cols |-> {"t"}], [kind |-> "rows", cols |-> {x}],
            [kind |-> "map", cols |-> {x, y}]}
MCIncArgs == {{}, {x}}
MCItems == {i \in [{k1, k2, x} -> 0..1] : i[x] # i[k2]} \cup [{k1, k2} -> {0}]
MCBatches == [items : {<<i, j>> : i, j \in MCItems}, keys : {<<k1>>, <<k1, k2>>}]

Init == part \in {"sqler", "tx"} /\ SqlerInit /\ TxInit
Next == \/ part = "sqler" /\ SqlerNext /\ UNCHANGED <<txVars, part>>
        \/ part = "tx" /\ TxNext /\ UNCHANGED <<sqlerVars, part>>
Spec == Init /\ [][Next]_<<sqlerVars, txVars, part>>
=============================================================================
