------------------------------ MODULE MCProcess ------------------------------
(* Small instances for TLC of what one process does beside its work: its   *)
(* configuration files, its table of settings and its counters.  In each   *)
(* behaviour one of the three moves.                                       *)
EXTENDS TLC, ConfigReload, SysConfig, Stats
CONSTANTS a, b, empty, s1
VARIABLE part

Whole(i) == [kind |-> "int64", els |-> <<[kind |-> "int64", val |-> i]>>]
List == [kind |-> "list", els |-> <<[kind |-> "string", val |-> "x"], [kind |-> "string", val |-> "y"]>>]
MCContents == {Unreadable, NoEntry, s1 :> (a :> Whole(1)), s1 :> (a :> List),
               s1 :> (a :> Whole(2) @@ b :> Whole(2)), s1 :> (a :> Whole(2) @@ empty :> Whole(1))}
MCElements == [kind : {"int64"}, val : 1..3] \cup [kind : {"string"}, val : {"x", "y"}]
MCOwnValues == {[kind |-> "slice", els |-> <<[kind |-> "int64", val |-> 3]>>]}

MCNumbers == "0" :> 0 @@ "1" :> 1 @@ "-5" :> -5
UpTo(S, n) == UNION {[1..m -> S] : m \in 0..n}
MCDeltas == {0, 1, -2}

Chars == {"a", "0", ",", "\"", "[", "]", "'", "\\"}
MCTokens == Chars \cup {"1", "-5", "NUL"}
MCEscapes == [t \in MCTokens |-> IF t = "0" THEN "NUL" ELSE t]
Words == UpTo(Chars, 2)
MCValues == [kind : {"bool"}, val : BOOLEAN] \cup [kind : {"int64"}, val : {0, 1, -5}]
            \cup [kind : {"string"}, val : Words]
            \cup [kind : {"[]bool"}, val : UpTo(BOOLEAN, 2)]
            \cup [kind : {"[]int64"}, val : UpTo({0, 1, -5}, 2)]
            \cup [kind : {"[]string"}, val : UpTo(Words, 1) \cup UpTo(UpTo(Chars, 1), 2)]

(* Bound: after a value whose text is longer than one nothing is stored.   *)
StoresOn == stored # << >> => Len(TextOf(stored[2])) = 1

Init == /\ part \in {"config", "sysconfig", "stats"}
        /\ ConfigInit /\ SysInit /\ StatInit
        /\ part # "config" => files = [f \in FileNames |-> NoEntry]
        /\ part # "stats" => kind = "set" /\ \A c \in Callers : caller[c].val = 0
Next == \/ part = "config" /\ ConfigNext /\ UNCHANGED <<sysVars, statVars, part>>
        \/ part = "sysconfig" /\ StoresOn /\ SysNext /\ UNCHANGED <<configVars, statVars, part>>
        \/ part = "stats" /\ StatNext /\ UNCHANGED <<configVars, sysVars, part>>
Spec == Init /\ [][Next]_<<configVars, sysVars, statVars, part>>
=============================================================================
