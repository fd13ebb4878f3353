-------------------------------- MODULE Stats --------------------------------
(***************************************************************************)
(* log.go: the counters kept by StatSet, StatChg, StatKeepMin and          *)
(* StatKeepMax, which any goroutine calls, and printed at intervals by     *)
(* logStat.  A counter has val, of the interval and changed without        *)
(* atomics, and total_val, changed with them.                              *)
(*                                                                         *)
(* The plain accesses race; on the 64-bit builds one of them reads or      *)
(* writes the whole word, which is what a step here does.  One key.        *)
(***************************************************************************)
EXTENDS Integers, Sequences, FiniteSets, FiniteSetsExt

CONSTANTS Callers,  \* goroutines, one call each
          Deltas,   \* what they call with
          MaxClears \* bound: calls of StatClear

ASSUME StatAssumption == IsFiniteSet(Callers) /\ Deltas \subseteq Int

VARIABLES kind,     \* what is called: "set", "chg", "min" or "max"
          mdy_flag, \* g_log.mdy_flag
          perfs,    \* every perfstat_t made, in order
          current,  \* the one in g_log.perfs, 0 for none
          caller,   \* the callers
          printer,  \* logStat
          clears    \* calls of StatClear so far

statVars == <<kind, mdy_flag, perfs, current, caller, printer, clears>>

(* stat: the perfstat_t a caller made or loaded; read: what it read last.  *)
StatInit ==
    /\ kind \in {"set", "chg", "min", "max"}
    /\ mdy_flag = 0 /\ perfs = << >> /\ current = 0 /\ clears = 0
    /\ \E val \in [Callers -> Deltas] :
          caller = [c \in Callers |-> [pc |-> "out", val |-> val[c], stat |-> 0, read |-> 0]]
    /\ printer = [pc |-> "out", stat |-> 0]

At(c, pc) == caller[c].pc = pc
To(c, pc) == caller' = [caller EXCEPT ![c].pc = pc]
Pp(c) == perfs[caller[c].stat]
-----------------------------------------------------------------------------
Enter(c) ==
    /\ At(c, "out")
    /\ IF kind = "chg" /\ caller[c].val = 0
       THEN To(c, "back") /\ UNCHANGED mdy_flag
       ELSE To(c, "load") /\ mdy_flag' = 2
    /\ UNCHANGED <<kind, perfs, current, printer, clears>>

LoadOrStore(c) ==
    /\ At(c, "load")
    /\ IF current = 0
       THEN /\ perfs' = Append(perfs, [val |-> caller[c].val, total |-> caller[c].val])
            /\ current' = Len(perfs')
            /\ caller' = [caller EXCEPT ![c].pc = "back", ![c].stat = current']
       ELSE /\ caller' = [caller EXCEPT ![c].pc = IF kind = "set" THEN "write" ELSE "read",
                                        ![c].stat = current]
            /\ UNCHANGED <<perfs, current>>
    /\ UNCHANGED <<kind, mdy_flag, printer, clears>>

(* val: read, and written if the call changes it.                          *)
ReadVal(c) ==
    /\ At(c, "read")
    /\ LET v == caller[c].val
           keeps == \/ kind = "min" /\ Pp(c).val =< v
                    \/ kind = "max" /\ Pp(c).val >= v
       IN caller' = [caller EXCEPT ![c].pc = IF keeps THEN "total" ELSE "write",
                                   ![c].read = Pp(c).val]
    /\ UNCHANGED <<kind, mdy_flag, perfs, current, printer, clears>>

WriteVal(c) ==
    /\ At(c, "write")
    /\ perfs' = [perfs EXCEPT ![caller[c].stat].val =
                    IF kind = "chg" THEN caller[c].read + caller[c].val ELSE caller[c].val]
    /\ To(c, "total")
    /\ UNCHANGED <<kind, mdy_flag, current, printer, clears>>

(* total_val: stored, added to atomically, ...                             *)
WriteTotal(c) ==
    /\ At(c, "total") /\ kind \in {"set", "chg"}
    /\ perfs' = [perfs EXCEPT ![caller[c].stat].total =
                    IF kind = "chg" THEN @ + caller[c].val ELSE caller[c].val]
    /\ To(c, "back")
    /\ UNCHANGED <<kind, mdy_flag, current, printer, clears>>

(* ... or loaded and, if the call improves on it, swapped.                 *)
LoadTotal(c) ==
    /\ At(c, "total") /\ kind \in {"min", "max"}
    /\ LET old == Pp(c).total
           keeps == IF kind = "min" THEN old =< caller[c].val ELSE old >= caller[c].val
       IN caller' = [caller EXCEPT ![c].pc = IF keeps THEN "back" ELSE "swap", ![c].read = old]
    /\ UNCHANGED <<kind, mdy_flag, perfs, current, printer, clears>>

(* Seeded fault (TotalsExact): a store instead of the swap.                *)
SwapBlind(c) ==
    /\ At(c, "swap")
    /\ perfs' = [perfs EXCEPT ![caller[c].stat].total = caller[c].val]
    /\ To(c, "back")
    /\ UNCHANGED <<kind, mdy_flag, current, printer, clears>>

Swap(c) ==
    /\ At(c, "swap")
    /\ IF Pp(c).total = caller[c].read
       THEN perfs' = [perfs EXCEPT ![caller[c].stat].total = caller[c].val] /\ To(c, "back")
       ELSE UNCHANGED perfs /\ To(c, "total")
    /\ UNCHANGED <<kind, mdy_flag, current, printer, clears>>
-----------------------------------------------------------------------------
StatClear ==
    /\ clears < MaxClears /\ clears' = clears + 1
    /\ mdy_flag' = 1
    /\ current' = 0
    /\ UNCHANGED <<kind, perfs, caller, printer>>

(* logStat: nothing to print; or the flag is lowered, the counter printed  *)
(* and its val cleared.                                                    *)
LogFlag ==
    /\ printer.pc = "out" /\ mdy_flag = 2
    /\ mdy_flag' = 1
    /\ printer' = [printer EXCEPT !.pc = "range"]
    /\ UNCHANGED <<kind, perfs, current, caller, clears>>

LogRange ==
    /\ printer.pc = "range"
    /\ printer' = IF current # 0 /\ (perfs[current].val # 0 \/ perfs[current].total # 0)
                  THEN [pc |-> "clear", stat |-> current]
                  ELSE [printer EXCEPT !.pc = "out"]
    /\ UNCHANGED <<kind, mdy_flag, perfs, current, caller, clears>>

LogClear ==
    /\ printer.pc = "clear"
    /\ perfs' = [perfs EXCEPT ![printer.stat].val = 0]
    /\ printer' = [printer EXCEPT !.pc = "out"]
    /\ UNCHANGED <<kind, mdy_flag, current, caller, clears>>

StatNext ==
    \/ \E c \in Callers : \/ Enter(c) \/ LoadOrStore(c) \/ ReadVal(c) \/ WriteVal(c)
                          \/ WriteTotal(c) \/ LoadTotal(c) \/ Swap(c)
    \/ StatClear \/ LogFlag \/ LogRange \/ LogClear

StatSpec == StatInit /\ [][StatNext]_statVars
-----------------------------------------------------------------------------
(* Once the calls are back every total is exact: the sum, the least or the *)
(* greatest of what the calls that got hold of it were given, or one of    *)
(* the values set, with no call lost or counted twice, although the val    *)
(* beside it may be off, logStat clears it meanwhile, and StatClear drops  *)
(* counters in use (log.go:297,311,330).                                   *)
TotalsExact ==
    (\A c \in Callers : caller[c].pc \in {"out", "back"}) =>
        \A s \in DOMAIN perfs :
            LET users == {c \in Callers : caller[c].stat = s}
                vals == {caller[c].val : c \in users}
            IN /\ users # {}
               /\ CASE kind = "chg" -> perfs[s].total = MapThenSumSet(LAMBDA c : caller[c].val, users)
                    [] kind = "min" -> perfs[s].total = Min(vals)
                    [] kind = "max" -> perfs[s].total = Max(vals)
                    [] kind = "set" -> perfs[s].total \in vals
=============================================================================
