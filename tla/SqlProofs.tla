------------------------------ MODULE SqlProofs ------------------------------
(***************************************************************************)
(* Proofs, for every number of statements, every array and every size of   *)
(* its pieces, that the caller of a transaction or of an insert in pieces  *)
(* is told what is so (SqlTx); that a used Sqler builds, after Reset, what *)
(* a new one would, that conditions only narrow or widen, and that a batch *)
(* update does what updating item by item would (Sqler); and, for any      *)
(* values, which of those kept as text in a table are read back, from what *)
(* Split makes of joined texts and Trim of texts in brackets or quotes     *)
(* (SysConfig).                                                            *)
(***************************************************************************)
EXTENDS Sqler, SqlTx, SysConfig, SequenceTheorems, FiniteSetTheorems, WellFoundedInduction,
        TLAPS

Prefix(n) == [i \in 1..n |-> i]
Transactions == TxStyles \cup {"BatchExec"}

Odds == {"panicked", "commitIgnored", "answerLost", "endedTwice", "wentOn"}
OpType == [kind : Transactions \cup {"none", "InsertBatch"},
           pc : {"idle", "exec", "end", "piece", "done"}, next : Nat, perr : BOOLEAN,
           told : {"nothing", "success", "error"}, handle : {"none", "open", "closed"},
           odd : SUBSET Odds, cnt : Nat, size : Nat]
TxType == [state : {"none", "open", "lost"}, work : Seq(Nat)]

TxTypeOK ==
    /\ op \in OpType
    /\ tx \in TxType
    /\ db \in Seq(Nat)

(* Before an end nobody is told anything, and nothing is committed unless  *)
(* the statements went on after a failure.                                 *)
Before == op.pc \in {"idle", "exec", "end"} =>
    op.told = "nothing" /\ ("wentOn" \notin op.odd => db = << >>)

(* Between two statements: all before the next one are in the open         *)
(* transaction, unless one failed and they went on.                        *)
Executing == op.pc = "exec" =>
    /\ op.kind \in Transactions /\ op.next \in 1..NStmts
    /\ ~op.perr /\ op.odd \subseteq {"wentOn"}
    /\ op.odd = {} => tx.state = "open" /\ tx.work = Prefix(op.next - 1)

(* At the end: without an error, a panic, a failure passed over or a lost  *)
(* connection everything is in the transaction.                            *)
Ending == op.pc = "end" =>
    /\ op.kind \in Transactions /\ op.odd \subseteq {"panicked", "wentOn"}
    /\ (~op.perr /\ op.odd = {} /\ tx.state # "lost") => tx.work = Statements

(* The statements, in the transaction or without one, are in order.        *)
Below(s, n) == \A i \in DOMAIN s : s[i] < n
InOrder ==
    /\ op.pc \in {"exec", "end"} =>
         /\ IF tx.state = "open" THEN db = << >> ELSE tx.work = << >>
         /\ Increasing(db) /\ Increasing(tx.work)
    /\ op.pc = "exec" => Below(db, op.next) /\ Below(tx.work, op.next)

(* Between two pieces: so far whole pieces, and one more is owed.          *)
Inserting == op.pc = "piece" =>
    /\ op.kind = "InsertBatch" /\ op.told = "nothing" /\ op.handle = "none"
    /\ op.size \in Nat \ {0}
    /\ db = Prefix(op.next) /\ op.next % op.size = 0
    /\ op.next < op.cnt \/ (op.next = 0 /\ op.cnt = 0)

(* After an end: the error variable holds what was told, so that a second  *)
(* end that finds no error of its own tells the same again.                *)
Ended == (op.pc = "done" /\ op.handle = "closed") =>
    /\ op.kind \in Transactions
    /\ op.kind # "EndTxNil" => ((op.told = "error") <=> op.perr)
    /\ op.told # "nothing"

TxInv == /\ TxTypeOK /\ Before /\ Executing /\ Ending /\ InOrder /\ Inserting /\ Ended
         /\ ToldIsDone
-----------------------------------------------------------------------------
(* Whole pieces stay whole: what size divides, it still divides with one   *)
(* piece more.                                                             *)
LEMMA Division == ASSUME NEW n \in Nat, NEW s \in Nat \ {0}
                  PROVE n = s * (n \div s) + (n % s) /\ n % s \in 0 .. s - 1 /\ n \div s \in Nat
  BY SMTT(30)

LEMMA NoMultipleBetween ==
    ASSUME NEW s \in Nat \ {0}, NEW d \in Int, NEW r \in 0 .. s - 1, s * d = 0 - r PROVE r = 0
<1>1. CASE d >= 1
  <2>1. s * d = s * (d - 1) + s OBVIOUS
  <2>2. s * (d - 1) >= 0 BY <1>1
  <2> QED BY <2>1, <2>2
<1>2. CASE d <= -1
  <2>1. s * d = s * (d + 1) - s OBVIOUS
  <2>2. s * (0 - (d + 1)) >= 0 BY <1>2
  <2>3. s * (0 - (d + 1)) = 0 - s * (d + 1) OBVIOUS
  <2> QED BY <2>1, <2>2, <2>3
<1>3. CASE d = 0
  <2>1. s * d = 0 BY <1>3
  <2> QED BY <2>1
<1> QED BY <1>1, <1>2, <1>3

LEMMA WholePiece == ASSUME NEW n \in Nat, NEW s \in Nat \ {0}, n % s = 0 PROVE (n + s) % s = 0
<1> DEFINE q == n \div s
           p == (n + s) \div s
           r == (n + s) % s
<1>1. q \in Nat /\ n = s * q BY Division
<1>2. p \in Nat /\ r \in 0 .. s - 1 /\ n + s = s * p + r
  <2>1. n + s \in Nat OBVIOUS
  <2>2. PICK m \in Nat : m = n + s BY <2>1
  <2>3. m \div s \in Nat /\ m % s \in 0 .. s - 1 /\ m = s * (m \div s) + (m % s) BY Division
  <2> QED BY <2>2, <2>3
<1> HIDE DEF q, p, r
<1>3. s * (p - (q + 1)) = 0 - r
  <2>1. s * (p - (q + 1)) = s * p - s * q - s BY <1>1, <1>2
  <2> QED BY <2>1, <1>1, <1>2
<1>4. r = 0 BY <1>1, <1>2, <1>3, NoMultipleBetween
<1> QED BY <1>4 DEF r

(* A piece continues the array.                                            *)
LEMMA PrefixExtends == ASSUME NEW n \in Nat, NEW t \in Nat, n <= t
    PROVE Prefix(n) \o [i \in 1 .. t - n |-> n + i] = Prefix(t)
  BY DEF Prefix

LEMMA PrefixSeq == ASSUME NEW n \in Nat
    PROVE /\ Prefix(n) \in Seq(Nat) /\ Len(Prefix(n)) = n /\ DOMAIN Prefix(n) = 1..n
          /\ \A i \in 1..n : Prefix(n)[i] = i
          /\ Append(Prefix(n), n + 1) = Prefix(n + 1)
          /\ Prefix(0) = << >>
  BY DEF Prefix

(* One more statement, in order.                                           *)
LEMMA OneMore ==
    ASSUME NEW s \in Seq(Nat), NEW n \in Nat, Increasing(s), Below(s, n)
    PROVE  /\ Append(s, n) \in Seq(Nat)
           /\ Increasing(Append(s, n)) /\ Below(Append(s, n), n + 1)
<1>1. PICK t, m : t = Append(s, n) /\ m = Len(s) OBVIOUS
<1>2. /\ t \in Seq(Nat) /\ m \in Nat /\ DOMAIN s = 1..m /\ DOMAIN t = 1 .. m + 1
      /\ t[m + 1] = n /\ \A i \in 1..m : t[i] = s[i] /\ s[i] \in Nat
  BY <1>1
<1>3. Below(t, n + 1)
  <2>1. ASSUME NEW i \in 1 .. m + 1 PROVE t[i] < n + 1
    <3>1. CASE i = m + 1 BY <1>2, <3>1
    <3>2. CASE i \in 1..m BY <1>2, <3>2, SMTT(20) DEF Below
    <3> QED BY <1>2, <3>1, <3>2
  <2> QED BY <1>2, <2>1 DEF Below
<1>4. Increasing(t)
  <2>1. ASSUME NEW i \in 1 .. m + 1, NEW j \in 1 .. m + 1, i < j PROVE t[i] < t[j]
    <3>1. i \in 1..m BY <1>2, <2>1
    <3>2. CASE j = m + 1 BY <1>2, <3>1, <3>2 DEF Below
    <3>3. CASE j \in 1..m BY <1>2, <2>1, <3>1, <3>3 DEF Increasing
    <3> QED BY <1>2, <3>2, <3>3
  <2> QED BY <1>2, <2>1 DEF Increasing
<1> QED BY <1>1, <1>2, <1>3, <1>4

LEMMA Nothing == Increasing(<< >>) /\ \A n : Below(<< >>, n)
  BY DEF Increasing, Below

LEMMA BelowMore == ASSUME NEW s \in Seq(Nat), NEW n \in Nat, Below(s, n) PROVE Below(s, n + 1)
  BY DEF Below

(* What an end does to the operation.                                      *)
LEMMA ToldFields == ASSUME NEW o \in OpType, NEW failed \in BOOLEAN, NEW o2, o2 = Told(o, failed)
    PROVE /\ o2 \in OpType /\ o2.kind = o.kind /\ o2.odd = o.odd
          /\ o2.pc = "done" /\ o2.handle = "closed"
          /\ o.kind # "EndTxNil" => (o2.perr <=> (o.perr \/ failed))
          /\ o2.told = IF o.perr \/ failed THEN "error" ELSE "success"
  BY DEF Told, OpType

(* What a statement does to the operation.                                 *)
LEMMA ExecutedFields == ASSUME SqlTxAssumption, NEW o \in OpType, NEW o2, o2 = Executed(o)
    PROVE /\ o2 \in OpType /\ o2.kind = o.kind /\ o2.odd = o.odd /\ o2.told = o.told
          /\ o2.perr <=> o.perr
          /\ o.next = NStmts => o2.pc = "end"
          /\ o.next # NStmts => o2.pc = o.pc /\ o2.next = o.next + 1
<1>1. CASE o.next = NStmts
  <2>1. o2 = [o EXCEPT !.pc = "end"] BY <1>1 DEF Executed
  <2> QED BY <1>1, <2>1 DEF OpType
<1>2. CASE o.next # NStmts
  <2>1. PICK m \in Nat : m = o.next + 1 BY DEF OpType
  <2>2. o2 = [o EXCEPT !.next = m] BY <1>2, <2>1 DEF Executed
  <2> QED BY <1>2, <2>1, <2>2 DEF OpType
<1> QED BY <1>1, <1>2

LEMMA TxTypes == ASSUME TxInv
    PROVE /\ op \in OpType /\ tx \in TxType /\ db \in Seq(Nat)
          /\ NoTx \in TxType /\ Lost \in TxType
          /\ tx.work \in Seq(Nat) /\ tx.state \in {"none", "open", "lost"}
<1>1. << >> \in Seq(Nat) OBVIOUS
<1> QED BY <1>1 DEF TxInv, TxTypeOK, TxType, NoTx, Lost

LEMMA TxStarts == ASSUME SqlTxAssumption, TxInit PROVE TxInv
<1> USE DEF TxInit, OpIdle, NoTx
<1>1. TxTypeOK BY DEF TxTypeOK, OpType, TxType
<1>2. Before /\ Executing /\ Ending /\ InOrder /\ Inserting /\ Ended
  BY DEF Before, Executing, Ending, InOrder, Inserting, Ended
<1>3. ToldIsDone BY Nothing DEF ToldIsDone
<1> QED BY <1>1, <1>2, <1>3 DEF TxInv

(* The start of a transaction, which may fail.                             *)
LEMMA BeginStep == ASSUME SqlTxAssumption, TxInv, NEW kind \in Transactions, Begin(kind)
                   PROVE TxInv'
<1> USE DEF TxInv
<1>1. op = OpIdle /\ db' = db /\ db = << >> BY DEF Begin, Start, Before, OpIdle
<1>2. CASE /\ op' = [OpIdle EXCEPT !.kind = kind, !.pc = "exec", !.handle = "open"]
           /\ tx' = OpenTx(<< >>)
  <2>1. /\ op' \in OpType /\ op'.kind = kind /\ op'.pc = "exec" /\ op'.told = "nothing"
        /\ op'.next = 1 /\ ~op'.perr /\ op'.odd = {}
    BY <1>2 DEF OpIdle, OpType
  <2>2. TxTypeOK'
    <3>1. tx' \in TxType BY <1>2 DEF OpenTx, TxType
    <3> QED BY <1>1, <2>1, <3>1, TxTypes DEF TxTypeOK
  <2>3. Before' BY <1>1, <2>1 DEF Before
  <2>4. Executing'
    <3>1. 1 \in 1..NStmts BY DEF SqlTxAssumption
    <3>2. tx'.state = "open" /\ tx'.work = Prefix(op'.next - 1)
      <4>1. op'.next - 1 = 0 BY <2>1
      <4> QED BY <1>2, <4>1, PrefixSeq DEF OpenTx
    <3> QED BY <2>1, <3>1, <3>2 DEF Executing
  <2>5. InOrder'
    <3>1. PICK nil : nil = << >> OBVIOUS
    <3>2. tx'.state = "open" /\ tx'.work = nil /\ db' = nil BY <1>1, <1>2, <3>1 DEF OpenTx
    <3>3. Increasing(nil) /\ Below(nil, op'.next) BY <3>1, Nothing
    <3> QED BY <3>1, <3>2, <3>3 DEF InOrder
  <2>6. Ending' /\ Inserting' /\ Ended' BY <2>1 DEF Ending, Inserting, Ended
  <2>7. ToldIsDone' BY <1>1, <2>1, Nothing DEF ToldIsDone
  <2> QED BY <2>2, <2>3, <2>4, <2>5, <2>6, <2>7
<1>3. CASE /\ op' = [OpIdle EXCEPT !.kind = kind, !.pc = "done", !.told = "error"]
           /\ UNCHANGED tx
  <2>1. /\ op' \in OpType /\ op'.kind = kind /\ op'.pc = "done" /\ op'.told = "error"
        /\ op'.handle = "none"
    BY <1>3 DEF OpIdle, OpType
  <2>2. TxTypeOK' BY <1>1, <1>3, <2>1 DEF TxTypeOK
  <2>3. Before' /\ Executing' /\ Ending' /\ InOrder' /\ Inserting' /\ Ended'
    BY <2>1 DEF Before, Executing, Ending, InOrder, Inserting, Ended
  <2>4. ToldIsDone'
    <3>1. op'.kind # "InsertBatch" BY <2>1 DEF Transactions, TxStyles
    <3> QED BY <1>1, <2>1, <3>1, Nothing DEF ToldIsDone
  <2> QED BY <2>2, <2>3, <2>4
<1> QED BY <1>2, <1>3 DEF Begin, Start

(* A statement after which the next one is due, or the end: one that ran,  *)
(* or one whose failure is passed over.                                    *)
LEMMA ExecutedStep ==
    ASSUME SqlTxAssumption, TxInv, op.pc = "exec", NEW o \in OpType, op' = Executed(o),
           o.kind = op.kind, o.told = op.told, o.perr <=> op.perr, o.next = op.next, o.pc = op.pc,
           \/ o.odd = op.odd /\ Runs
           \/ o.odd = op.odd \cup {"wentOn"} /\ Fails
    PROVE  TxInv'
<1> USE DEF TxInv
<1>1. /\ op.next \in 1..NStmts /\ NStmts \in Nat /\ op.next \in Nat
      /\ op.kind \in Transactions /\ ~op.perr /\ op.told = "nothing"
      /\ op.odd \subseteq {"wentOn"} /\ ("wentOn" \notin op.odd => db = << >>)
      /\ op.odd = {} => tx.state = "open" /\ tx.work = Prefix(op.next - 1)
  BY DEF Executing, Before, SqlTxAssumption
<1>2. /\ op' \in OpType /\ op'.kind = op.kind /\ op'.odd = o.odd /\ op'.told = "nothing"
      /\ ~op'.perr
      /\ op.next = NStmts => op'.pc = "end"
      /\ op.next # NStmts => op'.pc = "exec" /\ op'.next = op.next + 1
  BY <1>1, ExecutedFields
<1>3. /\ IF tx.state = "open" THEN db = << >> ELSE tx.work = << >>
      /\ Increasing(db) /\ Increasing(tx.work)
      /\ Below(db, op.next) /\ Below(tx.work, op.next)
      /\ tx.work \in Seq(Nat) /\ db \in Seq(Nat)
  BY TxTypes DEF InOrder
<1>4. /\ tx' \in TxType /\ db' \in Seq(Nat)
      /\ IF tx'.state = "open" THEN db' = << >> ELSE tx'.work = << >>
      /\ Increasing(db') /\ Increasing(tx'.work)
      /\ Below(db', op.next + 1) /\ Below(tx'.work, op.next + 1)
      /\ op'.odd = {} => tx'.state = "open" /\ tx'.work = Prefix(op.next) /\ db' = << >>
      /\ "wentOn" \notin op'.odd => op'.odd = {}
      /\ op'.odd \subseteq {"wentOn"}
  <2>1. CASE /\ o.odd = op.odd /\ tx.state = "open"
             /\ tx' = OpenTx(Append(tx.work, op.next)) /\ db' = db
    <3>1. PICK w : w = Append(tx.work, op.next) OBVIOUS
    <3>2. w \in Seq(Nat) /\ Increasing(w) /\ Below(w, op.next + 1) BY <1>1, <1>3, <3>1, OneMore
    <3>3. tx' \in TxType /\ tx'.state = "open" /\ tx'.work = w
      BY <2>1, <3>1, <3>2 DEF OpenTx, TxType
    <3>4. Below(db', op.next + 1) BY <1>1, <1>3, <2>1, BelowMore
    <3>5. op'.odd = {} => tx'.work = Prefix(op.next)
      <4>1. op'.odd = {} => tx.work = Prefix(op.next - 1) BY <1>1, <1>2, <2>1
      <4>2. op.next - 1 \in Nat /\ (op.next - 1) + 1 = op.next BY <1>1
      <4>3. Append(Prefix(op.next - 1), op.next) = Prefix(op.next) BY <4>2, PrefixSeq
      <4> QED BY <3>1, <3>3, <4>1, <4>3
    <3> QED BY <1>1, <1>2, <1>3, <2>1, <3>2, <3>3, <3>4, <3>5
  <2>2. CASE o.odd = op.odd /\ tx.state = "none" /\ db' = Append(db, op.next) /\ tx' = tx
    <3>1. PICK d : d = Append(db, op.next) OBVIOUS
    <3>2. d \in Seq(Nat) /\ Increasing(d) /\ Below(d, op.next + 1) BY <1>1, <1>3, <3>1, OneMore
    <3>3. Below(tx'.work, op.next + 1) BY <1>1, <1>3, <2>2, BelowMore
    <3>4. op.odd # {} BY <1>1, <2>2
    <3>5. tx \in TxType BY TxTypes
    <3> QED BY <1>1, <1>2, <1>3, <2>2, <3>1, <3>2, <3>3, <3>4, <3>5
  <2>3. CASE o.odd = op.odd \cup {"wentOn"} /\ Fails
    <3>1. tx' \in {tx, NoTx, Lost} /\ db' = db BY <2>3 DEF Fails, Lost
    <3>2. PICK nil : nil = << >> OBVIOUS
    <3>3. NoTx.state # "open" /\ Lost.state # "open" /\ NoTx.work = nil /\ Lost.work = nil
      BY <3>2 DEF NoTx, Lost
    <3>4. tx' \in TxType /\ db' \in Seq(Nat) BY <3>1, TxTypes
    <3>5. Increasing(nil) /\ Below(nil, op.next + 1) BY <3>2, Nothing
    <3>6. Below(tx.work, op.next + 1) /\ Below(db, op.next + 1) BY <1>1, <1>3, BelowMore
    <3>7. IF tx'.state = "open" THEN db' = << >> ELSE tx'.work = << >>
      BY <1>3, <3>1, <3>2, <3>3
    <3>8. Increasing(tx'.work) /\ Below(tx'.work, op.next + 1) BY <1>3, <3>1, <3>3, <3>5, <3>6
    <3>9. op'.odd = {"wentOn"} BY <1>1, <1>2, <2>3
    <3> QED BY <1>3, <3>1, <3>4, <3>6, <3>7, <3>8, <3>9
  <2> QED BY <2>1, <2>2, <2>3 DEF Runs
<1>5. TxTypeOK' BY <1>2, <1>4 DEF TxTypeOK
<1>6. Before' BY <1>2, <1>4 DEF Before
<1>7. Executing'
  <2> SUFFICES ASSUME op'.pc = "exec" PROVE Executing' BY DEF Executing
  <2>1. op'.next = op.next + 1 /\ op.next # NStmts BY <1>2
  <2>2. op'.next \in 1..NStmts /\ op'.next - 1 = op.next BY <1>1, <2>1
  <2> QED BY <1>1, <1>2, <1>4, <2>2 DEF Executing
<1>8. Ending'
  <2>1. ASSUME op'.pc = "end", op'.odd = {} PROVE tx'.work = Statements
    <3>1. op.next = NStmts BY <1>2, <2>1
    <3>2. tx'.work = Prefix(NStmts) BY <1>4, <2>1, <3>1
    <3> QED BY <3>2 DEF Prefix, Statements
  <2> QED BY <1>1, <1>2, <1>4, <2>1 DEF Ending
<1>9. InOrder'
  <2>1. op'.pc = "exec" => op'.next = op.next + 1 BY <1>2
  <2> QED BY <1>4, <2>1 DEF InOrder
<1>10. Inserting' /\ Ended' BY <1>2 DEF Inserting, Ended
<1>11. ToldIsDone' BY <1>2, <1>4 DEF ToldIsDone
<1> QED BY <1>5, <1>6, <1>7, <1>8, <1>9, <1>10, <1>11

(* Whatever leads to the end with an error or by a panic.                  *)
LEMMA FailedStep ==
    ASSUME TxInv, op.pc = "exec", db' = db, tx' \in {tx, NoTx, Lost},
           \/ op' = [op EXCEPT !.perr = TRUE, !.pc = "end"]
           \/ op' = [op EXCEPT !.odd = @ \cup {"panicked"}, !.pc = "end"]
    PROVE  TxInv'
<1> USE DEF TxInv
<1>1. op \in OpType /\ op.odd \subseteq {"wentOn"} /\ op.kind \in Transactions
  BY TxTypes DEF Executing
<1>2. /\ op' \in OpType /\ op'.kind = op.kind /\ op'.told = op.told /\ op'.pc = "end"
      /\ op'.odd \subseteq {"panicked", "wentOn"} /\ (op'.perr \/ op'.odd # {})
      /\ "wentOn" \in op.odd => "wentOn" \in op'.odd
  <2>1. CASE op' = [op EXCEPT !.perr = TRUE, !.pc = "end"] BY <1>1, <2>1 DEF OpType
  <2>2. CASE op' = [op EXCEPT !.odd = @ \cup {"panicked"}, !.pc = "end"]
    <3>1. PICK o \in SUBSET Odds : o = op.odd \cup {"panicked"} BY <1>1 DEF Odds
    <3>2. op' = [op EXCEPT !.odd = o, !.pc = "end"] BY <2>2, <3>1
    <3>3. op' \in OpType /\ op'.odd = o /\ op'.kind = op.kind /\ op'.told = op.told
          /\ op'.pc = "end"
      BY <1>1, <3>2 DEF OpType
    <3> QED BY <1>1, <3>1, <3>3
  <2> QED BY <2>1, <2>2
<1>3. op.told = "nothing" /\ ("wentOn" \notin op.odd => db = << >>) BY DEF Before
<1>4. TxTypeOK' BY <1>2, TxTypes DEF TxTypeOK
<1>5. Before' BY <1>2, <1>3 DEF Before
<1>6. Ending' BY <1>1, <1>2 DEF Ending
<1>7. Executing' /\ Inserting' /\ Ended' BY <1>2 DEF Executing, Inserting, Ended
<1>8. InOrder' /\ Increasing(db')
  <2>1. PICK nil : nil = << >> OBVIOUS
  <2>2. NoTx.state # "open" /\ Lost.state # "open" /\ NoTx.work = nil /\ Lost.work = nil
    BY <2>1 DEF NoTx, Lost
  <2>3. Increasing(nil) BY <2>1, Nothing
  <2>4. /\ IF tx.state = "open" THEN db = nil ELSE tx.work = nil
        /\ Increasing(db) /\ Increasing(tx.work)
    BY <2>1 DEF InOrder
  <2>5. /\ IF tx'.state = "open" THEN db' = nil ELSE tx'.work = nil
        /\ Increasing(db') /\ Increasing(tx'.work)
    BY <2>2, <2>3, <2>4
  <2> QED BY <1>2, <2>1, <2>5 DEF InOrder
<1>9. ToldIsDone' BY <1>2, <1>3, <1>8 DEF ToldIsDone
<1> QED BY <1>4, <1>5, <1>6, <1>7, <1>8, <1>9

LEMMA ConnLostStep == ASSUME TxInv, ConnLost PROVE TxInv'
<1> USE DEF TxInv
<1>1. op' = op /\ db' = db /\ op.pc = "end" /\ tx' = Lost BY DEF ConnLost
<1>2. TxTypeOK' BY <1>1, TxTypes DEF TxTypeOK
<1>3. Before' /\ Executing' /\ Inserting' /\ Ended'
  BY <1>1 DEF Before, Executing, Inserting, Ended
<1>4. ToldIsDone' BY <1>1 DEF ToldIsDone
<1>5. PICK nil : nil = << >> OBVIOUS
<1>6. tx'.state = "lost" /\ tx'.work = nil BY <1>1, <1>5 DEF Lost
<1>7. Ending' BY <1>1, <1>6 DEF Ending
<1>8. InOrder'
  <2>1. Increasing(nil) BY <1>5, Nothing
  <2>2. Increasing(db) BY <1>1 DEF InOrder
  <2> QED BY <1>1, <1>5, <1>6, <2>1, <2>2 DEF InOrder
<1> QED BY <1>2, <1>3, <1>4, <1>7, <1>8

(* The end of a transaction, with what it tells: all is settled but        *)
(* whether what is told is so.                                             *)
LEMMA EndStep ==
    ASSUME TxInv, op.kind \in Transactions, NEW o \in OpType, NEW failed \in BOOLEAN,
           o.kind = op.kind, o.perr <=> op.perr,
           op' = Told(o, failed), tx' \in TxType, db' \in Seq(Nat)
    PROVE  /\ TxTypeOK' /\ Before' /\ Executing' /\ Ending' /\ InOrder' /\ Inserting' /\ Ended'
           /\ op'.odd = o.odd /\ op'.kind = op.kind /\ op'.kind # "InsertBatch"
           /\ op'.told = IF op.perr \/ failed THEN "error" ELSE "success"
<1>1. /\ op' \in OpType /\ op'.kind = o.kind /\ op'.odd = o.odd
      /\ op'.pc = "done" /\ op'.handle = "closed"
      /\ o.kind # "EndTxNil" => (op'.perr <=> (o.perr \/ failed))
      /\ op'.told = IF o.perr \/ failed THEN "error" ELSE "success"
  BY ToldFields
<1>2. TxTypeOK' BY <1>1 DEF TxTypeOK
<1>3. Before' /\ Executing' /\ Ending' /\ InOrder' /\ Inserting'
  BY <1>1 DEF Before, Executing, Ending, InOrder, Inserting
<1>4. Ended' BY <1>1 DEF Ended
<1>5. op'.kind # "InsertBatch" BY <1>1 DEF Transactions, TxStyles
<1> QED BY <1>1, <1>2, <1>3, <1>4, <1>5

LEMMA CommitStep == ASSUME TxInv, Commit PROVE TxInv'
<1> USE DEF TxInv
<1> DEFINE Ignored == IF op.kind = "BatchExec" THEN {"commitIgnored"} ELSE {}
           failed == [op EXCEPT !.odd = @ \cup Ignored]
           lost == [failed EXCEPT !.odd = @ \cup {"answerLost"}]
           told == op.kind # "BatchExec"
           Settled == /\ TxTypeOK /\ Before /\ Executing /\ Ending /\ InOrder /\ Inserting /\ Ended
                      /\ op.kind # "InsertBatch"
<1>1. /\ op.pc = "end" /\ ~op.perr /\ op.told = "nothing" /\ op.kind \in Transactions
      /\ "wentOn" \notin op.odd => db = << >>
      /\ op.odd \subseteq {"panicked", "wentOn"} /\ Increasing(db)
  BY DEF Commit, Before, Ending, InOrder
<1>2. /\ tx' = NoTx /\ told \in BOOLEAN
      /\ db \o tx.work \in Seq(Nat) /\ Increasing(db \o tx.work)
      /\ (op.odd = {} /\ tx.state # "lost") => db \o tx.work = Statements
  <2>1. tx.work \in Seq(Nat) /\ db \in Seq(Nat) /\ tx' = NoTx BY TxTypes DEF Commit
  <2>2. PICK w, d : w = tx.work /\ d = db OBVIOUS
  <2>3. PICK nil : nil = << >> OBVIOUS
  <2>4. nil \o w = w /\ d \o nil = d BY <2>1, <2>2, <2>3, ConcatEmptySeq
  <2>5. /\ d = nil \/ w = nil
        /\ Increasing(d) /\ Increasing(w)
    BY <1>1, <2>2, <2>3 DEF InOrder
  <2>6. d \o w = d \/ d \o w = w BY <2>4, <2>5
  <2>7. (op.odd = {} /\ tx.state # "lost") => d \o w = Statements
    BY <1>1, <2>2, <2>3, <2>4 DEF Ending
  <2> QED BY <2>1, <2>2, <2>5, <2>6, <2>7
<1>3. CASE tx.state # "lost" /\ db' = db \o tx.work /\ op' = Told(op, FALSE)
  <2>1. PICK no \in BOOLEAN : no = FALSE OBVIOUS
  <2>2. Settled' /\ op'.odd = op.odd /\ op'.told = "success"
    BY <1>1, <1>2, <1>3, <2>1, EndStep, TxTypes
  <2>3. ToldIsDone'
    <3>1. op.odd \cap {"commitIgnored", "panicked", "wentOn"} = {} => op.odd = {} BY <1>1
    <3>2. op.odd = {} => db' = Statements BY <1>1, <1>2, <1>3
    <3> QED BY <1>2, <1>3, <2>2, <3>1, <3>2 DEF ToldIsDone
  <2> QED BY <2>2, <2>3
<1>4. CASE db' = db /\ op' = Told(failed, told)
  <2>1. failed \in OpType /\ failed.odd = op.odd \cup Ignored /\ failed.kind = op.kind
        /\ (failed.perr <=> op.perr)
    BY TxTypes DEF OpType, Odds
  <2> HIDE DEF failed
  <2>2. Settled' /\ op'.odd = failed.odd /\ op'.told = IF told THEN "error" ELSE "success"
    <3> HIDE DEF told
    <3> QED BY <1>1, <1>2, <1>4, <2>1, EndStep, TxTypes
  <2>3. ToldIsDone'
    <3>1. CASE told
      <4>1. "wentOn" \notin op'.odd => db' = << >> BY <1>1, <1>4, <2>1, <2>2
      <4> QED BY <1>1, <1>4, <2>2, <3>1, <4>1 DEF ToldIsDone
    <3>2. CASE ~told
      <4>1. "commitIgnored" \in op'.odd BY <2>1, <2>2, <3>2
      <4> QED BY <1>1, <1>4, <2>2, <3>2, <4>1 DEF ToldIsDone
    <3> QED BY <3>1, <3>2
  <2> QED BY <2>2, <2>3
<1>5. CASE db' = db \o tx.work /\ op' = Told(lost, told)
  <2>1. lost \in OpType /\ lost.odd = op.odd \cup Ignored \cup {"answerLost"}
        /\ lost.kind = op.kind /\ (lost.perr <=> op.perr)
    BY TxTypes DEF OpType, Odds
  <2> HIDE DEF lost
  <2>2. Settled' /\ op'.odd = lost.odd /\ op'.told = IF told THEN "error" ELSE "success"
    <3> HIDE DEF told
    <3> QED BY <1>1, <1>2, <1>5, <2>1, EndStep, TxTypes
  <2>3. ToldIsDone'
    <3>1. "answerLost" \in op'.odd /\ (~told => "commitIgnored" \in op'.odd) BY <2>1, <2>2
    <3> QED BY <1>2, <1>5, <2>2, <3>1 DEF ToldIsDone
  <2> QED BY <2>2, <2>3
<1> QED BY <1>3, <1>4, <1>5 DEF Commit

LEMMA RollbackStep == ASSUME TxInv, Rollback PROVE TxInv'
<1> USE DEF TxInv
<1>1. PICK failed \in BOOLEAN : op' = Told(op, failed) BY DEF Rollback
<1>2. /\ op.pc = "end" /\ op.perr /\ tx' = NoTx /\ db' = db /\ op.kind \in Transactions
      /\ "wentOn" \notin op.odd => db = << >>
      /\ Increasing(db)
  BY DEF Rollback, Before, Ending, InOrder
<1>3. /\ TxTypeOK' /\ Before' /\ Executing' /\ Ending' /\ InOrder' /\ Inserting' /\ Ended'
      /\ op'.kind # "InsertBatch" /\ op'.told = "error" /\ op'.odd = op.odd
  BY <1>1, <1>2, EndStep, TxTypes
<1>4. ToldIsDone' BY <1>2, <1>3 DEF ToldIsDone
<1> QED BY <1>3, <1>4

(* A second end.  What it finds in the error variable it tells again, and  *)
(* what it tells new is an error.                                          *)
LEMMA EndAgainStep == ASSUME TxInv, EndAgain PROVE TxInv'
<1> USE DEF TxInv
<1> DEFINE twice == [op EXCEPT !.odd = @ \cup {"endedTwice"}]
<1>1. /\ op.pc = "done" /\ op.handle = "closed" /\ op.kind \in Transactions
      /\ op.kind # "EndTxNil" => ((op.told = "error") <=> op.perr)
      /\ op.told # "nothing" /\ op.told \in {"nothing", "success", "error"}
      /\ op.kind # "InsertBatch" /\ tx' = tx /\ db' = db
  BY TxTypes DEF EndAgain, Ended, OpType, TxStyles
<1>2. twice \in OpType /\ twice.odd = op.odd \cup {"endedTwice"} /\ twice.kind = op.kind
      /\ (twice.perr <=> op.perr)
  BY TxTypes DEF OpType, Odds
<1>3. PICK failed \in BOOLEAN : op' = Told(twice, failed) /\ (failed <=> op.kind # "EndXormTx")
  BY DEF EndAgain
<1> HIDE DEF twice
<1>4. /\ TxTypeOK' /\ Before' /\ Executing' /\ Ending' /\ InOrder' /\ Inserting' /\ Ended'
      /\ op'.odd = twice.odd /\ op'.kind = op.kind /\ op'.kind # "InsertBatch"
      /\ op'.told = IF op.perr \/ failed THEN "error" ELSE "success"
  BY <1>1, <1>2, <1>3, EndStep, TxTypes
<1>5. ToldIsDone'
  <2>1. op'.told = "success" => op.told = "success" BY <1>1, <1>3, <1>4
  <2>2. op.odd \subseteq op'.odd /\ "endedTwice" \in op'.odd BY <1>2, <1>4
  <2>3. op'.odd \cap {"answerLost", "endedTwice", "wentOn"} # {} BY <2>2
  <2>4. op'.odd \cap {"commitIgnored", "panicked", "wentOn"} = {}
          => op.odd \cap {"commitIgnored", "panicked", "wentOn"} = {}
    BY <2>2
  <2>5. Increasing(db) BY <1>1 DEF ToldIsDone
  <2> QED BY <1>1, <1>4, <2>1, <2>3, <2>4, <2>5 DEF ToldIsDone
<1> QED BY <1>4, <1>5

LEMMA InsertBatchStep ==
    ASSUME SqlTxAssumption, TxInv, NEW cnt \in 0..MaxArray, NEW size \in Sizes,
           SqlValuesInsertBatch(cnt, size)
    PROVE  TxInv'
<1> USE DEF TxInv
<1> DEFINE sz == IF size < MinSize THEN MinSize ELSE size
<1>1. op = OpIdle /\ db' = db /\ db = << >> /\ tx' = tx
  BY DEF SqlValuesInsertBatch, Start, Before, OpIdle
<1>2. cnt \in Nat /\ sz \in Nat \ {0} BY DEF SqlTxAssumption
<1>3. /\ op' \in OpType /\ op'.kind = "InsertBatch" /\ op'.pc = "piece" /\ op'.next = 0
      /\ op'.cnt = cnt /\ op'.size = sz /\ op'.told = "nothing"
      /\ op'.handle = "none"
  <2>1. op' = [OpIdle EXCEPT !.kind = "InsertBatch", !.pc = "piece", !.next = 0, !.cnt = cnt,
                            !.size = sz]
    BY DEF SqlValuesInsertBatch, Start
  <2> HIDE DEF sz
  <2> QED BY <1>2, <2>1 DEF OpIdle, OpType
<1> HIDE DEF sz
<1>4. TxTypeOK' BY <1>1, <1>3, TxTypes DEF TxTypeOK
<1>5. Before' /\ Executing' /\ Ending' /\ InOrder' /\ Ended'
  BY <1>3 DEF Before, Executing, Ending, InOrder, Ended
<1>6. Inserting'
  <2>1. 0 % sz = 0 BY <1>2
  <2>2. db' = Prefix(0) BY <1>1, PrefixSeq
  <2>3. 0 < cnt \/ cnt = 0 BY <1>2
  <2> QED BY <1>2, <1>3, <2>1, <2>2, <2>3 DEF Inserting
<1>7. ToldIsDone' BY <1>3 DEF ToldIsDone
<1> QED BY <1>4, <1>5, <1>6, <1>7

LEMMA PieceContinues ==
    ASSUME TxInv, op.pc = "piece"
    PROVE  /\ op.next \in Nat /\ op.size \in Nat \ {0} /\ op.cnt \in Nat
           /\ op.next + op.size >= op.cnt => db \o Piece = Prefix(op.cnt)
           /\ op.next + op.size < op.cnt => db \o Piece = Prefix(op.next + op.size)
           /\ Piece # << >> => op.next < op.cnt
           /\ db \o Piece \in Seq(Nat)
<1>1. /\ op.next \in Nat /\ op.size \in Nat \ {0} /\ op.cnt \in Nat /\ db = Prefix(op.next)
      /\ op.next < op.cnt \/ (op.next = 0 /\ op.cnt = 0)
  BY TxTypes DEF TxInv, Inserting, OpType
<1> DEFINE to == IF op.next + op.size >= op.cnt THEN op.cnt ELSE op.next + op.size
<1>2. to \in Nat /\ op.next <= to BY <1>1
<1>3. Piece = [i \in 1 .. to - op.next |-> op.next + i] BY DEF Piece
<1>4. to - op.next = 0 => Piece = << >> BY <1>3
<1> HIDE DEF to
<1>5. db \o Piece = Prefix(to) BY <1>1, <1>2, <1>3, PrefixExtends
<1>6. Prefix(to) \in Seq(Nat) BY <1>2, PrefixSeq
<1>7. (op.next = 0 /\ op.cnt = 0) => to - op.next = 0 BY <1>1 DEF to
<1> QED BY <1>1, <1>4, <1>5, <1>6, <1>7 DEF to

(* The end of an insert in pieces, told as it is.                          *)
LEMMA InsertEndStep ==
    ASSUME TxInv, op.pc = "piece", op' \in OpType, op'.kind = "InsertBatch", op'.pc = "done",
           op'.handle = "none", tx' = tx, db' \in Seq(Nat), ToldIsDone'
    PROVE  TxInv'
<1>1. TxTypeOK' BY TxTypes DEF TxTypeOK
<1>2. Before' /\ Executing' /\ Ending' /\ InOrder' /\ Inserting' /\ Ended'
  BY DEF Before, Executing, Ending, InOrder, Inserting, Ended
<1> QED BY <1>1, <1>2 DEF TxInv

LEMMA InsertPieceStep == ASSUME TxInv, InsertPiece PROVE TxInv'
<1> USE DEF TxInv
<1> DEFINE next == op.next + op.size
           error == [op EXCEPT !.pc = "done", !.told = "error"]
<1>1. /\ op.pc = "piece" /\ op \in OpType /\ op.kind = "InsertBatch" /\ op.handle = "none"
      /\ db = Prefix(op.next) /\ op.next % op.size = 0 /\ tx' = tx
      /\ op.next < op.cnt \/ (op.next = 0 /\ op.cnt = 0)
      /\ op.next \in Nat /\ op.size \in Nat \ {0} /\ op.cnt \in Nat /\ next \in Nat
  <2>1. op.pc = "piece" /\ op \in OpType /\ tx' = tx BY TxTypes DEF InsertPiece
  <2>2. /\ op.kind = "InsertBatch" /\ op.handle = "none" /\ db = Prefix(op.next)
        /\ op.next % op.size = 0
        /\ op.next < op.cnt \/ (op.next = 0 /\ op.cnt = 0)
    BY <2>1 DEF Inserting
  <2>3. op.next \in Nat /\ op.size \in Nat \ {0} /\ op.cnt \in Nat BY <2>1, PieceContinues
  <2>4. next \in Nat BY <2>3
  <2> HIDE DEF next
  <2> QED BY <2>1, <2>2, <2>3, <2>4
<1>2. /\ error \in OpType /\ error.kind = "InsertBatch" /\ error.pc = "done"
      /\ error.handle = "none" /\ error.told = "error" /\ error.odd = op.odd
      /\ error.size = op.size /\ error.cnt = op.cnt
  BY <1>1 DEF OpType
<1>3. CASE /\ Piece # << >> /\ db' = db \o Piece /\ next >= op.cnt
           /\ op' = [op EXCEPT !.pc = "done", !.told = "success"]
  <2>1. /\ op' \in OpType /\ op'.kind = "InsertBatch" /\ op'.pc = "done"
        /\ op'.handle = "none" /\ op'.told = "success" /\ op'.cnt = op.cnt
    BY <1>1, <1>3 DEF OpType
  <2>2. db' = Prefix(op'.cnt) /\ db' \in Seq(Nat) BY <1>1, <1>3, <2>1, PieceContinues
  <2>3. ToldIsDone' BY <2>1, <2>2 DEF ToldIsDone, Prefix
  <2> QED BY <1>1, <2>1, <2>2, <2>3, InsertEndStep
<1>4. CASE /\ Piece # << >> /\ db' = db \o Piece /\ next < op.cnt
           /\ op' = [op EXCEPT !.next = next]
  <2>1. /\ op' \in OpType /\ op'.kind = "InsertBatch" /\ op'.pc = "piece"
        /\ op'.handle = "none" /\ op'.told = op.told /\ op'.cnt = op.cnt
        /\ op'.next = next /\ op'.size = op.size
    <3> HIDE DEF next
    <3> QED BY <1>1, <1>4 DEF OpType
  <2>2. db' = Prefix(next) /\ db' \in Seq(Nat) BY <1>1, <1>4, PieceContinues
  <2>3. next % op.size = 0 BY <1>1, WholePiece
  <2>4. op.told = "nothing" BY <1>1 DEF Inserting
  <2>5. TxTypeOK' BY <1>1, <2>1, <2>2, TxTypes DEF TxTypeOK
  <2>6. Before' /\ Executing' /\ Ending' /\ InOrder' /\ Ended' /\ ToldIsDone'
    BY <2>1, <2>4 DEF Before, Executing, Ending, InOrder, Ended, ToldIsDone
  <2>7. Inserting' BY <1>1, <1>4, <2>1, <2>2, <2>3, <2>4 DEF Inserting
  <2> QED BY <2>5, <2>6, <2>7
<1>5. CASE /\ db' = db \o Piece /\ op' = [error EXCEPT !.odd = {"answerLost"}]
  <2> HIDE DEF error
  <2>1. /\ op' \in OpType /\ op'.kind = "InsertBatch" /\ op'.pc = "done"
        /\ op'.handle = "none" /\ op'.told = "error" /\ op'.odd = {"answerLost"}
    BY <1>2, <1>5 DEF OpType, Odds
  <2>2. db' \in Seq(Nat) BY <1>1, <1>5, PieceContinues
  <2>3. ToldIsDone' BY <2>1 DEF ToldIsDone
  <2> QED BY <1>1, <2>1, <2>2, <2>3, InsertEndStep
<1>6. CASE db' = db /\ op' = error
  <2> HIDE DEF error
  <2>1. (\A i \in DOMAIN db : db[i] = i) /\ Len(db) = op.next BY <1>1, PrefixSeq
  <2>2. ToldIsDone' BY <1>1, <1>2, <1>6, <2>1 DEF ToldIsDone
  <2> QED BY <1>1, <1>2, <1>6, <2>2, TxTypes, InsertEndStep
<1> QED BY <1>1, <1>3, <1>4, <1>5, <1>6, SMTT(20) DEF InsertPiece

LEMMA TxStep == ASSUME SqlTxAssumption, TxInv, [TxNext]_txVars PROVE TxInv'
<1>1. ASSUME NEW kind \in TxStyles \cup {"BatchExec"}, Begin(kind) PROVE TxInv'
  BY <1>1, BeginStep DEF Transactions
<1>2. CASE Exec
  <2>0. op.pc = "exec" /\ op \in OpType BY <1>2, TxTypes DEF Exec
  <2>1. CASE op' = Executed(op) /\ Runs BY <2>0, <2>1, ExecutedStep
  <2>2. CASE op' = [op EXCEPT !.perr = TRUE, !.pc = "end"] /\ Fails
    <3>1. db' = db /\ tx' \in {tx, NoTx, Lost} BY <2>2 DEF Fails
    <3> QED BY <2>0, <2>2, <3>1, FailedStep
  <2>3. CASE op' = Executed([op EXCEPT !.odd = @ \cup {"wentOn"}]) /\ Fails
    <3>1. PICK o : o = [op EXCEPT !.odd = @ \cup {"wentOn"}] OBVIOUS
    <3>2. /\ o \in OpType /\ o.odd = op.odd \cup {"wentOn"} /\ o.kind = op.kind
          /\ o.told = op.told /\ (o.perr <=> op.perr) /\ o.next = op.next /\ o.pc = op.pc
      BY <2>0, <3>1 DEF OpType, Odds
    <3> QED BY <2>0, <2>3, <3>1, <3>2, ExecutedStep
  <2> QED BY <1>2, <2>1, <2>2, <2>3 DEF Exec
<1>3. CASE AppFails BY <1>3, FailedStep DEF AppFails
<1>4. CASE ConnLost BY <1>4, ConnLostStep
<1>5. CASE Commit BY <1>5, CommitStep
<1>6. CASE Rollback BY <1>6, RollbackStep
<1>7. CASE EndAgain BY <1>7, EndAgainStep
<1>8. ASSUME NEW cnt \in 0..MaxArray, NEW size \in Sizes, SqlValuesInsertBatch(cnt, size)
      PROVE  TxInv'
  BY <1>8, InsertBatchStep
<1>9. CASE InsertPiece BY <1>9, InsertPieceStep
<1>10. CASE UNCHANGED txVars
  BY <1>10 DEF txVars, TxInv, TxTypeOK, Before, Executing, Ending, InOrder, Inserting, Ended,
             ToldIsDone
<1> QED BY <1>1, <1>2, <1>3, <1>4, <1>5, <1>6, <1>7, <1>8, <1>9, <1>10 DEF TxNext

(* The inductive invariant of the writing operations holds of them.        *)
THEOREM TxInvariant == TxSpec => []TxInv
<1>1. TxInit => TxInv BY SqlTxAssumption, TxStarts
<1>2. TxInv /\ [TxNext]_txVars => TxInv' BY SqlTxAssumption, TxStep
<1> QED BY <1>1, <1>2, PTL DEF TxSpec

(* What the caller of a transaction, of BatchExec or of an insert in       *)
(* pieces is told is what was committed, for any number of statements, any *)
(* array and any size of its pieces, but for the cases ToldIsDone names    *)
(* (EndTx, BatchExec, SqlTxProc, CloseSqlxTx, EndXormTx,                   *)
(* SqlValuesInsertBatch).                                                  *)
THEOREM ToldTheTruth == TxSpec => []ToldIsDone
<1>1. TxInv => ToldIsDone BY DEF TxInv
<1> QED BY <1>1, TxInvariant, PTL
-----------------------------------------------------------------------------
(* The used Sqler and the fresh one are equal, field by field of those a   *)
(* new one has, but for optype, which a fresh one may not have yet.        *)
Shaped(d) == d = [f \in DOMAIN NewSqler |-> d[f]]
Alike(d, e) == /\ Shaped(d) /\ e = [d EXCEPT !.optype = e.optype]
               /\ e.optype \in {"", d.optype}
SqlerInv == Alike(dba, fresh) /\ ResetForgets

Fields == {"table", "fields", "where", "order", "limit", "offset", "join", "distinct", "group",
           "having", "data", "count", "sum", "avg", "max", "min", "incFields", "ignore", "optype"}

LEMMA FieldsOf == DOMAIN NewSqler = Fields
  BY DEF NewSqler, Fields
LEMMA ShapedFields == ASSUME NEW d, Shaped(d) PROVE DOMAIN d = Fields
  BY FieldsOf DEF Shaped
LEMMA ShapedExcept == ASSUME NEW d, Shaped(d), NEW f, NEW v PROVE Shaped([d EXCEPT ![f] = v])
  BY DEF Shaped

LEMMA AlikeFields ==
    ASSUME NEW d, NEW e, Alike(d, e)
    PROVE  /\ Shaped(d) /\ Shaped(e)
           /\ \A f \in Fields \ {"optype"} : e[f] = d[f]
<1>1. DOMAIN d = Fields BY ShapedFields DEF Alike
<1>2. PICK o : o = e.optype OBVIOUS
<1>3. Shaped([d EXCEPT !.optype = o]) BY ShapedExcept DEF Alike
<1>4. e = [d EXCEPT !.optype = o] BY <1>2 DEF Alike
<1> QED BY <1>1, <1>3, <1>4 DEF Alike

LEMMA UsedShaped == SqlerInv => Shaped(dba) /\ Shaped(fresh)
  BY AlikeFields, Zenon DEF SqlerInv

LEMMA AlikeItself == ASSUME NEW d, Shaped(d) PROVE Alike(d, d)
<1>1. DOMAIN d = Fields BY ShapedFields
<1>2. d = [d EXCEPT !.optype = d.optype] BY <1>1 DEF Shaped, Fields
<1> QED BY <1>2 DEF Alike

LEMMA AlikeExcept ==
    ASSUME NEW d, NEW e, Alike(d, e), NEW f \in Fields \ {"optype"}, NEW v
    PROVE  Alike([d EXCEPT ![f] = v], [e EXCEPT ![f] = v])
<1>1. PICK o, p : o = e.optype /\ p = d.optype OBVIOUS
<1>2. PICK d2, e2 : d2 = [d EXCEPT ![f] = v] /\ e2 = [e EXCEPT ![f] = v] OBVIOUS
<1>3. DOMAIN d = Fields /\ Shaped(d2) BY <1>2, ShapedFields, ShapedExcept DEF Alike
<1>4. e = [d EXCEPT !.optype = o] /\ o \in {"", p} BY <1>1 DEF Alike
<1>5. "optype" \in Fields /\ f # "optype" BY DEF Fields
<1>6. e2 = [d2 EXCEPT !.optype = o] BY <1>2, <1>3, <1>4, <1>5
<1>7. e2.optype = o /\ d2.optype = p BY <1>1, <1>2, <1>3, <1>5, <1>6
<1> QED BY <1>2, <1>3, <1>4, <1>6, <1>7 DEF Alike

(* Once an operation has set it, the optype of both is the same.           *)
LEMMA AlikeGiven ==
    ASSUME NEW d, NEW e, Alike(d, e), NEW o
    PROVE  /\ Alike([d EXCEPT !.optype = o], [e EXCEPT !.optype = o])
           /\ [e EXCEPT !.optype = o] = [d EXCEPT !.optype = o]
<1>1. PICK d2, e2 : d2 = [d EXCEPT !.optype = o] /\ e2 = [e EXCEPT !.optype = o] OBVIOUS
<1>2. PICK p : e = [d EXCEPT !.optype = p] BY DEF Alike
<1>3. e2 = d2 BY <1>1, <1>2
<1>4. Shaped(d2) BY <1>1, ShapedExcept DEF Alike
<1> QED BY <1>1, <1>3, <1>4, AlikeItself

LEMMA AlikeQuery ==
    ASSUME NEW d, NEW e, Alike(d, e) PROVE BuildQuery(e) = BuildQuery(d)
<1>1. /\ e.join = d.join /\ e.where = d.where /\ e.distinct = d.distinct /\ e.table = d.table
      /\ e.fields = d.fields /\ e.group = d.group /\ e.having = d.having /\ e.order = d.order
      /\ e.limit = d.limit /\ e.offset = d.offset
  BY AlikeFields DEF Fields
<1>2. Union(e) = Union(d)
  <2>1. /\ e.count = d.count /\ e.sum = d.sum /\ e.avg = d.avg
        /\ e.max = d.max /\ e.min = d.min
    BY AlikeFields DEF Fields
  <2> QED BY <2>1, Zenon DEF Union
<1>3. JoinWrong(e) <=> JoinWrong(d) BY <1>1, Zenon DEF JoinWrong
<1>4. WhereWrong(e) <=> WhereWrong(d) BY <1>1, Zenon DEF WhereWrong
<1>5. ParseWhere(e) = ParseWhere(d) BY <1>1, Zenon DEF ParseWhere
<1> QED BY <1>1, <1>2, <1>3, <1>4, <1>5, Zenon DEF BuildQuery

(* Reset, field by field.                                                  *)
LEMMA ResetFields ==
    ASSUME Shaped(dba), Reset PROVE dba' = [ResetOf(dba) EXCEPT !.optype = dba.optype]
<1>2. DOMAIN dba = Fields BY ShapedFields
<1>3. DOMAIN dba' = Fields /\ dba' = [f \in Fields |-> dba'[f]] BY <1>2 DEF Reset
<1>4. PICK n : n = [ResetOf(dba) EXCEPT !.optype = dba.optype] OBVIOUS
<1>5. DOMAIN n = Fields /\ n = [f \in Fields |-> n[f]]
  BY <1>4, FieldsOf DEF ResetOf, NewSqler
<1>6. /\ dba'.table = "" /\ dba'.fields = "" /\ dba'.where = << >> /\ dba'.order = ""
      /\ dba'.limit = 0 /\ dba'.offset = 0 /\ dba'.join = << >> /\ dba'.distinct = FALSE
  BY <1>2 DEF Reset, Fields
<1>7. /\ dba'.group = "" /\ dba'.having = "" /\ dba'.data = NewSqler.data
      /\ dba'.count = "" /\ dba'.sum = "" /\ dba'.avg = "" /\ dba'.max = "" /\ dba'.min = ""
      /\ dba'.incFields = dba.incFields /\ dba'.ignore = dba.ignore /\ dba'.optype = dba.optype
  BY <1>2 DEF Reset, Fields
<1>8. /\ n.table = "" /\ n.fields = "" /\ n.where = << >> /\ n.order = ""
      /\ n.limit = 0 /\ n.offset = 0 /\ n.join = << >> /\ n.distinct = FALSE
      /\ n.group = "" /\ n.having = "" /\ n.data = NewSqler.data
      /\ n.count = "" /\ n.sum = "" /\ n.avg = "" /\ n.max = "" /\ n.min = ""
      /\ n.incFields = dba.incFields /\ n.ignore = dba.ignore /\ n.optype = dba.optype
  BY <1>4 DEF ResetOf, NewSqler
<1>9. \A f \in Fields : dba'[f] = n[f] BY <1>6, <1>7, <1>8 DEF Fields
<1> QED BY <1>3, <1>4, <1>5, <1>9

(* What all calls come to.                                                 *)
LEMMA SqlerActs ==
    ASSUME NEW d, NEW e, Alike(d, e), dba' = d, fresh' = e,
           stmt' = stmt \/ stmt'.used = stmt'.fresh, SqlerInv
    PROVE  SqlerInv'
  BY DEF SqlerInv, ResetForgets, Alike, Shaped

LEMMA CollectStep ==
    ASSUME SqlerInv,
           \/ \E t \in Texts : Table(t) \/ Group(t) \/ Having(t) \/ Order(t)
           \/ \E n \in Nums : Limit(n) \/ Offset(n) \/ Page(n)
           \/ \E con \in {"and", "or"}, c \in Conds : Where(con, c)
           \/ \E type \in {"INNER", "LEFT", "RIGHT"}, n \in JoinArgs : Join(type, n)
           \/ Distinct \/ Ignore
    PROVE  SqlerInv'
<1> DEFINE Sets(f, v) == /\ f \in Fields \ {"optype"}
                         /\ dba' = [dba EXCEPT ![f] = v] /\ fresh' = [fresh EXCEPT ![f] = v]
                         /\ stmt' = stmt
<1>0. fresh.limit = dba.limit /\ fresh.where = dba.where /\ fresh.join = dba.join
  BY AlikeFields DEF SqlerInv, Fields
<1>1. PICK f, v : Sets(f, v)
  <2>1. ASSUME NEW t \in Texts, Table(t) PROVE  Sets("table", t)
    BY <2>1 DEF Table, Collect, Fields
  <2>2. ASSUME NEW t \in Texts, Group(t) PROVE  Sets("group", t)
    BY <2>2 DEF Group, Collect, Fields
  <2>3. ASSUME NEW t \in Texts, Having(t) PROVE  Sets("having", t)
    BY <2>3 DEF Having, Collect, Fields
  <2>4. ASSUME NEW t \in Texts, Order(t) PROVE  Sets("order", t)
    BY <2>4 DEF Order, Collect, Fields
  <2>5. ASSUME NEW n \in Nums, Limit(n) PROVE  Sets("limit", n)
    BY <2>5 DEF Limit, Collect, Fields
  <2>6. ASSUME NEW n \in Nums, Offset(n) PROVE  Sets("offset", n)
    BY <2>6 DEF Offset, Collect, Fields
  <2>7. ASSUME NEW n \in Nums, Page(n) PROVE  Sets("offset", (n - 1) * dba.limit)
    BY <1>0, <2>7 DEF Page, Collect, Fields
  <2>8. ASSUME NEW con \in {"and", "or"}, NEW c \in Conds, Where(con, c)
      PROVE  \E v : Sets("where", v)
    <3>1. PICK v : v = Append(dba.where, [con |-> con, cond |-> c]) OBVIOUS
    <3>2. Sets("where", v) BY <1>0, <2>8, <3>1 DEF Where, Collect, Fields
    <3> QED BY <3>2
  <2>9. ASSUME NEW type \in {"INNER", "LEFT", "RIGHT"}, NEW n \in JoinArgs, Join(type, n)
      PROVE  \E v : Sets("join", v)
    <3>1. PICK v : v = Append(dba.join, [type |-> type, n |-> n]) OBVIOUS
    <3>2. Sets("join", v) BY <1>0, <2>9, <3>1 DEF Join, Collect, Fields
    <3> QED BY <3>2
  <2>10. ASSUME Distinct PROVE Sets("distinct", TRUE) BY <2>10 DEF Distinct, Collect, Fields
  <2>11. ASSUME Ignore PROVE Sets("ignore", TRUE) BY <2>11 DEF Ignore, Collect, Fields
  <2> HIDE DEF Sets
  <2> QED BY <2>1, <2>2, <2>3, <2>4, <2>5, <2>6, <2>7, <2>8, <2>9, <2>10, <2>11
<1>2. Alike(dba', fresh') BY <1>1, AlikeExcept DEF SqlerInv
<1> QED BY <1>1, <1>2, SqlerActs

(* A call that builds builds the same of both: a query whatever the two    *)
(* optypes are, a writing statement as it has set both.                    *)
LEMMA QueryActs ==
    ASSUME SqlerInv, NEW d, NEW e, Alike(d, e), dba' = d, fresh' = e,
           stmt' = [used |-> BuildQuery(d), fresh |-> BuildQuery(e)]
    PROVE  SqlerInv'
  BY AlikeQuery, SqlerActs

LEMMA GivenActs ==
    ASSUME SqlerInv, NEW d, NEW e, Alike(d, e), NEW o, NEW data
    PROVE  /\ Alike(Given(d, o, data), Given(e, o, data))
           /\ Given(e, o, data) = Given(d, o, data)
<1>1. PICK d2, e2 : d2 = [d EXCEPT !.data = data] /\ e2 = [e EXCEPT !.data = data] OBVIOUS
<1>2. Alike(d2, e2) BY <1>1, AlikeExcept DEF Fields
<1>3. Given(d, o, data) = [d2 EXCEPT !.optype = o] /\ Given(e, o, data) = [e2 EXCEPT !.optype = o]
  BY <1>1 DEF Given
<1> QED BY <1>2, <1>3, AlikeGiven

LEMMA BuildStep ==
    ASSUME SqlerInv,
           \/ \E t : Select(t)
           \/ \E t \in Texts : \/ \E u \in {"count", "sum", "avg", "max", "min"} : Aggregate(u, t)
                               \/ \E n, m \in Nums : SelectCount("*", t, n, m)
           \/ Delete
           \/ \E data \in Datas : Insert(data)
    PROVE  SqlerInv'
<1>0. Alike(dba, fresh) BY DEF SqlerInv
<1>1. ASSUME NEW t, Select(t) PROVE SqlerInv'
  <2>1. PICK d, e : /\ \/ d = dba /\ e = fresh
                       \/ d = [dba EXCEPT !.fields = t] /\ e = [fresh EXCEPT !.fields = t]
                    /\ dba' = d /\ fresh' = e
                    /\ stmt' = [used |-> BuildQuery(d), fresh |-> BuildQuery(e)]
    BY <1>1 DEF Select, BuildFrom
  <2>2. Alike(d, e) BY <1>0, <2>1, AlikeExcept DEF Fields
  <2> QED BY <2>1, <2>2, QueryActs
<1>2. ASSUME NEW t \in Texts, NEW u \in {"count", "sum", "avg", "max", "min"}, Aggregate(u, t)
      PROVE  SqlerInv'
  <2>1. PICK d, e : /\ \/ d = [dba EXCEPT !.count = t] /\ e = [fresh EXCEPT !.count = t]
                       \/ d = [dba EXCEPT !.sum = t] /\ e = [fresh EXCEPT !.sum = t]
                       \/ d = [dba EXCEPT !.avg = t] /\ e = [fresh EXCEPT !.avg = t]
                       \/ d = [dba EXCEPT !.max = t] /\ e = [fresh EXCEPT !.max = t]
                       \/ d = [dba EXCEPT !.min = t] /\ e = [fresh EXCEPT !.min = t]
                    /\ dba' = d /\ fresh' = e
                    /\ stmt' = [used |-> BuildQuery(d), fresh |-> BuildQuery(e)]
    BY <1>2 DEF Aggregate, BuildFrom
  <2>2. ASSUME NEW f \in {"count", "sum", "avg", "max", "min"}
        PROVE  Alike([dba EXCEPT ![f] = t], [fresh EXCEPT ![f] = t])
    BY <1>0, AlikeExcept DEF Fields
  <2>3. Alike(d, e) BY <2>1, <2>2
  <2> QED BY <2>1, <2>3, QueryActs
<1>3. ASSUME NEW t \in Texts, NEW n \in Nums, NEW m \in Nums, SelectCount("*", t, n, m)
      PROVE  SqlerInv'
  <2>1. PICK d1, e1 : d1 = [dba EXCEPT !.offset = n] /\ e1 = [fresh EXCEPT !.offset = n] OBVIOUS
  <2>2. PICK d2, e2 : d2 = [d1 EXCEPT !.limit = m] /\ e2 = [e1 EXCEPT !.limit = m] OBVIOUS
  <2>3. PICK d, e : d = [d2 EXCEPT !.fields = "*"] /\ e = [e2 EXCEPT !.fields = "*"] OBVIOUS
  <2>4. PICK c, f : c = [dba EXCEPT !.fields = t] /\ f = [fresh EXCEPT !.fields = t] OBVIOUS
  <2>5. Alike(d, e) /\ Alike(c, f)
    <3>1. Alike(d1, e1) BY <1>0, <2>1, AlikeExcept DEF Fields
    <3>2. Alike(d2, e2) BY <2>2, <3>1, AlikeExcept DEF Fields
    <3> QED BY <1>0, <2>3, <2>4, <3>2, AlikeExcept DEF Fields
  <2>6. BuildQuery(e) = BuildQuery(d) /\ BuildQuery(f) = BuildQuery(c) BY <2>5, AlikeQuery
  <2>7. dba' = d /\ fresh' = e BY <1>3, <2>1, <2>2, <2>3 DEF SelectCount
  <2>8. /\ stmt'.used = [op |-> "pageAndTotal", page |-> BuildQuery(d), total |-> BuildQuery(c)]
        /\ stmt'.fresh = [op |-> "pageAndTotal", page |-> BuildQuery(e), total |-> BuildQuery(f)]
    BY <1>3, <2>1, <2>2, <2>3, <2>4 DEF SelectCount
  <2> QED BY <2>5, <2>6, <2>7, <2>8, SqlerActs
<1>4. ASSUME Delete PROVE SqlerInv'
  <2>1. PICK d, e : d = [dba EXCEPT !.optype = "delete"] /\ e = [fresh EXCEPT !.optype = "delete"]
    OBVIOUS
  <2>2. dba' = d /\ fresh' = e /\ stmt'.used = DeleteStmt(d) /\ stmt'.fresh = DeleteStmt(e)
    BY <1>4, <2>1 DEF Delete, BuildFrom
  <2>3. Alike(d, e) /\ e = d BY <1>0, <2>1, AlikeGiven
  <2> QED BY <2>2, <2>3, SqlerActs
<1>5. ASSUME NEW data \in Datas, Insert(data) PROVE SqlerInv'
  <2>1. PICK d, e : d = Given(dba, "insert", data) /\ e = Given(fresh, "insert", data) OBVIOUS
  <2>2. dba' = d /\ fresh' = e /\ stmt'.used = BuildExecut(d) /\ stmt'.fresh = BuildExecut(e)
    BY <1>5, <2>1 DEF Insert, BuildFrom
  <2>3. Alike(d, e) /\ e = d BY <1>0, <2>1, GivenActs
  <2> QED BY <2>2, <2>3, SqlerActs
<1> QED BY <1>1, <1>2, <1>3, <1>4, <1>5

(* BuildExecut called by the program: either the fresh one has no optype,  *)
(* or it has the other's and is the other.                                 *)
LEMMA ExecutStep == ASSUME SqlerInv, Execut PROVE SqlerInv'
<1>1. /\ dba' = dba /\ fresh' = fresh
      /\ stmt'.used = [op |-> "direct", optype |-> dba.optype, text |-> BuildExecut(dba)]
      /\ stmt'.fresh = [op |-> "direct", optype |-> fresh.optype, text |-> BuildExecut(fresh)]
  BY DEF Execut, Same, BuildFrom
<1>2. Alike(dba, fresh) BY DEF SqlerInv
<1>3. CASE fresh.optype = ""
  <2>1. stmt'.fresh.op = "direct" /\ stmt'.fresh.optype = fresh.optype BY <1>1
  <2>2. ResetForgets' BY <1>3, <2>1, Zenon DEF ResetForgets
  <2>3. Alike(dba, fresh)' BY <1>1, <1>2 DEF Alike, Shaped
  <2> QED BY <2>2, <2>3 DEF SqlerInv
<1>4. CASE fresh.optype # ""
  <2>1. PICK o : o = dba.optype OBVIOUS
  <2>2. fresh.optype = o BY <1>2, <1>4, <2>1 DEF Alike
  <2>3. fresh = [dba EXCEPT !.optype = o] BY <1>2, <2>2 DEF Alike
  <2>4. dba = [dba EXCEPT !.optype = o] BY <1>2, <2>1 DEF Alike, Shaped
  <2>5. fresh = dba BY <2>3, <2>4
  <2> QED BY <1>1, <1>2, <2>5, SqlerActs
<1> QED BY <1>3, <1>4

(* The calls that are given counters.                                      *)
LEMMA CountersStep ==
    ASSUME SqlerInv, NEW inc \in IncArgs,
           \/ \E data \in Datas : \/ Update(data, inc)
                                  \/ \E dup \in IncArgs : InsertDuplicate(data, dup, inc)
           \/ \E b \in Batches : UpdateBatch(b, inc)
    PROVE  SqlerInv'
<1>0. Alike(dba, fresh) BY DEF SqlerInv
<1>1. PICK c, f : c = WithInc(dba, inc) /\ f = WithInc(fresh, inc) OBVIOUS
<1>2. Alike(c, f) BY <1>0, <1>1, AlikeExcept DEF WithInc, Fields
<1>3. ASSUME NEW data \in Datas, Update(data, inc) PROVE SqlerInv'
  <2>1. PICK d, e : d = Given(c, "update", data) /\ e = Given(f, "update", data) OBVIOUS
  <2>2. dba' = d /\ fresh' = e /\ stmt'.used = BuildExecut(d) /\ stmt'.fresh = BuildExecut(e)
    BY <1>1, <1>3, <2>1 DEF Update, BuildFrom
  <2>3. Alike(d, e) /\ e = d BY <1>2, <2>1, GivenActs
  <2> QED BY <2>2, <2>3, SqlerActs
<1>4. ASSUME NEW data \in Datas, NEW dup \in IncArgs, InsertDuplicate(data, dup, inc)
      PROVE  SqlerInv'
  <2> DEFINE S(d) == [op |-> "duplicate", insert |-> BuildExecut(d),
                      set |-> Assignments(data.cols \ dup, inc)]
  <2>1. PICK d, e : d = Given(dba, "insert", data) /\ e = Given(fresh, "insert", data) OBVIOUS
  <2>2. dba' = d /\ fresh' = e /\ stmt'.used = S(d) /\ stmt'.fresh = S(e)
    BY <1>4, <2>1 DEF InsertDuplicate, BuildFrom
  <2>3. Alike(d, e) /\ e = d BY <1>0, <2>1, GivenActs
  <2> HIDE DEF S
  <2> QED BY <2>2, <2>3, SqlerActs
<1>5. ASSUME NEW b \in Batches, UpdateBatch(b, inc) PROVE SqlerInv'
  <2>1. /\ dba' = c /\ fresh' = f
        /\ stmt'.used = [op |-> "batch", table |-> c.table, batch |-> b, inc |-> c.incFields]
        /\ stmt'.fresh = [op |-> "batch", table |-> f.table, batch |-> b, inc |-> f.incFields]
    BY <1>1, <1>5 DEF UpdateBatch, BuildFrom
  <2>2. f.table = c.table /\ f.incFields = c.incFields BY <1>2, AlikeFields DEF Fields
  <2> QED BY <1>2, <2>1, <2>2, SqlerActs
<1> QED BY <1>3, <1>4, <1>5

LEMMA ResetStep == ASSUME SqlerInv, Reset PROVE SqlerInv'
<1>1. PICK n, o : n = ResetOf(dba) /\ o = dba.optype OBVIOUS
<1>2. dba' = [n EXCEPT !.optype = o] /\ fresh' = n /\ stmt' = stmt
  BY <1>1, ResetFields DEF SqlerInv, Alike, Reset
<1>3. Shaped(NewSqler) BY DEF Shaped, NewSqler
<1>4. Shaped(n) BY <1>1, <1>3, ShapedExcept DEF ResetOf
<1>5. n.optype = "" /\ DOMAIN n = Fields BY <1>1, <1>4, ShapedFields DEF ResetOf, NewSqler
<1>6. PICK d : d = [n EXCEPT !.optype = o] OBVIOUS
<1>7. n = [d EXCEPT !.optype = n.optype] BY <1>4, <1>5, <1>6 DEF Shaped, Fields
<1>8. Shaped(d) BY <1>4, <1>6, ShapedExcept
<1>9. Alike(d, n) BY <1>5, <1>7, <1>8 DEF Alike
<1> QED BY <1>2, <1>6, <1>9, SqlerActs

(* The used Sqler and the fresh one agree at every time.                   *)
THEOREM SqlerInvariant == SqlerSpec => []SqlerInv
<1>1. ASSUME SqlerInit PROVE SqlerInv
  <2>1. PICK n : n = NewSqler OBVIOUS
  <2>2. Shaped(n) BY <2>1 DEF Shaped, NewSqler
  <2>3. PICK none : none = NoStmt OBVIOUS
  <2>4. ResetForgets BY <1>1, <2>3 DEF SqlerInit, ResetForgets
  <2>5. Alike(n, n) BY <2>2, AlikeItself
  <2> QED BY <1>1, <2>1, <2>4, <2>5 DEF SqlerInit, SqlerInv
<1>2. ASSUME SqlerInv, SqlerNext PROVE SqlerInv'
  BY <1>2, CollectStep, BuildStep, ExecutStep, CountersStep, ResetStep DEF SqlerNext
<1>3. SqlerInv /\ UNCHANGED sqlerVars => SqlerInv'
  BY DEF SqlerInv, sqlerVars, ResetForgets, Shaped, Alike
<1> QED BY <1>1, <1>2, <1>3, PTL DEF SqlerSpec

(* Whatever statements a Sqler was used for before, and whatever is        *)
(* collected after Reset, it builds what a new one with the same counters  *)
(* and ignore would (sqler.go:529): no field is forgotten in Reset.        *)
THEOREM ResetIsComplete == SqlerSpec => []ResetForgets
<1>1. SqlerInv => ResetForgets BY DEF SqlerInv
<1> QED BY <1>1, SqlerInvariant, PTL

-----------------------------------------------------------------------------
(* Induction over numbers, from the order being well founded.              *)
LEMMA LeastNat == ASSUME NEW T \in SUBSET Nat, T # {} PROVE \E x \in T : \A y \in T : x <= y
<1>1. PICK R : R = OpToRel(<, Nat) OBVIOUS
<1>2. IsWellFoundedOn(R, Nat) BY <1>1, NatLessThanWellFounded
<1>3. PICK x \in T : \A y \in T : <<y, x>> \notin R BY <1>2, WFMin
<1>4. \A y, z \in Nat : y < z => <<y, z>> \in R BY <1>1 DEF OpToRel
<1>5. ASSUME NEW y \in T PROVE x <= y
  <2>1. x \in Nat /\ y \in Nat /\ <<y, x>> \notin R BY <1>3
  <2>2. ~(y < x) BY <1>4, <2>1
  <2> QED BY <2>1, <2>2
<1> QED BY <1>5

LEMMA SetInduction ==
    ASSUME NEW T, 0 \in T, \A n \in Nat : n \in T => n + 1 \in T
    PROVE  Nat \subseteq T
<1>1. CASE \E n \in Nat : n \notin T
  <2>1. PICK x \in Nat \ T : \A y \in Nat \ T : x <= y BY <1>1, LeastNat
  <2>2. x # 0 OBVIOUS
  <2>3. x - 1 \in Nat /\ x - 1 \in T BY <2>1, <2>2
  <2>4. x \in T BY <2>3
  <2> QED BY <2>4
<1> QED BY <1>1

-----------------------------------------------------------------------------
(* The conditions that parseWhere keeps: its recursion has a solution, and *)
(* one more condition comes last in it or not at all.                      *)
WhereArg == [con : {"and", "or"}, cond : Conds]
Keep(ws, i, kept) == IF i = 0 THEN << >>
                     ELSE IF ws[i].cond.n \in 1..3 THEN Append(kept, ws[i]) ELSE kept
Keeps(kept, ws, m) == kept = [i \in 0 .. m |-> Keep(ws, i, kept[i - 1])]

LEMMA KeepExists == ASSUME NEW ws, NEW m \in Nat PROVE \E kept : Keeps(kept, ws, m)
<1> DEFINE T == {l \in Nat : \E kept : Keeps(kept, ws, l)}
<1>1. 0 \in T
  <2>1. PICK kept : kept = [n \in 0 .. 0 |-> << >>] OBVIOUS
  <2>2. \A n \in 0 .. 0 : Keep(ws, n, kept[n - 1]) = << >> BY DEF Keep
  <2>3. Keeps(kept, ws, 0) BY <2>1, <2>2 DEF Keeps
  <2> QED BY <2>3
<1>2. ASSUME NEW l \in Nat, l \in T PROVE l + 1 \in T
  <2>1. PICK f : Keeps(f, ws, l) BY <1>2
  <2>2. PICK g : g = [n \in 0 .. l + 1 |-> Keep(ws, n, IF n - 1 \in 0 .. l THEN f[n - 1] ELSE 0)]
    OBVIOUS
  <2>3. \A n \in 0 .. l : n - 1 \in 0 .. l \/ n = 0 OBVIOUS
  <2>4. \A r, q : Keep(ws, 0, r) = Keep(ws, 0, q) BY DEF Keep
  <2>5. ASSUME NEW n \in 0 .. l PROVE g[n] = f[n]
    <3>1. f[n] = Keep(ws, n, f[n - 1]) BY <2>1 DEF Keeps
    <3>2. g[n] = Keep(ws, n, IF n - 1 \in 0 .. l THEN f[n - 1] ELSE 0) BY <2>2
    <3> QED BY <2>3, <2>4, <3>1, <3>2
  <2>6. ASSUME NEW n \in 0 .. l + 1 PROVE g[n] = Keep(ws, n, g[n - 1])
    <3>1. g[n] = Keep(ws, n, IF n - 1 \in 0 .. l THEN f[n - 1] ELSE 0) BY <2>2
    <3>2. CASE n = 0 BY <2>4, <3>1, <3>2
    <3>3. CASE n # 0
      <4>1. n - 1 \in 0 .. l BY <3>3
      <4>2. g[n - 1] = f[n - 1] BY <2>5, <4>1
      <4> QED BY <3>1, <4>1, <4>2
    <3> QED BY <3>2, <3>3
  <2>7. Keeps(g, ws, l + 1) BY <2>2, <2>6 DEF Keeps
  <2> QED BY <2>7
<1>3. Nat \subseteq T
  <2> HIDE DEF T
  <2> QED BY <1>1, <1>2, SetInduction
<1> QED BY <1>3

LEMMA KeptSolves ==
    ASSUME NEW ws, Len(ws) \in Nat
    PROVE  \E kept : Keeps(kept, ws, Len(ws)) /\ Kept(ws) = kept[Len(ws)]
<1> DEFINE kept == CHOOSE f : Keeps(f, ws, Len(ws))
<1>1. Kept(ws) = kept[Len(ws)] BY DEF Kept, Keeps, Keep
<1>2. Keeps(kept, ws, Len(ws))
  <2>1. \E f : Keeps(f, ws, Len(ws)) BY KeepExists
  <2> QED BY <2>1, Zenon
<1> QED BY <1>1, <1>2

LEMMA KeptIsSeq == ASSUME NEW ws \in Seq(WhereArg) PROVE Kept(ws) \in Seq(WhereArg)
<1>0. Len(ws) \in Nat OBVIOUS
<1>1. PICK kept : Keeps(kept, ws, Len(ws)) /\ Kept(ws) = kept[Len(ws)] BY <1>0, KeptSolves
<1> DEFINE T == {m \in Nat : m <= Len(ws) => kept[m] \in Seq(WhereArg)}
<1>2. 0 \in T
  <2>1. PICK nil : nil = << >> OBVIOUS
  <2>2. kept[0] = Keep(ws, 0, kept[0 - 1]) BY <1>0, <1>1 DEF Keeps
  <2>3. kept[0] = nil BY <2>1, <2>2 DEF Keep
  <2>4. nil \in Seq(WhereArg) BY <2>1
  <2> QED BY <2>3, <2>4
<1>3. ASSUME NEW m \in Nat, m \in T PROVE m + 1 \in T
  <2> SUFFICES ASSUME m + 1 <= Len(ws) PROVE kept[m + 1] \in Seq(WhereArg) OBVIOUS
  <2>1. PICK q : q = kept[m] OBVIOUS
  <2>2. q \in Seq(WhereArg) BY <1>0, <1>3, <2>1
  <2>3. m + 1 \in 0 .. Len(ws) /\ m + 1 # 0 /\ (m + 1) - 1 = m BY <1>0
  <2>4. kept[m + 1] = Keep(ws, m + 1, q) BY <1>1, <2>1, <2>3 DEF Keeps
  <2>5. ws[m + 1] \in WhereArg BY <1>0, <2>3
  <2>6. PICK w \in WhereArg : w = ws[m + 1] BY <2>5
  <2>7. Append(q, w) \in Seq(WhereArg) BY <2>2, AppendProperties
  <2>8. kept[m + 1] = Append(q, w) \/ kept[m + 1] = q BY <2>3, <2>4, <2>6 DEF Keep
  <2> QED BY <2>2, <2>7, <2>8
<1>4. Nat \subseteq T
  <2> HIDE DEF T
  <2> QED BY <1>2, <1>3, SetInduction
<1> QED BY <1>0, <1>1, <1>4

LEMMA KeptAppend ==
    ASSUME NEW ws \in Seq(WhereArg), NEW w \in WhereArg
    PROVE  Kept(Append(ws, w)) = IF w.cond.n \in 1..3 THEN Append(Kept(ws), w) ELSE Kept(ws)
<1>1. PICK vs, n : vs = Append(ws, w) /\ n = Len(ws) OBVIOUS
<1>2. /\ n \in Nat /\ vs \in Seq(WhereArg) /\ Len(vs) = n + 1 /\ vs[n + 1] = w
      /\ \A i \in 1 .. n : vs[i] = ws[i]
  BY <1>1, AppendProperties
<1>3. PICK f : Keeps(f, ws, n) /\ Kept(ws) = f[n] BY <1>1, <1>2, KeptSolves
<1>4. PICK g : Keeps(g, vs, n + 1) /\ Kept(vs) = g[n + 1] BY <1>2, KeptSolves
<1> DEFINE T == {m \in Nat : m <= n => g[m] = f[m]}
<1>5. 0 \in T
  <2>1. 0 \in 0 .. n /\ 0 \in 0 .. n + 1 BY <1>2
  <2>2. f[0] = Keep(ws, 0, f[0 - 1]) BY <1>3, <2>1 DEF Keeps
  <2>3. g[0] = Keep(vs, 0, g[0 - 1]) BY <1>4, <2>1 DEF Keeps
  <2> QED BY <2>2, <2>3 DEF Keep
<1>6. ASSUME NEW m \in Nat, m \in T PROVE m + 1 \in T
  <2> SUFFICES ASSUME m + 1 <= n PROVE g[m + 1] = f[m + 1] OBVIOUS
  <2>1. PICK q : q = f[m] /\ q = g[m] BY <1>2, <1>6
  <2>2. m + 1 \in 0 .. n /\ m + 1 \in 0 .. n + 1 /\ m + 1 # 0 /\ (m + 1) - 1 = m /\ m + 1 \in 1 .. n
    BY <1>2
  <2>3. f[m + 1] = Keep(ws, m + 1, q) BY <1>3, <2>1, <2>2 DEF Keeps
  <2>4. g[m + 1] = Keep(vs, m + 1, q) BY <1>4, <2>1, <2>2 DEF Keeps
  <2>5. vs[m + 1] = ws[m + 1] BY <1>2, <2>2
  <2> QED BY <2>3, <2>4, <2>5 DEF Keep
<1>7. Nat \subseteq T
  <2> HIDE DEF T
  <2> QED BY <1>5, <1>6, SetInduction
<1>8. g[n] = f[n] BY <1>2, <1>7
<1>9. g[n + 1] = Keep(vs, n + 1, f[n])
  <2>1. n + 1 \in 0 .. n + 1 /\ (n + 1) - 1 = n BY <1>2
  <2>2. g[n + 1] = Keep(vs, n + 1, g[(n + 1) - 1]) BY <1>4, <2>1 DEF Keeps
  <2> QED BY <1>8, <2>1, <2>2
<1>10. n + 1 # 0 BY <1>2
<1> QED BY <1>1, <1>2, <1>3, <1>4, <1>9, <1>10 DEF Keep

(* The rows hit by one condition more.                                     *)
Begins(p, i) == p[i].con \in {"", "or"}
Holds(p, n, i, r) == \A j \in i .. n : r \in p[j].rows \/ \E k \in i + 1 .. j : p[k].con = "or"

LEMMA HitByHolds ==
    ASSUME NEW p, p # << >>, NEW n, DOMAIN p = 1 .. n, Len(p) = n
    PROVE  HitBy(p) = {r \in Rows : \E i \in 1 .. n : Begins(p, i) /\ Holds(p, n, i, r)}
  BY DEF HitBy, Begins, Holds

LEMMA HoldsShorter ==
    ASSUME NEW n \in Nat, NEW p, NEW q, \A j \in 1 .. n : q[j] = p[j], NEW i \in 1 .. n, NEW r,
           Holds(q, n + 1, i, r)
    PROVE  Holds(p, n, i, r)
<1>1. SUFFICES ASSUME NEW j \in i .. n
               PROVE  r \in p[j].rows \/ \E k \in i + 1 .. j : p[k].con = "or"
  BY DEF Holds
<1>2. j \in i .. n + 1 /\ j \in 1 .. n OBVIOUS
<1>3. \A k \in i + 1 .. j : k \in 1 .. n BY <1>2
<1> QED BY <1>2, <1>3 DEF Holds

LEMMA HoldsLonger ==
    ASSUME NEW n \in Nat, NEW p, NEW q, \A j \in 1 .. n : q[j] = p[j], NEW i \in 1 .. n, NEW r,
           Holds(p, n, i, r), q[n + 1].con = "or"
    PROVE  Holds(q, n + 1, i, r)
<1>1. SUFFICES ASSUME NEW j \in i .. n + 1
               PROVE  r \in q[j].rows \/ \E k \in i + 1 .. j : q[k].con = "or"
  BY DEF Holds
<1>2. CASE j = n + 1
  <2>1. n + 1 \in i + 1 .. j BY <1>2
  <2> QED BY <2>1
<1>3. CASE j # n + 1
  <2>1. j \in i .. n /\ j \in 1 .. n BY <1>3
  <2>2. \A k \in i + 1 .. j : k \in 1 .. n BY <2>1
  <2> QED BY <2>1, <2>2 DEF Holds
<1> QED BY <1>2, <1>3

LEMMA HitByOneMore ==
    ASSUME NEW p, p # << >>, NEW n \in Nat, DOMAIN p = 1 .. n, Len(p) = n,
           NEW q, q # << >>, DOMAIN q = 1 .. n + 1, Len(q) = n + 1,
           \A i \in 1 .. n : q[i] = p[i]
    PROVE  /\ q[n + 1].con = "and" => HitBy(q) \subseteq HitBy(p)
           /\ q[n + 1].con = "or" => HitBy(p) \subseteq HitBy(q)
<1>1. \A i \in 1 .. n + 1 : i \in 1 .. n \/ i = n + 1 OBVIOUS
<1>2. 1 .. n \subseteq 1 .. n + 1 OBVIOUS
<1>3. \A i \in 1 .. n : Begins(q, i) <=> Begins(p, i) BY DEF Begins
<1>4. HitBy(p) = {r \in Rows : \E i \in 1 .. n : Begins(p, i) /\ Holds(p, n, i, r)}
  BY HitByHolds
<1>5. HitBy(q) = {r \in Rows : \E i \in 1 .. n + 1 : Begins(q, i) /\ Holds(q, n + 1, i, r)}
  BY HitByHolds
<1>6. \A r : \A i \in 1 .. n : Holds(q, n + 1, i, r) => Holds(p, n, i, r) BY HoldsShorter
<1>7. q[n + 1].con = "or" => \A r : \A i \in 1 .. n : Holds(p, n, i, r) => Holds(q, n + 1, i, r)
  BY HoldsLonger
<1>8. q[n + 1].con = "and" => ~Begins(q, n + 1) BY DEF Begins
<1> QED BY <1>1, <1>2, <1>3, <1>4, <1>5, <1>6, <1>7, <1>8, Zenon

Parsed(kept) == [i \in DOMAIN kept |-> [con |-> IF i = 1 THEN "" ELSE kept[i].con,
                                        rows |-> kept[i].cond.rows]]

LEMMA ParsedAppend ==
    ASSUME NEW ks \in Seq(WhereArg), NEW w \in WhereArg, NEW p, p = Parsed(ks),
           NEW q, q = Parsed(Append(ks, w))
    PROVE  \/ HitBy(q) \subseteq HitBy(p) /\ (w.con = "and" \/ p = << >>)
           \/ HitBy(p) \subseteq HitBy(q) /\ w.con = "or"
<1>1. PICK ls, n : ls = Append(ks, w) /\ n = Len(ks) OBVIOUS
<1>2. /\ n \in Nat /\ ls \in Seq(WhereArg) /\ DOMAIN ks = 1 .. n /\ DOMAIN ls = 1 .. n + 1
      /\ ls[n + 1] = w /\ \A i \in 1 .. n : ls[i] = ks[i]
  BY <1>1, AppendProperties
<1>3. DOMAIN p = 1 .. n /\ DOMAIN q = 1 .. n + 1 BY <1>1, <1>2 DEF Parsed
<1>4. \A i \in 1 .. n : i \in 1 .. n + 1 BY <1>2
<1>5. \A i \in 1 .. n : q[i] = p[i] BY <1>1, <1>2, <1>4 DEF Parsed
<1>6. w.con \in {"and", "or"} BY DEF WhereArg
<1>7. CASE n = 0
  <2>1. p = << >> BY <1>3, <1>7
  <2>2. HitBy(p) = Rows /\ HitBy(q) \subseteq Rows BY <2>1 DEF HitBy
  <2> QED BY <2>1, <2>2
<1>8. CASE n # 0
  <2>1. q[n + 1].con = w.con
    <3>1. n + 1 \in 1 .. n + 1 /\ n + 1 # 1 BY <1>2, <1>8
    <3> QED BY <1>1, <1>2, <3>1 DEF Parsed
  <2>2. Len(p) = n /\ p # << >>
    <3>1. p \in [1 .. n -> {p[i] : i \in 1 .. n}] BY <1>3 DEF Parsed
    <3>2. Len(p) = n BY <1>2, <3>1
    <3>3. 1 \in DOMAIN p BY <1>2, <1>3, <1>8
    <3> QED BY <3>2, <3>3
  <2>3. Len(q) = n + 1 /\ q # << >>
    <3>1. q \in [1 .. n + 1 -> {q[i] : i \in 1 .. n + 1}] BY <1>3 DEF Parsed
    <3>2. Len(q) = n + 1 BY <1>2, <3>1
    <3>3. 1 \in DOMAIN q BY <1>2, <1>3
    <3> QED BY <3>2, <3>3
  <2>4. /\ w.con = "and" => HitBy(q) \subseteq HitBy(p)
        /\ w.con = "or" => HitBy(p) \subseteq HitBy(q)
    BY <1>2, <1>3, <1>5, <1>8, <2>1, <2>2, <2>3, HitByOneMore
  <2> QED BY <1>6, <2>4
<1> QED BY <1>7, <1>8

LEMMA OneMoreNarrows ==
    ASSUME NEW d, NEW e, d.where \in Seq(WhereArg), NEW w \in WhereArg, e.where = Append(d.where, w)
    PROVE  LET before == ParseWhere(d)
               after == ParseWhere(e)
           IN \/ HitBy(after) \subseteq HitBy(before) /\ (w.con = "and" \/ before = << >>)
              \/ HitBy(before) \subseteq HitBy(after) /\ w.con = "or"
<1>1. PICK ws \in Seq(WhereArg) : ws = d.where OBVIOUS
<1>2. PICK ks : ks = Kept(ws) OBVIOUS
<1>3. ks \in Seq(WhereArg) BY <1>2, KeptIsSeq
<1>4. PICK p : p = Parsed(ks) OBVIOUS
<1>5. ParseWhere(d) = p BY <1>1, <1>2, <1>4 DEF ParseWhere, Parsed
<1>6. w.con \in {"and", "or"} BY DEF WhereArg
<1>7. CASE w.cond.n \in 1..3
  <2>1. PICK q : q = Parsed(Append(ks, w)) OBVIOUS
  <2>2. Kept(e.where) = Append(ks, w) BY <1>1, <1>2, <1>7, KeptAppend
  <2>3. ParseWhere(e) = q BY <2>1, <2>2 DEF ParseWhere, Parsed
  <2> QED BY <1>3, <1>4, <1>5, <2>1, <2>3, ParsedAppend
<1>8. CASE w.cond.n \notin 1..3
  <2>1. Kept(e.where) = ks BY <1>1, <1>2, <1>8, KeptAppend
  <2>2. ParseWhere(e) = p BY <1>4, <2>1 DEF ParseWhere, Parsed
  <2> QED BY <1>5, <1>6, <2>2
<1> QED BY <1>7, <1>8

-----------------------------------------------------------------------------
(* What a call does to the conditions, and whether it builds a batch.      *)
WhereGrows == \E w \in WhereArg : dba'.where = Append(dba.where, w)
WhereStays == dba'.where = dba.where \/ dba'.where = << >>
NoBatch == stmt' = stmt \/ stmt'.used.op # "batch"

LEMMA OtherField ==
    ASSUME NEW d, Shaped(d), NEW f, f # "where", NEW v PROVE [d EXCEPT ![f] = v].where = d.where
<1>1. "where" \in DOMAIN d BY DEF Shaped, NewSqler
<1> QED BY <1>1

LEMMA CollectEffect ==
    ASSUME SqlerInv,
           \/ \E t \in Texts : Table(t) \/ Group(t) \/ Having(t) \/ Order(t)
           \/ \E n \in Nums : Limit(n) \/ Offset(n) \/ Page(n)
           \/ \E type \in {"INNER", "LEFT", "RIGHT"}, n \in JoinArgs : Join(type, n)
           \/ Distinct \/ Ignore
    PROVE  WhereStays /\ NoBatch
<1> DEFINE Sets(f, v) == dba' = [dba EXCEPT ![f] = v] /\ stmt' = stmt
<1>1. PICK f \in {"table", "group", "having", "order", "limit", "offset", "join", "distinct",
                 "ignore"} : \E v : Sets(f, v)
  <2>1. ASSUME NEW t \in Texts, Table(t) PROVE  Sets("table", t)
    BY <2>1 DEF Table, Collect
  <2>2. ASSUME NEW t \in Texts, Group(t) PROVE  Sets("group", t)
    BY <2>2 DEF Group, Collect
  <2>3. ASSUME NEW t \in Texts, Having(t) PROVE  Sets("having", t)
    BY <2>3 DEF Having, Collect
  <2>4. ASSUME NEW t \in Texts, Order(t) PROVE  Sets("order", t)
    BY <2>4 DEF Order, Collect
  <2>5. ASSUME NEW n \in Nums, Limit(n) PROVE  Sets("limit", n)
    BY <2>5 DEF Limit, Collect
  <2>6. ASSUME NEW n \in Nums, Offset(n) PROVE  Sets("offset", n)
    BY <2>6 DEF Offset, Collect
  <2>7. ASSUME NEW n \in Nums, Page(n) PROVE  Sets("offset", (n - 1) * dba.limit)
    BY <2>7 DEF Page, Collect
  <2>8. ASSUME NEW type \in {"INNER", "LEFT", "RIGHT"}, NEW n \in JoinArgs, Join(type, n)
      PROVE  \E v : Sets("join", v)
    BY <2>8 DEF Join, Collect
  <2>9. ASSUME Distinct PROVE Sets("distinct", TRUE) BY <2>9 DEF Distinct, Collect
  <2>10. ASSUME Ignore PROVE Sets("ignore", TRUE) BY <2>10 DEF Ignore, Collect
  <2> HIDE DEF Sets
  <2> QED BY <2>1, <2>2, <2>3, <2>4, <2>5, <2>6, <2>7, <2>8, <2>9, <2>10
<1>2. PICK v : Sets(f, v) BY <1>1
<1>3. f # "where" BY <1>1
<1> QED BY <1>2, <1>3, UsedShaped, OtherField DEF WhereStays, NoBatch

LEMMA WhereEffect ==
    ASSUME SqlerInv, NEW con \in {"and", "or"}, NEW c \in Conds, Where(con, c)
    PROVE  WhereGrows /\ NoBatch
<1>1. PICK w : w = [con |-> con, cond |-> c] OBVIOUS
<1>2. w \in WhereArg BY <1>1 DEF WhereArg
<1>3. "where" \in DOMAIN dba BY UsedShaped DEF Shaped, NewSqler
<1>4. dba' = [dba EXCEPT !.where = Append(@, w)] /\ stmt' = stmt BY <1>1 DEF Where, Collect
<1> QED BY <1>2, <1>3, <1>4 DEF WhereGrows, NoBatch

LEMMA QueryOp == \A d : BuildQuery(d).op # "batch"
  BY DEF BuildQuery, NoStmt
LEMMA DeleteOp == \A d : DeleteStmt(d).op # "batch"
  BY DEF DeleteStmt, NoStmt
LEMMA ExecutOp ==
    ASSUME NEW d, d.optype \in {"insert", "update"} PROVE BuildExecut(d).op # "batch"
  BY Zenon DEF BuildExecut, NoStmt
LEMMA GivenFields ==
    ASSUME NEW d, Shaped(d), NEW optype, NEW data
    PROVE  Given(d, optype, data).where = d.where /\ Given(d, optype, data).optype = optype
<1>1. DOMAIN d = Fields BY ShapedFields
<1>2. "where" \in Fields /\ "optype" \in Fields BY DEF Fields
<1>3. PICK c : c = [d EXCEPT !.data = data] OBVIOUS
<1>4. DOMAIN c = Fields /\ c.where = d.where BY <1>1, <1>2, <1>3
<1>5. Given(d, optype, data) = [c EXCEPT !.optype = optype] BY <1>3 DEF Given
<1> QED BY <1>2, <1>4, <1>5

LEMMA BuildEffect ==
    ASSUME SqlerInv,
           \/ \E t : Select(t)
           \/ \E t \in Texts : \/ \E u \in {"count", "sum", "avg", "max", "min"} : Aggregate(u, t)
                               \/ \E n, m \in Nums : SelectCount("*", t, n, m)
           \/ Delete \/ Execut
           \/ \E data \in Datas : Insert(data)
    PROVE  WhereStays /\ NoBatch
<1>0. Shaped(dba) /\ "where" \in DOMAIN dba BY UsedShaped DEF Shaped, NewSqler
<1>1. ASSUME NEW t, Select(t) PROVE WhereStays /\ NoBatch
  <2>1. PICK d : dba' = d /\ (d = dba \/ d = [dba EXCEPT !.fields = t]) /\ stmt'.used = BuildQuery(d)
    BY <1>1 DEF Select, BuildFrom
  <2>2. dba'.where = dba.where BY <1>0, <2>1
  <2>3. stmt'.used.op # "batch" BY <2>1, QueryOp
  <2> QED BY <2>2, <2>3 DEF WhereStays, NoBatch
<1>2. ASSUME NEW t \in Texts, NEW u \in {"count", "sum", "avg", "max", "min"}, Aggregate(u, t)
      PROVE  WhereStays /\ NoBatch
  <2>1. /\ \/ dba' = [dba EXCEPT !.count = t]
           \/ dba' = [dba EXCEPT !.sum = t]
           \/ dba' = [dba EXCEPT !.avg = t]
           \/ dba' = [dba EXCEPT !.max = t]
           \/ dba' = [dba EXCEPT !.min = t]
        /\ \E d : stmt'.used = BuildQuery(d)
    BY <1>2 DEF Aggregate, BuildFrom
  <2>2. dba'.where = dba.where BY <1>0, <2>1
  <2>3. stmt'.used.op # "batch" BY <2>1, QueryOp
  <2> QED BY <2>2, <2>3 DEF WhereStays, NoBatch
<1>3. ASSUME NEW t \in Texts, NEW n \in Nums, NEW m \in Nums, SelectCount("*", t, n, m)
      PROVE  WhereStays /\ NoBatch
  <2>1. PICK c, d : c = [dba EXCEPT !.offset = n] /\ d = [c EXCEPT !.limit = m] OBVIOUS
  <2>2. dba' = [d EXCEPT !.fields = "*"] /\ stmt'.used.op = "pageAndTotal"
    BY <1>3, <2>1 DEF SelectCount
  <2>3. c.where = dba.where /\ d.where = dba.where /\ dba'.where = dba.where
    BY <1>0, <2>1, <2>2
  <2> QED BY <2>2, <2>3 DEF WhereStays, NoBatch
<1>4. ASSUME Delete PROVE WhereStays /\ NoBatch
  <2>1. PICK d : dba' = d /\ d = [dba EXCEPT !.optype = "delete"] /\ stmt'.used = DeleteStmt(d)
    BY <1>4 DEF Delete, BuildFrom
  <2>2. dba'.where = dba.where BY <1>0, <2>1
  <2> QED BY <2>1, <2>2, DeleteOp DEF WhereStays, NoBatch
<1>5. ASSUME NEW data \in Datas, Insert(data) PROVE WhereStays /\ NoBatch
  <2>1. PICK d : dba' = d /\ d = Given(dba, "insert", data) /\ stmt'.used = BuildExecut(d)
    BY <1>5 DEF Insert, BuildFrom
  <2>2. dba'.where = dba.where /\ d.optype = "insert" BY <1>0, <2>1, GivenFields
  <2>3. stmt'.used.op # "batch" BY <2>1, <2>2, ExecutOp
  <2> QED BY <2>2, <2>3 DEF WhereStays, NoBatch
<1>6. ASSUME Execut PROVE WhereStays /\ NoBatch
  <2>1. dba' = dba /\ stmt'.used.op = "direct" BY <1>6 DEF Execut, Same, BuildFrom
  <2> QED BY <2>1 DEF WhereStays, NoBatch
<1> QED BY <1>1, <1>2, <1>3, <1>4, <1>5, <1>6

LEMMA CountersEffect ==
    ASSUME SqlerInv, NEW inc \in IncArgs,
           \/ \E data \in Datas : \/ Update(data, inc)
                                  \/ \E dup \in IncArgs : InsertDuplicate(data, dup, inc)
           \/ \E b \in Batches : UpdateBatch(b, inc)
    PROVE  WhereStays /\ (NoBatch \/ stmt'.used.batch \in Batches)
<1>1. PICK c : c = WithInc(dba, inc) OBVIOUS
<1>2. Shaped(c) /\ c.where = dba.where
  BY <1>1, UsedShaped, ShapedExcept, OtherField DEF WithInc
<1>3. ASSUME NEW data \in Datas, Update(data, inc) PROVE WhereStays /\ NoBatch
  <2>1. PICK d : dba' = d /\ d = Given(c, "update", data) /\ stmt'.used = BuildExecut(d)
    BY <1>1, <1>3 DEF Update, BuildFrom
  <2>2. dba'.where = dba.where /\ d.optype = "update" BY <1>2, <2>1, GivenFields
  <2> QED BY <2>1, <2>2, ExecutOp DEF WhereStays, NoBatch
<1>4. ASSUME NEW data \in Datas, NEW dup \in IncArgs, InsertDuplicate(data, dup, inc)
      PROVE  WhereStays /\ NoBatch
  <2>1. dba' = Given(dba, "insert", data) /\ stmt'.used.op = "duplicate"
    BY <1>4 DEF InsertDuplicate, BuildFrom
  <2> QED BY <2>1, UsedShaped, GivenFields DEF WhereStays, NoBatch
<1>5. ASSUME NEW b \in Batches, UpdateBatch(b, inc)
      PROVE  WhereStays /\ stmt'.used.batch \in Batches
  <2>1. dba' = c /\ stmt'.used.batch = b BY <1>1, <1>5 DEF UpdateBatch, BuildFrom
  <2> QED BY <1>2, <2>1 DEF WhereStays
<1> QED BY <1>3, <1>4, <1>5

LEMMA ResetEffect == ASSUME SqlerInv, Reset PROVE WhereStays /\ NoBatch
<1>1. dba' = [ResetOf(dba) EXCEPT !.optype = dba.optype] /\ stmt' = stmt
  BY UsedShaped, ResetFields DEF Reset
<1>2. ResetOf(dba).where = << >> /\ "where" \in DOMAIN ResetOf(dba) BY DEF ResetOf, NewSqler
<1> QED BY <1>1, <1>2 DEF WhereStays, NoBatch

LEMMA CallEffect ==
    ASSUME SqlerInv, SqlerNext
    PROVE  (WhereStays \/ WhereGrows) /\ (NoBatch \/ stmt'.used.batch \in Batches)
  BY CollectEffect, WhereEffect, BuildEffect, CountersEffect, ResetEffect DEF SqlerNext

PartsInv == /\ dba.where \in Seq(WhereArg)
            /\ stmt.used.op = "batch" => stmt.used.batch \in Batches

(* The parts a Sqler has collected are what it was given.                  *)
THEOREM PartsInvariant == SqlerSpec => []PartsInv
<1>1. ASSUME SqlerInit PROVE PartsInv
  <2>1. PICK nil : nil = << >> OBVIOUS
  <2>2. nil \in Seq(WhereArg) BY <2>1
  <2>3. dba.where = nil BY <1>1, <2>1 DEF SqlerInit, NewSqler
  <2>4. stmt.used.op = "none" BY <1>1 DEF SqlerInit, NoStmt
  <2> QED BY <2>2, <2>3, <2>4 DEF PartsInv
<1>2. ASSUME SqlerInv, PartsInv, [SqlerNext]_sqlerVars PROVE PartsInv'
  <2>1. CASE SqlerNext
    <3>1. \/ dba'.where = dba.where \/ dba'.where = << >>
          \/ \E w \in WhereArg : dba'.where = Append(dba.where, w)
      BY <1>2, <2>1, CallEffect DEF WhereStays, WhereGrows
    <3>2. dba'.where \in Seq(WhereArg)
      <4>1. PICK nil : nil = << >> OBVIOUS
      <4>2. nil \in Seq(WhereArg) BY <4>1
      <4>3. \A w \in WhereArg : Append(dba.where, w) \in Seq(WhereArg)
        BY <1>2, AppendProperties DEF PartsInv
      <4> QED BY <1>2, <3>1, <4>1, <4>2, <4>3 DEF PartsInv
    <3>3. stmt' = stmt \/ stmt'.used.op # "batch" \/ stmt'.used.batch \in Batches
      BY <1>2, <2>1, CallEffect DEF NoBatch
    <3> QED BY <1>2, <3>2, <3>3 DEF PartsInv
  <2>2. CASE UNCHANGED sqlerVars BY <1>2, <2>2 DEF PartsInv, sqlerVars
  <2> QED BY <1>2, <2>1, <2>2
<1> QED BY <1>1, <1>2, SqlerInvariant, PTL DEF SqlerSpec

(* A Where never lets more rows through and an OrWhere never fewer,        *)
(* whatever was collected before and whatever conditions are dropped       *)
(* (sqler.go:141,153,456).                                                 *)
THEOREM WhereOnlyNarrows == SqlerSpec => WhereNarrows
<1> DEFINE Narrows == (Len(dba'.where) > Len(dba.where) /\ ~WhereWrong(dba'))
                        => LET before == ParseWhere(dba)
                               after == ParseWhere(dba')
                               last == dba'.where[Len(dba'.where)].con
                           IN \/ HitBy(after) \subseteq HitBy(before) /\ (last = "and" \/ before = << >>)
                              \/ HitBy(before) \subseteq HitBy(after) /\ last = "or"
<1>1. ASSUME SqlerInv, PartsInv, [SqlerNext]_sqlerVars PROVE [Narrows]_sqlerVars
  <2>1. CASE WhereStays
    <3>1. PICK ws \in Seq(WhereArg) : ws = dba.where BY <1>1 DEF PartsInv
    <3>2. PICK n \in Nat : n = Len(ws) BY <3>1
    <3>3. PICK vs : vs = dba'.where OBVIOUS
    <3>4. vs = ws \/ vs = << >> BY <2>1, <3>1, <3>3 DEF WhereStays
    <3>5. PICK nil : nil = << >> OBVIOUS
    <3>6. Len(nil) = 0 BY <3>5
    <3>7. ~(Len(vs) > n) BY <3>2, <3>4, <3>5, <3>6
    <3> QED BY <3>1, <3>2, <3>3, <3>7
  <2>2. CASE WhereGrows
    <3>1. PICK w \in WhereArg : dba'.where = Append(dba.where, w) BY <2>2 DEF WhereGrows
    <3>2. PICK ws \in Seq(WhereArg) : ws = dba.where BY <1>1 DEF PartsInv
    <3>3. PICK vs : vs = dba'.where OBVIOUS
    <3>4. vs[Len(vs)] = w BY <3>1, <3>2, <3>3, AppendProperties
    <3>5. dba'.where[Len(dba'.where)] = w BY <3>3, <3>4
    <3>6. PICK e : e = dba' OBVIOUS
    <3>7. LET before == ParseWhere(dba)
              after == ParseWhere(e)
          IN \/ HitBy(after) \subseteq HitBy(before) /\ (w.con = "and" \/ before = << >>)
             \/ HitBy(before) \subseteq HitBy(after) /\ w.con = "or"
      BY <1>1, <3>1, <3>6, OneMoreNarrows DEF PartsInv
    <3> QED BY <3>5, <3>6, <3>7
  <2>3. CASE UNCHANGED sqlerVars BY <2>3
  <2> QED BY <1>1, <2>1, <2>2, <2>3, CallEffect
<1> QED BY <1>1, SqlerInvariant, PartsInvariant, PTL DEF SqlerSpec, WhereNarrows

-----------------------------------------------------------------------------
(* Updating item by item: its recursion has a solution, and of a regular   *)
(* batch at most one item changes a row.                                   *)
Written(b, i, inc, u) ==
    [c \in Columns |-> IF c \in KeysOf(b) \/ c \notin DOMAIN b.items[i] THEN u[c]
                       ELSE IF c \in inc THEN u[c] + b.items[i][c] ELSE b.items[i][c]]
OneItem(b, n, inc, row, u) == IF n = 0 THEN row
                              ELSE IF ~Picks(b.items[n], b, u) THEN u ELSE Written(b, n, inc, u)
Updates(upd, b, inc, row, m) == upd = [n \in 0 .. m |-> OneItem(b, n, inc, row, upd[n - 1])]

LEMMA UpdatesExist ==
    ASSUME NEW b, NEW inc, NEW row, NEW m \in Nat PROVE \E upd : Updates(upd, b, inc, row, m)
<1> DEFINE T == {l \in Nat : \E upd : Updates(upd, b, inc, row, l)}
<1>1. 0 \in T
  <2>1. PICK upd : upd = [n \in 0 .. 0 |-> row] OBVIOUS
  <2>2. \A n \in 0 .. 0 : OneItem(b, n, inc, row, upd[n - 1]) = row BY DEF OneItem
  <2>3. Updates(upd, b, inc, row, 0) BY <2>1, <2>2 DEF Updates
  <2> QED BY <2>3
<1>2. ASSUME NEW l \in Nat, l \in T PROVE l + 1 \in T
  <2>1. PICK f : Updates(f, b, inc, row, l) BY <1>2
  <2>2. PICK g : g = [n \in 0 .. l + 1 |->
                        OneItem(b, n, inc, row, IF n - 1 \in 0 .. l THEN f[n - 1] ELSE 0)]
    OBVIOUS
  <2>3. \A n \in 0 .. l : n - 1 \in 0 .. l \/ n = 0 OBVIOUS
  <2>4. \A r, q : OneItem(b, 0, inc, row, r) = OneItem(b, 0, inc, row, q) BY DEF OneItem
  <2>5. ASSUME NEW n \in 0 .. l PROVE g[n] = f[n]
    <3>1. f[n] = OneItem(b, n, inc, row, f[n - 1]) BY <2>1 DEF Updates
    <3>2. g[n] = OneItem(b, n, inc, row, IF n - 1 \in 0 .. l THEN f[n - 1] ELSE 0) BY <2>2
    <3> QED BY <2>3, <2>4, <3>1, <3>2
  <2>6. ASSUME NEW n \in 0 .. l + 1 PROVE g[n] = OneItem(b, n, inc, row, g[n - 1])
    <3>1. g[n] = OneItem(b, n, inc, row, IF n - 1 \in 0 .. l THEN f[n - 1] ELSE 0) BY <2>2
    <3>2. CASE n = 0 BY <2>4, <3>1, <3>2
    <3>3. CASE n # 0
      <4>1. n - 1 \in 0 .. l BY <3>3
      <4>2. g[n - 1] = f[n - 1] BY <2>5, <4>1
      <4> QED BY <3>1, <4>1, <4>2
    <3> QED BY <3>2, <3>3
  <2>7. Updates(g, b, inc, row, l + 1) BY <2>2, <2>6 DEF Updates
  <2> QED BY <2>7
<1>3. Nat \subseteq T
  <2> HIDE DEF T
  <2> QED BY <1>1, <1>2, SetInduction
<1> QED BY <1>3

LEMMA ItemByItemSolves ==
    ASSUME NEW s, NEW row, Len(s.batch.items) \in Nat
    PROVE  \E upd : /\ Updates(upd, s.batch, s.inc, row, Len(s.batch.items))
                    /\ ItemByItem(s, row) = upd[Len(s.batch.items)]
<1> DEFINE upd == CHOOSE f : Updates(f, s.batch, s.inc, row, Len(s.batch.items))
<1>1. ItemByItem(s, row) = upd[Len(s.batch.items)] BY DEF ItemByItem, Updates, OneItem, Written
<1>2. Updates(upd, s.batch, s.inc, row, Len(s.batch.items))
  <2>1. \E f : Updates(f, s.batch, s.inc, row, Len(s.batch.items)) BY UpdatesExist
  <2> QED BY <2>1, Zenon
<1> QED BY <1>1, <1>2

LEMMA OnePicked ==
    ASSUME NEW b, Regular(b), NEW row, NEW i \in DOMAIN b.items, NEW j \in DOMAIN b.items,
           Picks(b.items[i], b, row), Picks(b.items[j], b, row)
    PROVE  i = j
  BY DEF Regular, Picks

LEMMA KeysStay ==
    ASSUME NEW b, KeysOf(b) \subseteq Columns, NEW i, NEW inc, NEW row, NEW item
    PROVE  Picks(item, b, Written(b, i, inc, row)) <=> Picks(item, b, row)
  BY DEF Picks, Written

LEMMA WrittenAtMostOnce ==
    ASSUME NEW b, NEW m \in Nat, DOMAIN b.items = 1 .. m, Regular(b), KeysOf(b) \subseteq Columns,
           NEW inc, NEW row, NEW upd, Updates(upd, b, inc, row, m)
    PROVE  /\ (\A i \in 1 .. m : ~Picks(b.items[i], b, row)) => upd[m] = row
           /\ \A i \in 1 .. m : Picks(b.items[i], b, row) => upd[m] = Written(b, i, inc, row)
<1> DEFINE Hit(i) == Picks(b.items[i], b, row)
           So(n) == /\ (\A i \in 1 .. n : ~Hit(i)) => upd[n] = row
                    /\ \A i \in 1 .. n : Hit(i) => upd[n] = Written(b, i, inc, row)
           T == {n \in Nat : n <= m => So(n)}
<1>0. \A i, j \in 1 .. m : Hit(i) /\ Hit(j) => i = j BY OnePicked
<1>1. 0 \in T
  <2>1. upd[0] = OneItem(b, 0, inc, row, upd[0 - 1]) BY DEF Updates
  <2>2. upd[0] = row BY <2>1 DEF OneItem
  <2> QED BY <2>2
<1>2. ASSUME NEW n \in Nat, n \in T PROVE n + 1 \in T
  <2> SUFFICES ASSUME n + 1 <= m PROVE So(n + 1) OBVIOUS
  <2>1. So(n) BY <1>2
  <2>2. n + 1 \in 0 .. m /\ n + 1 # 0 /\ (n + 1) - 1 = n /\ n + 1 \in 1 .. m OBVIOUS
  <2>3. PICK u : u = upd[n] OBVIOUS
  <2>4. upd[n + 1] = OneItem(b, n + 1, inc, row, u) BY <2>2, <2>3 DEF Updates
  <2>5. upd[n + 1] = IF ~Picks(b.items[n + 1], b, u) THEN u ELSE Written(b, n + 1, inc, u)
    BY <2>2, <2>4 DEF OneItem
  <2>6. \A i \in 1 .. n : i \in 1 .. m /\ i # n + 1 /\ i \in 1 .. n + 1 OBVIOUS
  <2>7. \A i \in 1 .. n + 1 : i \in 1 .. n \/ i = n + 1 OBVIOUS
  <2>8. CASE \E i \in 1 .. n : Hit(i)
    <3>1. PICK i \in 1 .. n : Hit(i) BY <2>8
    <3>2. u = Written(b, i, inc, row) BY <2>1, <2>3, <3>1
    <3>3. \A j \in 1 .. n + 1 : Hit(j) => j = i BY <1>0, <2>2, <2>6, <2>7, <3>1
    <3>4. ~Hit(n + 1) BY <1>0, <2>2, <2>6, <3>1
    <3>5. ~Picks(b.items[n + 1], b, u) BY <3>2, <3>4, KeysStay
    <3>6. upd[n + 1] = Written(b, i, inc, row) BY <2>5, <3>2, <3>5
    <3>7. i \in 1 .. n + 1 /\ Hit(i) BY <2>6, <3>1
    <3> HIDE DEF Hit
    <3> QED BY <3>3, <3>6, <3>7
  <2>9. CASE \A i \in 1 .. n : ~Hit(i)
    <3>1. u = row BY <2>1, <2>3, <2>9
    <3>2. upd[n + 1] = IF ~Hit(n + 1) THEN row ELSE Written(b, n + 1, inc, row) BY <2>5, <3>1
    <3>3. \A i \in 1 .. n + 1 : Hit(i) => i = n + 1 BY <2>7, <2>9
    <3>4. n + 1 \in 1 .. n + 1 BY <2>2
    <3> HIDE DEF Hit
    <3> QED BY <3>2, <3>3, <3>4
  <2> HIDE DEF Hit, So
  <2> QED BY <2>8, <2>9
<1>3. Nat \subseteq T
  <2> HIDE DEF T
  <2> QED BY <1>1, <1>2, SetInduction
<1>4. So(m) BY <1>3
<1> QED BY <1>4

(* The one statement does to a row what its item does, and nothing where   *)
(* no item has its first key.                                              *)
LEMMA CaseOfHit ==
    ASSUME NEW b, NEW m \in Nat, DOMAIN b.items = 1 .. m, Regular(b), NEW row,
           NEW i \in 1 .. m, Picks(b.items[i], b, row), NEW c \in DOMAIN b.items[i]
    PROVE  Case(b, c, row) = b.items[i][c]
<1>1. PICK hits : hits = {j \in DOMAIN b.items : c \in DOMAIN b.items[j] /\ Picks(b.items[j], b, row)}
  OBVIOUS
<1>2. hits = {i} BY <1>1, OnePicked
<1>3. \A x \in {i} : x <= x OBVIOUS
<1>4. (CHOOSE j \in hits : \A l \in hits : j =< l) = i BY <1>2, <1>3
<1>5. Case(b, c, row) = FirstOf(b, hits, c) BY <1>1 DEF Case
<1> QED BY <1>2, <1>4, <1>5 DEF FirstOf

LEMMA BatchHits ==
    ASSUME NEW b \in Batches, NEW m \in Nat, DOMAIN b.items = 1 .. m, Regular(b),
           NEW row, NEW i \in 1 .. m, Picks(b.items[i], b, row), NEW s, s.batch = b
    PROVE  AfterUpdate(s, row) = Written(b, i, s.inc, row)
<1> DEFINE cased == (UNION {DOMAIN b.items[j] : j \in DOMAIN b.items}) \ KeysOf(b)
<1>1. \A j \in 1 .. m : DOMAIN b.items[j] = DOMAIN b.items[i] BY DEF Regular
<1>2. cased = DOMAIN b.items[i] \ KeysOf(b) BY <1>1
<1>3. Listed(b, row)
  <2>1. b.keys \in Seq(Columns) \ {<< >>} BY SqlerAssumption
  <2>2. b.keys[1] \in KeysOf(b) BY <2>1 DEF KeysOf
  <2> QED BY <2>2 DEF Listed, Picks
<1>4. b.items[i] \in Items
  <2>1. b.items \in Seq(Items) BY SqlerAssumption
  <2> QED BY <2>1
<1>5. \A c \in DOMAIN b.items[i] : b.items[i][c] # Null BY <1>4, SqlerAssumption
<1>6. \A c \in DOMAIN b.items[i] : Case(b, c, row) = b.items[i][c] BY CaseOfHit
<1>7. \A c \in DOMAIN b.items[i] :
        Increment(row[c], Case(b, c, row)) = row[c] + b.items[i][c]
  BY <1>5, <1>6 DEF Increment
<1>8. AfterUpdate(s, row) =
        [c \in Columns |-> IF c \notin cased THEN row[c]
                           ELSE IF c \in s.inc THEN Increment(row[c], Case(b, c, row))
                           ELSE Case(b, c, row)]
  BY <1>3 DEF AfterUpdate
<1> HIDE DEF cased
<1>9. \A c \in Columns : c \notin cased <=> c \in KeysOf(b) \/ c \notin DOMAIN b.items[i] BY <1>2
<1> QED BY <1>6, <1>7, <1>8, <1>9 DEF Written

LEMMA BatchMisses ==
    ASSUME NEW b, NEW row, DOMAIN row = Columns, row = [c \in Columns |-> row[c]],
           ~Listed(b, row), NEW s, s.batch = b
    PROVE  AfterUpdate(s, row) = row
  BY DEF AfterUpdate

(* A batch update does to every row what updating item by item would do,   *)
(* and leaves the other rows alone, for any items of the same columns,     *)
(* however many, with any keys (sqler.go:634).                             *)
THEOREM BatchesAreExact == SqlerSpec => []UpdateBatchExact
<1>1. ASSUME PartsInv PROVE UpdateBatchExact
  <2> SUFFICES ASSUME stmt.used.op = "batch", Regular(stmt.used.batch),
                      NEW row \in [Columns -> 0..1],
                      Listed(stmt.used.batch, row) =>
                        \E i \in DOMAIN stmt.used.batch.items :
                          Picks(stmt.used.batch.items[i], stmt.used.batch, row)
               PROVE  AfterUpdate(stmt.used, row) = ItemByItem(stmt.used, row)
    BY DEF UpdateBatchExact
  <2>1. PICK s, b : s = stmt.used /\ b = s.batch OBVIOUS
  <2>2. b \in Batches BY <1>1, <2>1 DEF PartsInv
  <2>3. b.items \in Seq(Items) /\ b.keys \in Seq(Columns) BY <2>2, SqlerAssumption
  <2>4. PICK m \in Nat : m = Len(b.items) BY <2>3
  <2>5. DOMAIN b.items = 1 .. m BY <2>3, <2>4
  <2>6. KeysOf(b) \subseteq Columns BY <2>3 DEF KeysOf
  <2>7. PICK upd : Updates(upd, b, s.inc, row, m) /\ ItemByItem(s, row) = upd[m]
    BY <2>1, <2>4, ItemByItemSolves
  <2>8. Regular(b) BY <2>1
  <2>9. CASE \E i \in 1 .. m : Picks(b.items[i], b, row)
    <3>1. PICK i \in 1 .. m : Picks(b.items[i], b, row) BY <2>9
    <3>2. AfterUpdate(s, row) = Written(b, i, s.inc, row)
      BY <2>1, <2>2, <2>5, <2>8, <3>1, BatchHits
    <3>3. upd[m] = Written(b, i, s.inc, row) BY <2>5, <2>6, <2>7, <2>8, <3>1, WrittenAtMostOnce
    <3> QED BY <2>1, <2>7, <3>2, <3>3
  <2>10. CASE \A i \in 1 .. m : ~Picks(b.items[i], b, row)
    <3>1. ~Listed(b, row) BY <2>1, <2>5, <2>10
    <3>2. AfterUpdate(s, row) = row BY <2>1, <3>1, BatchMisses
    <3>3. upd[m] = row BY <2>5, <2>6, <2>7, <2>8, <2>10, WrittenAtMostOnce
    <3> QED BY <2>1, <2>7, <3>2, <3>3
  <2> QED BY <2>9, <2>10
<1> QED BY <1>1, PartsInvariant, PTL
-----------------------------------------------------------------------------
(* Splitting at commas: the recursion of Split has a solution, which takes *)
(* one token after the other.                                              *)
Text == Seq(Tokens)
Taking(text, i, parts) == IF i = 0 THEN << << >> >> ELSE Took(parts, text[i])
Splits(split, text, m) == split = [i \in 0 .. m |-> Taking(text, i, split[i - 1])]

LEMMA SplitsExist == ASSUME NEW text, NEW m \in Nat PROVE \E split : Splits(split, text, m)
<1> DEFINE T == {l \in Nat : \E split : Splits(split, text, l)}
<1>1. 0 \in T
  <2>1. PICK split : split = [n \in 0 .. 0 |-> << << >> >>] OBVIOUS
  <2>2. \A n \in 0 .. 0 : Taking(text, n, split[n - 1]) = << << >> >> BY DEF Taking
  <2>3. Splits(split, text, 0) BY <2>1, <2>2 DEF Splits
  <2> QED BY <2>3
<1>2. ASSUME NEW l \in Nat, l \in T PROVE l + 1 \in T
  <2>1. PICK f : Splits(f, text, l) BY <1>2
  <2>2. PICK g : g = [n \in 0 .. l + 1 |->
                        Taking(text, n, IF n - 1 \in 0 .. l THEN f[n - 1] ELSE 0)]
    OBVIOUS
  <2>3. \A n \in 0 .. l : n - 1 \in 0 .. l \/ n = 0 OBVIOUS
  <2>4. \A r, q : Taking(text, 0, r) = Taking(text, 0, q) BY DEF Taking
  <2>5. ASSUME NEW n \in 0 .. l PROVE g[n] = f[n]
    <3>1. f[n] = Taking(text, n, f[n - 1]) BY <2>1 DEF Splits
    <3>2. g[n] = Taking(text, n, IF n - 1 \in 0 .. l THEN f[n - 1] ELSE 0) BY <2>2
    <3> QED BY <2>3, <2>4, <3>1, <3>2
  <2>6. ASSUME NEW n \in 0 .. l + 1 PROVE g[n] = Taking(text, n, g[n - 1])
    <3>1. g[n] = Taking(text, n, IF n - 1 \in 0 .. l THEN f[n - 1] ELSE 0) BY <2>2
    <3>2. CASE n = 0 BY <2>4, <3>1, <3>2
    <3>3. CASE n # 0
      <4>1. n - 1 \in 0 .. l BY <3>3
      <4>2. g[n - 1] = f[n - 1] BY <2>5, <4>1
      <4> QED BY <3>1, <4>1, <4>2
    <3> QED BY <3>2, <3>3
  <2>7. Splits(g, text, l + 1) BY <2>2, <2>6 DEF Splits
  <2> QED BY <2>7
<1>3. Nat \subseteq T
  <2> HIDE DEF T
  <2> QED BY <1>1, <1>2, SetInduction
<1> QED BY <1>3

LEMMA SplitSolves ==
    ASSUME NEW text, Len(text) \in Nat
    PROVE  \E split : Splits(split, text, Len(text)) /\ Split(text) = split[Len(text)]
<1> DEFINE split == CHOOSE f : Splits(f, text, Len(text))
<1>1. Split(text) = split[Len(text)] BY DEF Split, Splits, Taking
<1>2. Splits(split, text, Len(text))
  <2>1. \E f : Splits(f, text, Len(text)) BY SplitsExist
  <2> QED BY <2>1, Zenon
<1> QED BY <1>1, <1>2

LEMMA SplitEmpty == ASSUME NEW nil, nil = << >> PROVE Split(nil) = << nil >>
<1>1. Len(nil) = 0 OBVIOUS
<1>2. PICK split : Splits(split, nil, 0) /\ Split(nil) = split[0] BY <1>1, SplitSolves
<1>3. split[0] = Taking(nil, 0, split[0 - 1]) BY <1>2 DEF Splits
<1> QED BY <1>2, <1>3 DEF Taking

LEMMA SplitAppend ==
    ASSUME NEW text \in Text, NEW t \in Tokens PROVE Split(Append(text, t)) = Took(Split(text), t)
<1>1. PICK vs, n : vs = Append(text, t) /\ n = Len(text) OBVIOUS
<1>2. /\ n \in Nat /\ vs \in Text /\ Len(vs) = n + 1 /\ vs[n + 1] = t
      /\ \A i \in 1 .. n : vs[i] = text[i]
  BY <1>1, AppendProperties DEF Text
<1>3. PICK f : Splits(f, text, n) /\ Split(text) = f[n] BY <1>1, <1>2, SplitSolves
<1>4. PICK g : Splits(g, vs, n + 1) /\ Split(vs) = g[n + 1] BY <1>2, SplitSolves
<1> DEFINE T == {m \in Nat : m <= n => g[m] = f[m]}
<1>5. 0 \in T
  <2>1. f[0] = Taking(text, 0, f[0 - 1]) BY <1>2, <1>3 DEF Splits
  <2>2. g[0] = Taking(vs, 0, g[0 - 1]) BY <1>2, <1>4 DEF Splits
  <2> QED BY <2>1, <2>2 DEF Taking
<1>6. ASSUME NEW m \in Nat, m \in T PROVE m + 1 \in T
  <2> SUFFICES ASSUME m + 1 <= n PROVE g[m + 1] = f[m + 1] OBVIOUS
  <2>1. PICK q : q = f[m] /\ q = g[m] BY <1>2, <1>6
  <2>2. m + 1 \in 0 .. n /\ m + 1 \in 0 .. n + 1 /\ m + 1 # 0 /\ (m + 1) - 1 = m /\ m + 1 \in 1 .. n
    BY <1>2
  <2>3. f[m + 1] = Taking(text, m + 1, q) BY <1>3, <2>1, <2>2 DEF Splits
  <2>4. g[m + 1] = Taking(vs, m + 1, q) BY <1>4, <2>1, <2>2 DEF Splits
  <2>5. vs[m + 1] = text[m + 1] BY <1>2, <2>2
  <2> QED BY <2>2, <2>3, <2>4, <2>5 DEF Taking
<1>7. Nat \subseteq T
  <2> HIDE DEF T
  <2> QED BY <1>5, <1>6, SetInduction
<1>8. g[n] = f[n] BY <1>2, <1>7
<1>9. g[n + 1] = Taking(vs, n + 1, f[n])
  <2>1. n + 1 \in 0 .. n + 1 /\ (n + 1) - 1 = n BY <1>2
  <2>2. g[n + 1] = Taking(vs, n + 1, g[(n + 1) - 1]) BY <1>4, <2>1 DEF Splits
  <2> QED BY <1>8, <2>1, <2>2
<1>10. n + 1 # 0 BY <1>2
<1> QED BY <1>1, <1>2, <1>3, <1>4, <1>9, <1>10 DEF Taking

(* One token more makes the last part longer or begins another.            *)
LEMMA TookAtEnd ==
    ASSUME NEW s \in Seq(Text), NEW u \in Text, NEW t \in Tokens, t # Comma
    PROVE  Took(Append(s, u), t) = Append(s, Append(u, t))
<1>1. PICK w : w = Append(s, u) OBVIOUS
<1>2. PICK n \in Nat : n = Len(s) OBVIOUS
<1>3. w \in Seq(Text) /\ Len(w) = n + 1 /\ w[n + 1] = u /\ \A i \in 1 .. n : w[i] = s[i]
  BY <1>1, <1>2, AppendProperties
<1>4. PICK v \in Text : v = Append(u, t) BY AppendProperties DEF Text
<1>5. PICK x : x = Append(s, v) OBVIOUS
<1>6. x \in Seq(Text) /\ Len(x) = n + 1 /\ x[n + 1] = v /\ \A i \in 1 .. n : x[i] = s[i]
  BY <1>2, <1>4, <1>5, AppendProperties
<1>7. Took(w, t) = [w EXCEPT ![n + 1] = v] BY <1>3, <1>4 DEF Took
<1>8. PICK y : y = [w EXCEPT ![n + 1] = v] OBVIOUS
<1>9. y \in Seq(Text) /\ Len(y) = n + 1 BY <1>3, <1>8, ExceptSeq
<1>10. \A i \in 1 .. n + 1 : y[i] = x[i]
  <2>1. \A i \in 1 .. n + 1 : i \in 1 .. n \/ i = n + 1 OBVIOUS
  <2>2. DOMAIN w = 1 .. n + 1 BY <1>3
  <2>3. y[n + 1] = v /\ \A i \in 1 .. n + 1 : i # n + 1 => y[i] = w[i] BY <1>8, <2>2
  <2> QED BY <1>3, <1>6, <2>1, <2>3
<1>11. y = x BY <1>6, <1>9, <1>10, SeqEqual
<1> QED BY <1>1, <1>4, <1>5, <1>7, <1>8, <1>11

LEMMA TookType ==
    ASSUME NEW s \in Seq(Text), Len(s) >= 1, NEW t \in Tokens
    PROVE  /\ Took(s, t) \in Seq(Text)
           /\ Len(Took(s, t)) = IF t = Comma THEN Len(s) + 1 ELSE Len(s)
<1>1. CASE t = Comma
  <2>1. PICK nil \in Text : nil = << >> BY EmptySeq DEF Text
  <2>2. Took(s, t) = Append(s, nil) BY <1>1, <2>1 DEF Took
  <2> QED BY <1>1, <2>1, <2>2, AppendProperties
<1>2. CASE t # Comma
  <2>1. PICK n \in Nat : n = Len(s) OBVIOUS
  <2>2. n \in 1 .. Len(s) /\ s[n] \in Text BY <2>1
  <2>3. PICK v \in Text : v = Append(s[n], t) BY <2>2, AppendProperties DEF Text
  <2>4. Took(s, t) = [s EXCEPT ![n] = v] BY <1>2, <2>1, <2>2, <2>3 DEF Took
  <2> QED BY <1>2, <2>2, <2>3, <2>4, ExceptSeq
<1> QED BY <1>1, <1>2

(* A text that grows by another, token by token.                           *)
LEMMA PrefixGrows ==
    ASSUME NEW S, NEW u \in Seq(S)
    PROVE  /\ SubSeq(u, 1, 0) = << >> /\ SubSeq(u, 1, Len(u)) = u
           /\ \A k \in 0 .. Len(u) : SubSeq(u, 1, k) \in Seq(S)
           /\ \A k \in 0 .. Len(u) - 1 : SubSeq(u, 1, k + 1) = Append(SubSeq(u, 1, k), u[k + 1])
<1>1. PICK n \in Nat : n = Len(u) OBVIOUS
<1>2. SubSeq(u, 1, 0) = << >> BY SubSeqEmpty
<1>3. SubSeq(u, 1, n) = u BY <1>1, SubSeqFull
<1>4. ASSUME NEW k \in 0 .. n PROVE /\ SubSeq(u, 1, k) \in Seq(S) /\ Len(SubSeq(u, 1, k)) = k
                                    /\ \A i \in 1 .. k : SubSeq(u, 1, k)[i] = u[i]
  BY <1>1, SubSeqProperties
<1>5. ASSUME NEW k \in 0 .. n - 1 PROVE SubSeq(u, 1, k + 1) = Append(SubSeq(u, 1, k), u[k + 1])
  <2>1. k + 1 \in 0 .. n /\ k \in 0 .. n /\ k \in Nat /\ k + 1 \in 1 .. n BY <1>1
  <2>2. PICK v \in Seq(S) : v = SubSeq(u, 1, k + 1) BY <1>4, <2>1
  <2>3. PICK w \in Seq(S) : w = SubSeq(u, 1, k) BY <1>4, <2>1
  <2>4. Len(v) = k + 1 /\ (\A i \in 1 .. k + 1 : v[i] = u[i]) BY <1>4, <2>1, <2>2
  <2>5. Len(w) = k /\ (\A i \in 1 .. k : w[i] = u[i]) BY <1>4, <2>1, <2>3
  <2>6. PICK x : x = Append(w, u[k + 1]) OBVIOUS
  <2>7. u[k + 1] \in S BY <1>1, <2>1
  <2>8. x \in Seq(S) /\ Len(x) = k + 1 /\ x[k + 1] = u[k + 1] /\ \A i \in 1 .. k : x[i] = w[i]
    BY <2>1, <2>5, <2>6, <2>7, AppendProperties
  <2>9. \A i \in 1 .. k + 1 : i \in 1 .. k \/ i = k + 1 BY <2>1
  <2>10. \A i \in 1 .. k + 1 : v[i] = x[i] BY <2>1, <2>4, <2>5, <2>8, <2>9
  <2>11. v = x BY <2>4, <2>8, <2>10, SeqEqual
  <2> QED BY <2>2, <2>3, <2>6, <2>11
<1> QED BY <1>1, <1>2, <1>3, <1>4, <1>5

LEMMA ConcatAppend ==
    ASSUME NEW S, NEW w \in Seq(S), NEW v \in Seq(S), NEW e \in S
    PROVE  w \o Append(v, e) = Append(w \o v, e)
<1>1. PICK one : one = << e >> OBVIOUS
<1>2. one \in Seq(S) BY <1>1
<1>3. \A q \in Seq(S) : Append(q, e) = q \o one BY <1>1, AppendIsConcat
<1>4. w \o v \in Seq(S) BY ConcatProperties
<1>5. (w \o v) \o one = w \o (v \o one) BY <1>2, ConcatAssociative, SMTT(20)
<1> QED BY <1>3, <1>4, <1>5

Grows(g, u) == \A k \in 0 .. Len(u) - 1 : g[k + 1] = Took(g[k], u[k + 1])

LEMMA SplitGrows ==
    ASSUME NEW w \in Text, NEW u \in Text
    PROVE  \E g : g[0] = Split(w) /\ g[Len(u)] = Split(w \o u) /\ Grows(g, u)
<1>1. PICK n \in Nat : n = Len(u) BY DEF Text
<1>2. PICK g : g = [k \in 0 .. n |-> Split(w \o SubSeq(u, 1, k))] OBVIOUS
<1>3. \A k \in 0 .. n : g[k] = Split(w \o SubSeq(u, 1, k)) BY <1>2
<1>4. g[0] = Split(w)
  <2>1. PICK nil : nil = SubSeq(u, 1, 0) OBVIOUS
  <2>2. w \o nil = w BY <2>1, PrefixGrows, ConcatEmptySeq DEF Text
  <2>3. g[0] = Split(w \o nil) BY <1>1, <1>3, <2>1
  <2> QED BY <2>2, <2>3
<1>5. g[n] = Split(w \o u)
  <2>1. SubSeq(u, 1, n) = u BY <1>1, PrefixGrows DEF Text
  <2>2. g[n] = Split(w \o SubSeq(u, 1, n)) BY <1>1, <1>3
  <2> QED BY <2>1, <2>2
<1>6. ASSUME NEW k \in 0 .. n - 1 PROVE g[k + 1] = Took(g[k], u[k + 1])
  <2>1. k \in 0 .. n /\ k + 1 \in 0 .. n /\ k + 1 \in 1 .. n BY <1>1
  <2>2. PICK v \in Text : v = SubSeq(u, 1, k) BY <1>1, <2>1, PrefixGrows DEF Text
  <2>3. PICK e \in Tokens : e = u[k + 1] BY <1>1, <2>1 DEF Text
  <2>4. SubSeq(u, 1, k + 1) = Append(v, e) BY <1>1, <2>2, <2>3, PrefixGrows DEF Text
  <2>5. w \o Append(v, e) = Append(w \o v, e) BY ConcatAppend DEF Text
  <2>6. w \o v \in Text BY ConcatProperties DEF Text
  <2>7. g[k + 1] = Split(Append(w \o v, e)) BY <1>3, <2>1, <2>4, <2>5
  <2>8. g[k] = Split(w \o v) BY <1>3, <2>1, <2>2
  <2> QED BY <2>3, <2>6, <2>7, <2>8, SplitAppend
<1> QED BY <1>1, <1>4, <1>5, <1>6 DEF Grows

Commas(u, k) == IF \E j \in 1 .. k : u[j] = Comma THEN 1 ELSE 0

LEMMA GrowsLonger ==
    ASSUME NEW u \in Text, NEW g, Grows(g, u), g[0] \in Seq(Text), Len(g[0]) >= 1
    PROVE  g[Len(u)] \in Seq(Text) /\ Len(g[Len(u)]) >= Len(g[0]) + Commas(u, Len(u))
<1>1. PICK n \in Nat : n = Len(u) BY DEF Text
<1>2. PICK l \in Nat : l = Len(g[0]) OBVIOUS
<1> DEFINE So(k) == g[k] \in Seq(Text) /\ Len(g[k]) >= l + Commas(u, k)
           T == {k \in Nat : k <= n => So(k)}
<1>3. 0 \in T
  <2>1. Commas(u, 0) = 0 BY DEF Commas
  <2> QED BY <1>2, <2>1
<1>4. ASSUME NEW k \in Nat, k \in T PROVE k + 1 \in T
  <2> SUFFICES ASSUME k + 1 <= n PROVE So(k + 1) OBVIOUS
  <2>1. k \in 0 .. n - 1 /\ k + 1 \in 1 .. n BY <1>1
  <2>2. PICK s \in Seq(Text) : s = g[k] BY <1>1, <1>4
  <2>3. PICK m \in Nat : m = Len(s) BY <2>2
  <2>4. PICK t \in Tokens : t = u[k + 1] BY <1>1, <2>1 DEF Text
  <2>5. Commas(u, k) \in {0, 1} /\ Commas(u, k + 1) \in {0, 1} BY DEF Commas
  <2>6. m >= l + Commas(u, k) /\ l >= 1 BY <1>1, <1>2, <1>4, <2>2, <2>3
  <2>7. Len(s) >= 1 BY <2>3, <2>5, <2>6
  <2>8. g[k + 1] = Took(s, t) BY <1>1, <2>1, <2>2, <2>4 DEF Grows
  <2>9. g[k + 1] \in Seq(Text) /\ Len(g[k + 1]) = IF t = Comma THEN m + 1 ELSE m
    BY <2>3, <2>7, <2>8, TookType
  <2>10. t # Comma => Commas(u, k + 1) = Commas(u, k)
    <3>1. \A j \in 1 .. k + 1 : j \in 1 .. k \/ j = k + 1 BY <2>1
    <3>2. \A j \in 1 .. k : j \in 1 .. k + 1 BY <2>1
    <3> QED BY <2>4, <3>1, <3>2 DEF Commas
  <2>11. PICK a, b : a = Commas(u, k) /\ b = Commas(u, k + 1) OBVIOUS
  <2>12. (IF t = Comma THEN m + 1 ELSE m) >= l + b BY <1>2, <2>3, <2>5, <2>6, <2>10, <2>11
  <2> QED BY <2>9, <2>11, <2>12
<1>5. Nat \subseteq T
  <2> HIDE DEF T
  <2> QED BY <1>3, <1>4, SetInduction
<1> QED BY <1>1, <1>2, <1>5

LEMMA SplitType == ASSUME NEW u \in Text PROVE Split(u) \in Seq(Text) /\ Len(Split(u)) >= 1
<1>1. PICK nil \in Text : nil = << >> BY EmptySeq DEF Text
<1>2. nil \o u = u BY <1>1, ConcatEmptySeq DEF Text
<1>3. PICK g : g[0] = Split(nil) /\ g[Len(u)] = Split(u) /\ Grows(g, u) BY <1>2, SplitGrows
<1>4. PICK s : s = << nil >> OBVIOUS
<1>5. s \in Seq(Text) /\ Len(s) = 1 BY <1>4
<1>6. g[0] = s BY <1>1, <1>3, <1>4, SplitEmpty
<1>7. Len(g[0]) >= 1 /\ g[0] \in Seq(Text) BY <1>5, <1>6
<1>8. Split(u) \in Seq(Text) /\ Len(Split(u)) >= 1 + Commas(u, Len(u))
  BY <1>3, <1>5, <1>6, <1>7, GrowsLonger
<1>9. Commas(u, Len(u)) \in {0, 1} BY DEF Commas
<1>10. PICK m \in Nat : m = Len(Split(u)) BY <1>8
<1> QED BY <1>8, <1>9, <1>10

LEMMA SplitLonger ==
    ASSUME NEW w \in Text, NEW u \in Text
    PROVE  Len(Split(w \o u)) >= Len(Split(w)) + Commas(u, Len(u))
<1>1. PICK g : g[0] = Split(w) /\ g[Len(u)] = Split(w \o u) /\ Grows(g, u) BY SplitGrows
<1>2. g[0] \in Seq(Text) /\ Len(g[0]) >= 1 BY <1>1, SplitType
<1> QED BY <1>1, <1>2, GrowsLonger

(* Without a comma in it, all that follows stays in the last part.         *)
LEMMA SplitFills ==
    ASSUME NEW w \in Text, NEW s \in Seq(Text), NEW nil, nil = << >>, Split(w) = Append(s, nil),
           NEW u \in Text, \A i \in 1 .. Len(u) : u[i] # Comma
    PROVE  Split(w \o u) = Append(s, u)
<1>1. PICK n \in Nat : n = Len(u) BY DEF Text
<1>2. PICK g : g[0] = Split(w) /\ g[n] = Split(w \o u) /\ Grows(g, u) BY <1>1, SplitGrows
<1> DEFINE T == {k \in Nat : k <= n => g[k] = Append(s, SubSeq(u, 1, k))}
<1>3. 0 \in T
  <2>1. SubSeq(u, 1, 0) = nil BY PrefixGrows DEF Text
  <2> QED BY <1>2, <2>1
<1>4. ASSUME NEW k \in Nat, k \in T PROVE k + 1 \in T
  <2> SUFFICES ASSUME k + 1 <= n PROVE g[k + 1] = Append(s, SubSeq(u, 1, k + 1)) OBVIOUS
  <2>1. k \in 0 .. n - 1 /\ k \in 0 .. n /\ k + 1 \in 1 .. n /\ k <= n BY <1>1
  <2>2. PICK v \in Text : v = SubSeq(u, 1, k) BY <1>1, <2>1, PrefixGrows DEF Text
  <2>3. PICK t \in Tokens : t = u[k + 1] BY <1>1, <2>1 DEF Text
  <2>4. t # Comma BY <1>1, <2>1, <2>3
  <2>5. g[k] = Append(s, v) BY <1>4, <2>1, <2>2
  <2>6. g[k + 1] = Took(g[k], t) BY <1>1, <1>2, <2>1, <2>3 DEF Grows
  <2>7. g[k + 1] = Append(s, Append(v, t)) BY <2>4, <2>5, <2>6, TookAtEnd
  <2>8. SubSeq(u, 1, k + 1) = Append(v, t) BY <1>1, <2>1, <2>2, <2>3, PrefixGrows DEF Text
  <2> QED BY <2>7, <2>8
<1>5. Nat \subseteq T
  <2> HIDE DEF T
  <2> QED BY <1>3, <1>4, SetInduction
<1>6. g[n] = Append(s, SubSeq(u, 1, n)) BY <1>5
<1>7. SubSeq(u, 1, n) = u BY <1>1, PrefixGrows DEF Text
<1> QED BY <1>2, <1>6, <1>7

(* Joining: the recursion of Joined has a solution, which takes one part   *)
(* after the other, with a comma between them.                             *)
Joining(parts, sep, i, j) ==
    IF i = 0 THEN << >> ELSE (IF j = << >> THEN << >> ELSE j \o sep) \o parts[i]
Joins(join, parts, sep, m) == join = [i \in 0 .. m |-> Joining(parts, sep, i, join[i - 1])]

LEMMA JoinsExist ==
    ASSUME NEW parts, NEW sep, NEW m \in Nat PROVE \E join : Joins(join, parts, sep, m)
<1> DEFINE T == {l \in Nat : \E join : Joins(join, parts, sep, l)}
<1>1. 0 \in T
  <2>1. PICK join : join = [n \in 0 .. 0 |-> << >>] OBVIOUS
  <2>2. \A n \in 0 .. 0 : Joining(parts, sep, n, join[n - 1]) = << >> BY DEF Joining
  <2>3. Joins(join, parts, sep, 0) BY <2>1, <2>2 DEF Joins
  <2> QED BY <2>3
<1>2. ASSUME NEW l \in Nat, l \in T PROVE l + 1 \in T
  <2>1. PICK f : Joins(f, parts, sep, l) BY <1>2
  <2>2. PICK g : g = [n \in 0 .. l + 1 |->
                        Joining(parts, sep, n, IF n - 1 \in 0 .. l THEN f[n - 1] ELSE 0)]
    OBVIOUS
  <2>3. \A n \in 0 .. l : n - 1 \in 0 .. l \/ n = 0 OBVIOUS
  <2>4. \A r, q : Joining(parts, sep, 0, r) = Joining(parts, sep, 0, q) BY DEF Joining
  <2>5. ASSUME NEW n \in 0 .. l PROVE g[n] = f[n]
    <3>1. f[n] = Joining(parts, sep, n, f[n - 1]) BY <2>1 DEF Joins
    <3>2. g[n] = Joining(parts, sep, n, IF n - 1 \in 0 .. l THEN f[n - 1] ELSE 0) BY <2>2
    <3> QED BY <2>3, <2>4, <3>1, <3>2
  <2>6. ASSUME NEW n \in 0 .. l + 1 PROVE g[n] = Joining(parts, sep, n, g[n - 1])
    <3>1. g[n] = Joining(parts, sep, n, IF n - 1 \in 0 .. l THEN f[n - 1] ELSE 0) BY <2>2
    <3>2. CASE n = 0 BY <2>4, <3>1, <3>2
    <3>3. CASE n # 0
      <4>1. n - 1 \in 0 .. l BY <3>3
      <4>2. g[n - 1] = f[n - 1] BY <2>5, <4>1
      <4> QED BY <3>1, <4>1, <4>2
    <3> QED BY <3>2, <3>3
  <2>7. Joins(g, parts, sep, l + 1) BY <2>2, <2>6 DEF Joins
  <2> QED BY <2>7
<1>3. Nat \subseteq T
  <2> HIDE DEF T
  <2> QED BY <1>1, <1>2, SetInduction
<1> QED BY <1>3

LEMMA JoinedSolves ==
    ASSUME NEW parts, NEW sep, Len(parts) \in Nat
    PROVE  \E join : Joins(join, parts, sep, Len(parts)) /\ Joined(parts, sep) = join[Len(parts)]
<1> DEFINE join == CHOOSE f : Joins(f, parts, sep, Len(parts))
<1>1. Joined(parts, sep) = join[Len(parts)] BY DEF Joined, Joins, Joining
<1>2. Joins(join, parts, sep, Len(parts))
  <2>1. \E f : Joins(f, parts, sep, Len(parts)) BY JoinsExist
  <2> QED BY <2>1, Zenon
<1> QED BY <1>1, <1>2

JoinGrows(join, parts, n) ==
    /\ join[1] = parts[1]
    /\ \A i \in 1 .. n : join[i] \in Text /\ join[i] # << >>
    /\ \A i \in 1 .. n - 1 : join[i + 1] = Append(join[i], Comma) \o parts[i + 1]

LEMMA CommaIsToken == Comma \in Tokens BY SysAssumption DEF Signs

LEMMA JoinedGrows ==
    ASSUME NEW parts \in Seq(Text), NEW n \in Nat \ {0}, n = Len(parts),
           \A i \in 1 .. n : parts[i] # << >>
    PROVE  \E join : JoinGrows(join, parts, n) /\ join[n] = Joined(parts, << Comma >>)
<1>1. PICK sep, nil : sep = << Comma >> /\ nil = << >> OBVIOUS
<1>2. sep \in Text /\ nil \in Text BY <1>1, CommaIsToken DEF Text
<1>3. PICK join : Joins(join, parts, sep, n) /\ Joined(parts, sep) = join[n]
  BY JoinedSolves
<1>4. \A w \in Text : Append(w, Comma) = w \o sep BY <1>1, CommaIsToken, AppendIsConcat DEF Text
<1>5. \A w \in Text : nil \o w = w BY <1>1, ConcatEmptySeq DEF Text
<1>6. \A i \in 1 .. n : parts[i] \in Text OBVIOUS
<1>7. join[1] = parts[1]
  <2>1. 0 \in 0 .. n /\ 1 \in 0 .. n /\ 1 - 1 = 0 /\ 1 \in 1 .. n OBVIOUS
  <2>2. join[0] = Joining(parts, sep, 0, join[0 - 1]) BY <1>3, <2>1 DEF Joins
  <2>3. join[0] = nil BY <1>1, <2>2 DEF Joining
  <2>4. join[1] = Joining(parts, sep, 1, join[0]) BY <1>3, <2>1 DEF Joins
  <2>5. join[1] = nil \o parts[1] BY <1>1, <2>3, <2>4 DEF Joining
  <2> QED BY <1>5, <1>6, <2>1, <2>5
<1>8. ASSUME NEW i \in 1 .. n - 1, join[i] \in Text, join[i] # nil
      PROVE  join[i + 1] = Append(join[i], Comma) \o parts[i + 1]
  <2>1. i + 1 \in 0 .. n /\ i + 1 # 0 /\ (i + 1) - 1 = i OBVIOUS
  <2>2. PICK j : j = join[i] OBVIOUS
  <2>3. join[i + 1] = Joining(parts, sep, i + 1, j) BY <1>3, <2>1, <2>2 DEF Joins
  <2>4. join[i + 1] = (j \o sep) \o parts[i + 1] BY <1>1, <1>8, <2>1, <2>2, <2>3 DEF Joining
  <2> QED BY <1>4, <1>8, <2>2, <2>4
<1> DEFINE T == {i \in Nat : i \in 1 .. n => join[i] \in Text /\ join[i] # nil}
<1>9. 0 \in T OBVIOUS
<1>10. ASSUME NEW i \in Nat, i \in T PROVE i + 1 \in T
  <2> SUFFICES ASSUME i + 1 \in 1 .. n PROVE join[i + 1] \in Text /\ join[i + 1] # nil OBVIOUS
  <2>1. CASE i = 0 BY <1>1, <1>6, <1>7, <2>1
  <2>2. CASE i # 0
    <3>1. i \in 1 .. n - 1 /\ i \in 1 .. n BY <2>2
    <3>2. PICK j \in Text : j = join[i] BY <1>10, <3>1
    <3>3. PICK p \in Text : p = parts[i + 1] BY <1>6
    <3>4. PICK q \in Text : q = Append(j, Comma) BY CommaIsToken, AppendProperties DEF Text
    <3>5. join[i + 1] = q \o p
      <4>1. join[i] \in Text /\ join[i] # nil BY <1>10, <3>1
      <4>2. join[i + 1] = Append(join[i], Comma) \o parts[i + 1] BY <1>8, <3>1, <4>1
      <4> QED BY <3>2, <3>3, <3>4, <4>2
    <3>6. q # nil
      <4>1. PICK l \in Nat : l = Len(j) BY DEF Text
      <4>2. Len(q) = l + 1 BY <3>4, <4>1, CommaIsToken, AppendProperties DEF Text
      <4>3. Len(nil) = 0 BY <1>1
      <4> QED BY <4>2, <4>3
    <3>7. q \o p \in Text BY ConcatProperties DEF Text
    <3>8. q \o p # nil BY <1>1, <3>6, ConcatEqualIffEmpty DEF Text
    <3> QED BY <3>5, <3>7, <3>8
  <2> QED BY <2>1, <2>2
<1>11. Nat \subseteq T
  <2> HIDE DEF T
  <2> QED BY <1>9, <1>10, SetInduction
<1>12. \A i \in 1 .. n : join[i] \in Text /\ join[i] # nil BY <1>11
<1>13. \A i \in 1 .. n - 1 : i \in 1 .. n OBVIOUS
<1>14. JoinGrows(join, parts, n) BY <1>1, <1>7, <1>8, <1>12, <1>13 DEF JoinGrows
<1> QED BY <1>1, <1>3, <1>14

NoComma(u) == \A i \in 1 .. Len(u) : u[i] # Comma

LEMMA AppendToNone == \A x : Append(<< >>, x) = << x >> OBVIOUS

(* Splitting undoes joining parts without a comma, ...                     *)
LEMMA SplitJoined ==
    ASSUME NEW parts \in Seq(Text), NEW n \in Nat \ {0}, n = Len(parts),
           \A i \in 1 .. n : parts[i] # << >> /\ NoComma(parts[i])
    PROVE  Split(Joined(parts, << Comma >>)) = parts
<1>1. PICK join : JoinGrows(join, parts, n) /\ join[n] = Joined(parts, << Comma >>) BY JoinedGrows
<1>2. PICK nil \in Text : nil = << >> BY EmptySeq DEF Text
<1>3. \A i \in 1 .. n : parts[i] \in Text OBVIOUS
<1> DEFINE T == {i \in Nat : i \in 1 .. n => Split(join[i]) = SubSeq(parts, 1, i)}
<1>4. 0 \in T OBVIOUS
<1>5. ASSUME NEW i \in Nat, i \in T PROVE i + 1 \in T
  <2> SUFFICES ASSUME i + 1 \in 1 .. n PROVE Split(join[i + 1]) = SubSeq(parts, 1, i + 1) OBVIOUS
  <2>1. PICK p \in Text : p = parts[i + 1] BY <1>3
  <2>2. \A j \in 1 .. Len(p) : p[j] # Comma BY <2>1 DEF NoComma
  <2>3. i \in 0 .. n - 1 /\ i \in 0 .. n OBVIOUS
  <2>4. PICK s \in Seq(Text) : s = SubSeq(parts, 1, i) BY <2>3, PrefixGrows
  <2>5. SubSeq(parts, 1, i + 1) = Append(s, p) BY <2>1, <2>3, <2>4, PrefixGrows
  <2>6. CASE i = 0
    <3>1. Split(nil) = << nil >> BY <1>2, SplitEmpty
    <3>2. s = << >> BY <2>4, <2>6, PrefixGrows
    <3>3. Append(s, nil) = << nil >>
      <4>1. Append(<< >>, nil) = << nil >> BY AppendToNone, Zenon
      <4> QED BY <3>2, <4>1, Zenon
    <3>4. Split(nil \o p) = Append(s, p)
      <4>1. Split(nil) = Append(s, nil) BY <3>1, <3>3, Zenon
      <4> QED BY <1>2, <2>2, <4>1, SplitFills, ZenonT(30)
    <3>5. nil \o p = p BY <1>2, ConcatEmptySeq DEF Text
    <3>6. join[i + 1] = p BY <1>1, <2>1, <2>6 DEF JoinGrows
    <3> QED BY <2>5, <3>4, <3>5, <3>6
  <2>7. CASE i # 0
    <3>1. i \in 1 .. n - 1 /\ i \in 1 .. n BY <2>7
    <3>2. PICK j \in Text : j = join[i] BY <1>1, <3>1 DEF JoinGrows
    <3>3. PICK w \in Text : w = Append(j, Comma) BY CommaIsToken, AppendProperties DEF Text
    <3>4. join[i + 1] = w \o p BY <1>1, <2>1, <3>1, <3>2, <3>3 DEF JoinGrows
    <3>5. Split(w) = Took(Split(j), Comma) BY <3>3, CommaIsToken, SplitAppend
    <3>6. Split(j) = s BY <1>5, <2>4, <3>1, <3>2
    <3>7. Split(w) = Append(s, nil) BY <1>2, <3>5, <3>6 DEF Took
    <3>8. Split(w \o p) = Append(s, p) BY <1>2, <2>2, <3>7, SplitFills
    <3> QED BY <2>5, <3>4, <3>8
  <2> QED BY <2>6, <2>7
<1>6. Nat \subseteq T
  <2> HIDE DEF T
  <2> QED BY <1>4, <1>5, SetInduction
<1>7. Split(join[n]) = SubSeq(parts, 1, n) BY <1>6
<1>8. SubSeq(parts, 1, n) = parts BY PrefixGrows
<1> QED BY <1>1, <1>7, <1>8

(* ... and gives more parts when one has a comma.                          *)
LEMMA SplitJoinedMore ==
    ASSUME NEW parts \in Seq(Text), NEW n \in Nat \ {0}, n = Len(parts),
           \A i \in 1 .. n : parts[i] # << >>,
           NEW h \in 1 .. n, ~NoComma(parts[h])
    PROVE  Len(Split(Joined(parts, << Comma >>))) > n
<1>1. PICK join : JoinGrows(join, parts, n) /\ join[n] = Joined(parts, << Comma >>) BY JoinedGrows
<1>2. PICK nil \in Text : nil = << >> BY EmptySeq DEF Text
<1>3. \A i \in 1 .. n : parts[i] \in Text OBVIOUS
<1>4. Commas(parts[h], Len(parts[h])) = 1 BY DEF Commas, NoComma
<1>5. \A i \in 1 .. n : join[i] \in Text BY <1>1 DEF JoinGrows
<1>6. \A i \in 1 .. n : Len(Split(join[i])) \in Nat BY <1>5, SplitType
<1> DEFINE More(i) == IF h <= i THEN 1 ELSE 0
           T == {i \in Nat : i \in 1 .. n => Len(Split(join[i])) >= i + More(i)}
<1>7. 0 \in T OBVIOUS
<1>8. ASSUME NEW i \in Nat, i \in T PROVE i + 1 \in T
  <2> SUFFICES ASSUME i + 1 \in 1 .. n PROVE Len(Split(join[i + 1])) >= (i + 1) + More(i + 1)
    OBVIOUS
  <2>1. PICK p \in Text : p = parts[i + 1] BY <1>3
  <2>2. PICK c \in {0, 1} : c = Commas(p, Len(p)) BY DEF Commas
  <2>3. h = i + 1 => c = 1 BY <1>4, <2>1, <2>2
  <2>4. PICK m \in Nat : m = Len(Split(join[i + 1])) BY <1>6
  <2>5. CASE i = 0
    <3>1. PICK s : s = << nil >> OBVIOUS
    <3>2. Split(nil) = s /\ Len(s) = 1 BY <1>2, <3>1, SplitEmpty
    <3>3. nil \o p = p BY <1>2, ConcatEmptySeq DEF Text
    <3>4. join[i + 1] = p BY <1>1, <2>1, <2>5 DEF JoinGrows
    <3>5. m >= 1 + c BY <2>2, <2>4, <3>2, <3>3, <3>4, SplitLonger
    <3> QED BY <2>3, <2>4, <2>5, <3>5
  <2>6. CASE i # 0
    <3>1. i \in 1 .. n - 1 /\ i \in 1 .. n BY <2>6
    <3>2. PICK j \in Text : j = join[i] BY <1>5, <3>1
    <3>3. PICK w \in Text : w = Append(j, Comma) BY CommaIsToken, AppendProperties DEF Text
    <3>4. join[i + 1] = w \o p BY <1>1, <2>1, <3>1, <3>2, <3>3 DEF JoinGrows
    <3>5. Split(w) = Took(Split(j), Comma) BY <3>3, CommaIsToken, SplitAppend
    <3>6. PICK k \in Nat : k = Len(Split(j)) BY <1>6, <3>1, <3>2
    <3>7. Len(Split(w)) = k + 1 BY <3>5, <3>6, CommaIsToken, SplitType, TookType
    <3>8. m >= (k + 1) + c BY <2>2, <2>4, <3>4, <3>7, SplitLonger
    <3>9. k >= i + More(i) BY <1>8, <3>1, <3>2, <3>6
    <3> QED BY <2>3, <2>4, <3>8, <3>9
  <2> QED BY <2>5, <2>6
<1>9. Nat \subseteq T
  <2> HIDE DEF T
  <2> QED BY <1>7, <1>8, SetInduction
<1>10. Len(Split(join[n])) >= n + 1 BY <1>9
<1>11. Len(Split(join[n])) \in Nat BY <1>6
<1> QED BY <1>1, <1>10, <1>11

(* The first and the last token of the joined parts are theirs.            *)
LEMMA JoinedEnds ==
    ASSUME NEW parts \in Seq(Text), NEW n \in Nat \ {0}, n = Len(parts),
           \A i \in 1 .. n : parts[i] # << >>,
           NEW u, u = Joined(parts, << Comma >>)
    PROVE  /\ u \in Text /\ u # << >>
           /\ u[1] = parts[1][1] /\ u[Len(u)] = parts[n][Len(parts[n])]
<1>1. PICK join : JoinGrows(join, parts, n) /\ join[n] = u BY JoinedGrows
<1>2. \A i \in 1 .. n : parts[i] \in Text OBVIOUS
<1>3. \A i \in 1 .. n : join[i] \in Text /\ join[i] # << >> BY <1>1 DEF JoinGrows
<1> DEFINE T == {i \in Nat : i \in 1 .. n => /\ join[i][1] = parts[1][1]
                                             /\ join[i][Len(join[i])] = parts[i][Len(parts[i])]}
<1>4. 0 \in T OBVIOUS
<1>5. ASSUME NEW i \in Nat, i \in T PROVE i + 1 \in T
  <2> SUFFICES ASSUME i + 1 \in 1 .. n
               PROVE  /\ join[i + 1][1] = parts[1][1]
                      /\ join[i + 1][Len(join[i + 1])] = parts[i + 1][Len(parts[i + 1])]
    OBVIOUS
  <2>1. CASE i = 0
    <3>1. join[i + 1] = parts[i + 1] BY <1>1, <2>1 DEF JoinGrows
    <3> QED BY <2>1, <3>1
  <2>2. CASE i # 0
    <3>1. i \in 1 .. n - 1 /\ i \in 1 .. n BY <2>2
    <3>2. PICK p \in Text : p = parts[i + 1] BY <1>2
    <3>3. PICK j \in Text : j = join[i] BY <1>3, <3>1
    <3>4. PICK w \in Text : w = Append(j, Comma) BY CommaIsToken, AppendProperties DEF Text
    <3>5. join[i + 1] = w \o p BY <1>1, <3>1, <3>2, <3>3, <3>4 DEF JoinGrows
    <3>6. PICK a \in Nat : a = Len(j) BY DEF Text
    <3>7. PICK b \in Nat : b = Len(p) BY DEF Text
    <3>8. a >= 1 /\ b >= 1
      <4>1. j # << >> /\ p # << >> BY <1>3, <3>1, <3>2, <3>3
      <4> QED BY <3>6, <3>7, <4>1, EmptySeq DEF Text
    <3>9. PICK c \in Nat : c = a + 1 OBVIOUS
    <3>10. Len(w) = c /\ w[1] = j[1]
      BY <3>4, <3>6, <3>8, <3>9, CommaIsToken, AppendProperties DEF Text
    <3>11. PICK v \in Text : v = w \o p BY ConcatProperties DEF Text
    <3>12. Len(v) = c + b /\ \A k \in 1 .. c + b : v[k] = IF k <= c THEN w[k] ELSE p[k - c]
      BY <3>7, <3>11, <3>10, ConcatProperties, ZenonT(30) DEF Text
    <3>13. v[1] = w[1] BY <3>8, <3>9, <3>12
    <3>14. v[c + b] = p[b]
      <4>1. c + b \in 1 .. c + b /\ ~(c + b <= c) /\ (c + b) - c = b BY <3>8
      <4> QED BY <3>12, <4>1
    <3> QED BY <1>5, <3>1, <3>2, <3>3, <3>5, <3>7, <3>11, <3>12, <3>13, <3>14, <3>10
  <2> QED BY <2>1, <2>2
<1>6. Nat \subseteq T
  <2> HIDE DEF T
  <2> QED BY <1>4, <1>5, SetInduction
<1>7. n \in T /\ n \in 1 .. n BY <1>6
<1> QED BY <1>1, <1>3, <1>7

(* Trimming: what is left is what is between its ends.                     *)
Padded(text, t, a, m, l) ==
    /\ text \in Text /\ m \in Text /\ a \in Nat /\ l \in Nat \ {0}
    /\ Len(m) = l /\ a + l <= Len(text)
    /\ \A i \in 1 .. l : text[a + i] = m[i]
    /\ \A i \in 1 .. Len(text) : i <= a \/ i > a + l => text[i] = t
    /\ m[1] # t /\ m[l] # t

LEMMA TrimIs ==
    ASSUME NEW text, NEW t, NEW a, NEW m, NEW l, Padded(text, t, a, m, l)
    PROVE  Trim(text, t) = m
<1>1. /\ text \in Text /\ m \in Text /\ a \in Nat /\ l \in Nat \ {0}
      /\ Len(m) = l /\ a + l <= Len(text)
      /\ \A i \in 1 .. l : text[a + i] = m[i]
      /\ \A i \in 1 .. Len(text) : i <= a \/ i > a + l => text[i] = t
      /\ m[1] # t /\ m[l] # t
  BY DEF Padded
<1>2. PICK n \in Nat : n = Len(text) BY <1>1 DEF Text
<1>3. DOMAIN text = 1 .. n BY <1>1, <1>2 DEF Text
<1>4. PICK kept : kept = {i \in 1 .. n : text[i] # t} OBVIOUS
<1>5. a + 1 \in kept /\ a + l \in kept
  <2>1. a + 1 \in 1 .. n /\ a + l \in 1 .. n /\ 1 \in 1 .. l /\ l \in 1 .. l BY <1>1, <1>2
  <2> QED BY <1>1, <1>4, <2>1
<1>6. \A i \in kept : i \in Nat /\ a + 1 <= i /\ i <= a + l BY <1>1, <1>2, <1>4
<1> DEFINE first == CHOOSE i \in kept : \A j \in kept : i =< j
           last == CHOOSE i \in kept : \A j \in kept : j =< i
<1>7. Trim(text, t) = SubSeq(text, first, last)
  <2>1. Trim(text, t) = IF kept = {} THEN << >> ELSE SubSeq(text, first, last)
    BY <1>3, <1>4 DEF Trim
  <2> QED BY <1>5, <2>1
<1>8. first \in kept /\ \A j \in kept : first =< j
  <2>1. \E i \in kept : \A j \in kept : i =< j BY <1>1, <1>5, <1>6
  <2> QED BY <2>1, Zenon
<1>9. last \in kept /\ \A j \in kept : j =< last
  <2>1. \E i \in kept : \A j \in kept : j =< i BY <1>1, <1>5, <1>6
  <2> QED BY <2>1, Zenon
<1>10. first = a + 1 /\ last = a + l
  <2> HIDE DEF first, last
  <2> QED BY <1>1, <1>5, <1>6, <1>8, <1>9
<1>11. Trim(text, t) = SubSeq(text, a + 1, a + l) BY <1>7, <1>10
<1>12. PICK u : u = SubSeq(text, a + 1, a + l) OBVIOUS
<1>13. \A i \in a + 1 .. a + l : text[i] \in Tokens BY <1>1, <1>2 DEF Text
<1>14. /\ u \in Text /\ Len(u) = l
       /\ \A i \in 1 .. (a + l) - (a + 1) + 1 : u[i] = text[(a + 1) + i - 1]
  BY <1>1, <1>12, <1>13, SubSeqProperties DEF Text
<1>15. \A i \in 1 .. l : u[i] = m[i]
  <2> SUFFICES ASSUME NEW i \in 1 .. l PROVE u[i] = m[i] OBVIOUS
  <2>1. i \in 1 .. (a + l) - (a + 1) + 1 /\ (a + 1) + i - 1 = a + i BY <1>1
  <2> QED BY <1>1, <1>14, <2>1
<1>16. u = m BY <1>1, <1>14, <1>15, SeqEqual DEF Text
<1> QED BY <1>11, <1>12, <1>16

LEMMA TrimNone ==
    ASSUME NEW text \in Text, NEW t, \A i \in 1 .. Len(text) : text[i] = t
    PROVE  Trim(text, t) = << >>
<1>1. {i \in DOMAIN text : text[i] # t} = {} BY DEF Text
<1> QED BY <1>1 DEF Trim

(* Neither end of it is the token trimmed.                                 *)
LEMMA TrimEnds ==
    ASSUME NEW text \in Text, NEW t, NEW w, w = Trim(text, t), w # << >>
    PROVE  w \in Text /\ w[1] # t /\ w[Len(w)] # t
<1>1. PICK n \in Nat : n = Len(text) BY DEF Text
<1>2. DOMAIN text = 1 .. n BY <1>1 DEF Text
<1>3. PICK kept : kept = {i \in 1 .. n : text[i] # t} OBVIOUS
<1> DEFINE first == CHOOSE i \in kept : \A j \in kept : i =< j
           last == CHOOSE i \in kept : \A j \in kept : j =< i
<1>4. w = IF kept = {} THEN << >> ELSE SubSeq(text, first, last) BY <1>2, <1>3 DEF Trim
<1>5. kept # {} /\ w = SubSeq(text, first, last) BY <1>4
<1>6. kept \in SUBSET Nat BY <1>3
<1>7. first \in kept /\ \A j \in kept : first =< j
  <2>1. \E i \in kept : \A j \in kept : i =< j BY <1>5, <1>6, LeastNat
  <2> QED BY <2>1, Zenon
<1>8. last \in kept /\ \A j \in kept : j =< last
  <2>1. PICK T : T = {n - i : i \in kept} OBVIOUS
  <2>2. T \in SUBSET Nat /\ T # {}
    <3>1. \A i \in kept : n - i \in Nat BY <1>1, <1>3
    <3>2. PICK i : i \in kept BY <1>5
    <3>3. n - i \in T BY <2>1, <3>2
    <3> QED BY <2>1, <3>1, <3>3
  <2>3. PICK x \in T : \A y \in T : x <= y BY <2>2, LeastNat
  <2>4. PICK i \in kept : x = n - i BY <2>1, <2>3
  <2>5. \A j \in kept : n - i <= n - j BY <2>1, <2>3, <2>4
  <2>6. \A j \in kept : j =< i BY <1>6, <2>5
  <2> QED BY <2>6, Zenon
<1> HIDE DEF first, last
<1>9. PICK p, q : p = first /\ q = last OBVIOUS
<1>10. p \in 1 .. n /\ q \in 1 .. n /\ p <= q /\ text[p] # t /\ text[q] # t
  BY <1>3, <1>7, <1>8, <1>9
<1>11. w = SubSeq(text, p, q) BY <1>5, <1>9
<1>12. \A i \in p .. q : text[i] \in Tokens BY <1>1, <1>10 DEF Text
<1>13. /\ w \in Text /\ Len(w) = q - p + 1
       /\ \A i \in 1 .. q - p + 1 : w[i] = text[p + i - 1]
  BY <1>10, <1>11, <1>12, SubSeqProperties DEF Text
<1>14. 1 \in 1 .. q - p + 1 /\ q - p + 1 \in 1 .. q - p + 1 /\ p + 1 - 1 = p
       /\ p + (q - p + 1) - 1 = q
  BY <1>10
<1>15. w[1] = text[p] /\ w[q - p + 1] = text[q] BY <1>13, <1>14
<1> QED BY <1>10, <1>13, <1>15

LEMMA SignsDiffer ==
    Comma # Open /\ Comma # Close /\ Open # Close /\ Quote \notin {Open, Close, Comma}
<1>1. Comma # Open /\ Comma # Close /\ Open # Close BY Zenon DEF Comma, Open, Close
<1>2. Quote # Open /\ Quote # Close /\ Quote # Comma BY Zenon DEF Quote, Comma, Open, Close
<1> QED BY <1>1, <1>2, Zenon

LEMMA SignTokens == Open \in Tokens /\ Close \in Tokens /\ Quote \in Tokens
  BY SysAssumption DEF Signs

Wraps(w, a, u, b, n) == /\ w \in Text /\ Len(w) = n + 2 /\ w[1] = a /\ w[n + 2] = b
                        /\ \A i \in 1 .. n : w[1 + i] = u[i]

LEMMA Between ==
    ASSUME NEW a \in Tokens, NEW b \in Tokens, NEW u \in Text
    PROVE  Wraps(<< a >> \o u \o << b >>, a, u, b, Len(u))
<1>1. PICK n, w : n = Len(u) /\ w = << a >> \o u \o << b >> OBVIOUS
<1> n \in Nat BY <1>1 DEF Text
<1>2. PICK s, e : s = << a >> /\ e = << b >> OBVIOUS
<1>3. s \in Text /\ e \in Text /\ Len(s) = 1 /\ Len(e) = 1 /\ s[1] = a /\ e[1] = b
  BY <1>2 DEF Text
<1>4. PICK v : v = s \o u OBVIOUS
<1>5. v \in Text /\ Len(v) = 1 + n /\ \A i \in 1 .. 1 + n : v[i] = IF i <= 1 THEN s[i] ELSE u[i - 1]
  <2>1. /\ v \in Text /\ Len(v) = Len(s) + Len(u)
        /\ \A i \in 1 .. Len(s) + Len(u) : v[i] = IF i <= Len(s) THEN s[i] ELSE u[i - Len(s)]
    BY <1>3, <1>4, ConcatProperties DEF Text
  <2> QED BY <1>1, <1>3, <2>1
<1>6. w = v \o e BY <1>1, <1>2, <1>4
<1>7. /\ w \in Text /\ Len(w) = (1 + n) + 1
      /\ \A i \in 1 .. (1 + n) + 1 : w[i] = IF i <= 1 + n THEN v[i] ELSE e[i - (1 + n)]
  <2>1. /\ w \in Text /\ Len(w) = Len(v) + Len(e)
        /\ \A i \in 1 .. Len(v) + Len(e) : w[i] = IF i <= Len(v) THEN v[i] ELSE e[i - Len(v)]
    BY <1>3, <1>5, <1>6, ConcatProperties DEF Text
  <2> QED BY <1>3, <1>5, <2>1
<1>8. w[1] = a
  <2>1. 1 \in 1 .. (1 + n) + 1 /\ 1 \in 1 .. 1 + n /\ 1 <= 1 + n OBVIOUS
  <2> QED BY <1>3, <1>5, <1>7, <2>1
<1>9. w[n + 2] = b
  <2>1. n + 2 \in 1 .. (1 + n) + 1 /\ ~(n + 2 <= 1 + n) /\ (n + 2) - (1 + n) = 1 OBVIOUS
  <2> QED BY <1>3, <1>7, <2>1
<1>10. ASSUME NEW i \in 1 .. n PROVE w[1 + i] = u[i]
  <2>1. /\ 1 + i \in 1 .. (1 + n) + 1 /\ 1 + i \in 1 .. 1 + n /\ 1 + i <= 1 + n /\ ~(1 + i <= 1)
        /\ (1 + i) - 1 = i
    OBVIOUS
  <2> QED BY <1>5, <1>7, <2>1
<1> QED BY <1>1, <1>7, <1>8, <1>9, <1>10 DEF Wraps

(* The brackets go when the text in them does not itself begin with one.   *)
LEMMA TrimOpen ==
    ASSUME NEW u \in Text, u = << >> \/ u[1] # Open
    PROVE  Trim(<< Open >> \o u \o << Close >>, Open) = Append(u, Close)
<1>1. PICK n \in Nat : n = Len(u) BY DEF Text
<1>2. PICK w : w = << Open >> \o u \o << Close >> OBVIOUS
<1>3. /\ w \in Text /\ Len(w) = n + 2 /\ w[1] = Open /\ w[n + 2] = Close
      /\ \A i \in 1 .. n : w[1 + i] = u[i]
  <2>1. Wraps(w, Open, u, Close, Len(u)) BY <1>2, Between, SignTokens
  <2> QED BY <1>1, <2>1 DEF Wraps
<1>4. PICK m : m = Append(u, Close) OBVIOUS
<1>5. m \in Text /\ Len(m) = n + 1 /\ m[n + 1] = Close /\ \A i \in 1 .. n : m[i] = u[i]
  BY <1>1, <1>4, AppendProperties, SignTokens DEF Text
<1>6. m[n + 1] # Open BY <1>5, SignsDiffer
<1>7. m[1] # Open
  <2>1. CASE n = 0 BY <1>6, <2>1
  <2>2. CASE n # 0
    <3>1. u # << >> BY <1>1, <2>2
    <3>2. 1 \in 1 .. n BY <2>2
    <3> QED BY <1>5, <3>1, <3>2
  <2> QED BY <2>1, <2>2
<1>8. PICK l \in Nat \ {0} : l = n + 1 OBVIOUS
<1>9. ASSUME NEW i \in 1 .. l PROVE w[1 + i] = m[i]
  <2>1. CASE i \in 1 .. n BY <1>3, <1>5, <2>1
  <2>2. CASE i = n + 1
    <3>1. 1 + i = n + 2 BY <2>2
    <3> QED BY <1>3, <1>5, <2>2, <3>1
  <2> QED BY <1>8, <2>1, <2>2
<1>10. \A i \in 1 .. n + 2 : i <= 1 \/ i > 1 + l => i = 1 BY <1>8
<1>11. \A i \in 1 .. Len(w) : i <= 1 \/ i > 1 + l => w[i] = Open BY <1>3, <1>10
<1>12. Len(m) = l /\ m[l] # Open /\ 1 + l <= Len(w) BY <1>3, <1>5, <1>6, <1>8
<1>13. Padded(w, Open, 1, m, l) BY <1>3, <1>5, <1>7, <1>9, <1>11, <1>12 DEF Padded
<1>14. Trim(w, Open) = m BY <1>13, TrimIs
<1> QED BY <1>2, <1>4, <1>14

Unbracketed(text) == Trim(Trim(text, Open), Close)

LEMMA Unbracket ==
    ASSUME NEW u \in Text, u # << >>, u[1] \notin {Open, Close}, u[Len(u)] \notin {Open, Close}
    PROVE  Unbracketed(<< Open >> \o u \o << Close >>) = u
<1>1. PICK n \in Nat : n = Len(u) BY DEF Text
<1>2. n \in Nat \ {0} BY <1>1, EmptySeq DEF Text
<1>3. PICK m : m = Append(u, Close) OBVIOUS
<1>4. m \in Text /\ Len(m) = n + 1 /\ m[n + 1] = Close /\ \A i \in 1 .. n : m[i] = u[i]
  BY <1>1, <1>3, AppendProperties, SignTokens DEF Text
<1>5. Trim(<< Open >> \o u \o << Close >>, Open) = m BY <1>3, TrimOpen
<1>6. \A i \in 1 .. n : m[0 + i] = u[i] BY <1>4
<1>7. \A i \in 1 .. n + 1 : i <= 0 \/ i > 0 + n => i = n + 1 OBVIOUS
<1>8. \A i \in 1 .. Len(m) : i <= 0 \/ i > 0 + n => m[i] = Close BY <1>4, <1>7
<1>9. u[1] # Close /\ u[n] # Close /\ 0 + n <= Len(m) /\ 0 \in Nat BY <1>1, <1>4
<1>10. Padded(m, Close, 0, u, n) BY <1>1, <1>2, <1>4, <1>6, <1>8, <1>9 DEF Padded
<1>11. Trim(m, Close) = u BY <1>10, TrimIs
<1> QED BY <1>5, <1>11 DEF Unbracketed

LEMMA UnbracketNone ==
    ASSUME NEW nil, nil = << >> PROVE Unbracketed(<< Open >> \o nil \o << Close >>) = nil
<1>1. nil \in Text /\ Len(nil) = 0 BY EmptySeq DEF Text
<1>2. PICK m : m = Append(nil, Close) OBVIOUS
<1>3. m \in Text /\ Len(m) = 1 /\ m[1] = Close
  BY <1>1, <1>2, AppendProperties, SignTokens DEF Text
<1>4. Trim(<< Open >> \o nil \o << Close >>, Open) = m BY <1>1, <1>2, TrimOpen
<1>5. \A i \in 1 .. Len(m) : m[i] = Close BY <1>3
<1>6. Trim(m, Close) = nil BY <1>3, <1>5, TrimNone
<1> QED BY <1>4, <1>6 DEF Unbracketed

(* The quotes go, and so do the quotes at the ends of the string.          *)
LEMMA Unquote ==
    ASSUME NEW s \in Text
    PROVE  Trim(Quoted(s), Quote) = s <=> s = << >> \/ (s[1] # Quote /\ s[Len(s)] # Quote)
<1>1. PICK n \in Nat : n = Len(s) BY DEF Text
<1>2. PICK w : w = Quoted(s) OBVIOUS
<1>3. /\ w \in Text /\ Len(w) = n + 2 /\ w[1] = Quote /\ w[n + 2] = Quote
      /\ \A i \in 1 .. n : w[1 + i] = s[i]
  <2>1. w = << Quote >> \o s \o << Quote >> BY <1>2 DEF Quoted
  <2>2. Wraps(w, Quote, s, Quote, Len(s)) BY <2>1, Between, SignTokens
  <2> QED BY <1>1, <2>2 DEF Wraps
<1>4. CASE s = << >>
  <2>1. n = 0 BY <1>1, <1>4
  <2>2. \A i \in 1 .. n + 2 : i = 1 \/ i = n + 2 BY <2>1
  <2>3. \A i \in 1 .. Len(w) : w[i] = Quote BY <1>3, <2>2
  <2>4. Trim(w, Quote) = << >> BY <1>3, <2>3, TrimNone
  <2> QED BY <1>2, <1>4, <2>4
<1>5. CASE s # << >> /\ s[1] # Quote /\ s[Len(s)] # Quote
  <2>1. n \in Nat \ {0} BY <1>1, <1>5, EmptySeq DEF Text
  <2>2. \A i \in 1 .. n + 2 : i <= 1 \/ i > 1 + n => i = 1 \/ i = n + 2 OBVIOUS
  <2>3. \A i \in 1 .. Len(w) : i <= 1 \/ i > 1 + n => w[i] = Quote BY <1>3, <2>2
  <2>4. s[1] # Quote /\ s[n] # Quote /\ 1 + n <= Len(w) /\ 1 \in Nat BY <1>1, <1>3, <1>5
  <2>5. Padded(w, Quote, 1, s, n) BY <1>1, <1>3, <2>1, <2>3, <2>4 DEF Padded
  <2>6. Trim(w, Quote) = s BY <2>5, TrimIs
  <2> QED BY <1>2, <1>5, <2>6
<1>6. CASE s # << >> /\ (s[1] = Quote \/ s[Len(s)] = Quote)
  <2>1. Trim(w, Quote) # s BY <1>3, <1>6, TrimEnds
  <2> QED BY <1>2, <1>6, <2>1
<1> QED BY <1>4, <1>5, <1>6

(* What Read splits an array's text into.                                  *)
Inside(text) == Split(Unbracketed(text))

LEMMA InsideNone ==
    ASSUME NEW nil, nil = << >> PROVE Inside(Bracketed(nil)) = << nil >> /\ Inside(nil) = << nil >>
<1>1. nil \in Text /\ Len(nil) = 0 BY EmptySeq DEF Text
<1>2. Joined(nil, << Comma >>) = nil
  <2>1. PICK sep : sep = << Comma >> OBVIOUS
  <2>2. PICK join : Joins(join, nil, sep, 0) /\ Joined(nil, sep) = join[0] BY <1>1, JoinedSolves
  <2>3. join[0] = Joining(nil, sep, 0, join[0 - 1]) BY <2>2 DEF Joins
  <2> QED BY <2>1, <2>2, <2>3 DEF Joining
<1>3. Unbracketed(Bracketed(nil)) = nil BY <1>2, UnbracketNone DEF Bracketed
<1>4. Unbracketed(nil) = nil
  <2>1. \A t : Trim(nil, t) = nil BY <1>1, TrimNone
  <2> QED BY <2>1 DEF Unbracketed
<1> QED BY <1>3, <1>4, SplitEmpty DEF Inside

LEMMA InsideParts ==
    ASSUME NEW parts \in Seq(Text), NEW n \in Nat \ {0}, n = Len(parts),
           \A i \in 1 .. n : /\ parts[i] # << >> /\ parts[i][1] \notin {Open, Close}
                             /\ parts[i][Len(parts[i])] \notin {Open, Close}
    PROVE  /\ (\A i \in 1 .. n : NoComma(parts[i])) => Inside(Bracketed(parts)) = parts
           /\ (\E i \in 1 .. n : ~NoComma(parts[i])) => Len(Inside(Bracketed(parts))) # n
           /\ Inside(Bracketed(parts)) \in Seq(Text)
<1>1. PICK u : u = Joined(parts, << Comma >>) OBVIOUS
<1>2. \A i \in 1 .. n : parts[i] # << >> OBVIOUS
<1>3. u \in Text /\ u # << >> /\ u[1] = parts[1][1] /\ u[Len(u)] = parts[n][Len(parts[n])]
  BY <1>1, <1>2, JoinedEnds, SMTT(20)
<1>4. 1 \in 1 .. n /\ n \in 1 .. n OBVIOUS
<1>5. u[1] \notin {Open, Close} /\ u[Len(u)] \notin {Open, Close} BY <1>3, <1>4
<1>6. Unbracketed(Bracketed(parts)) = u
  <2>1. Bracketed(parts) = << Open >> \o u \o << Close >> BY <1>1 DEF Bracketed
  <2> QED BY <1>3, <1>5, <2>1, Unbracket
<1>7. Inside(Bracketed(parts)) = Split(u) BY <1>6 DEF Inside
<1>8. (\A i \in 1 .. n : NoComma(parts[i])) => Split(u) = parts BY <1>1, <1>2, SplitJoined
<1>9. ASSUME NEW h \in 1 .. n, ~NoComma(parts[h]) PROVE Len(Split(u)) > n
  BY <1>1, <1>2, <1>9, SplitJoinedMore
<1>10. Split(u) \in Seq(Text) /\ Len(Split(u)) \in Nat BY <1>3, SplitType
<1>11. (\E i \in 1 .. n : ~NoComma(parts[i])) => Len(Split(u)) # n BY <1>9, <1>10
<1> QED BY <1>7, <1>8, <1>10, <1>11

(* Kind by kind: what is stored, what is kept of it, and what is read.     *)
TextAt(k) == IF k \notin DOMAIN rows THEN << >> ELSE rows[k]
IntsIn(parts) ==
    LET good == {i \in 0 .. Len(parts) : \A j \in 1 .. i : IsNumber(parts[j])}
    IN [err |-> Len(parts) \notin good,
        val |-> [i \in DOMAIN parts |-> IF i \in good THEN ParseInt(parts[i]) ELSE 0]]

LEMMA IntsInside == ASSUME NEW text PROVE Ints(text) = IntsIn(Inside(text))
  BY DEF Ints, IntsIn, Inside, Unbracketed

LEMMA ReadBool ==
    ASSUME NEW k
    PROVE  Read(k, "bool") = [err |-> ~IsNumber(TextAt(k)), val |-> ParseInt(TextAt(k)) # 0]
  BY DEF Read, TextAt

LEMMA ReadInt ==
    ASSUME NEW k
    PROVE  Read(k, "int64") = [err |-> ~IsNumber(TextAt(k)), val |-> ParseInt(TextAt(k))]
  BY DEF Read, TextAt

LEMMA ReadString ==
    ASSUME NEW k PROVE Read(k, "string") = [err |-> k \notin DOMAIN rows, val |-> TextAt(k)]
  BY DEF Read, TextAt

LEMMA ReadBools ==
    ASSUME NEW k, NEW ints, ints = IntsIn(Inside(TextAt(k)))
    PROVE  Read(k, "[]bool") = [err |-> ints.err,
                                val |-> IF ints.err THEN << >>
                                        ELSE [i \in DOMAIN ints.val |-> ints.val[i] # 0]]
<1>1. ints = Ints(TextAt(k)) BY IntsInside
<1> QED BY <1>1 DEF Read, TextAt

LEMMA ReadInts == ASSUME NEW k PROVE Read(k, "[]int64") = IntsIn(Inside(TextAt(k)))
<1>1. Ints(TextAt(k)) = IntsIn(Inside(TextAt(k))) BY IntsInside
<1> QED BY <1>1 DEF Read, TextAt

LEMMA ReadStrings ==
    ASSUME NEW k, NEW parts, parts = Inside(TextAt(k))
    PROVE  Read(k, "[]string") = [err |-> k \notin DOMAIN rows,
                                  val |-> [i \in DOMAIN parts |-> Trim(parts[i], Quote)]]
<1>1. Strings(TextAt(k)) = [i \in DOMAIN parts |-> Trim(parts[i], Quote)]
  BY DEF Strings, Inside, Unbracketed
<1> QED BY <1>1 DEF Read, TextAt

LEMMA TextOfKinds ==
    ASSUME NEW v
    PROVE  /\ v.kind = "bool" => TextOf(v) = << BoolToken(v.val) >>
           /\ v.kind = "int64" => TextOf(v) = << TokenOf(v.val) >>
           /\ v.kind = "string" => TextOf(v) = v.val
           /\ v.kind = "[]bool" =>
                TextOf(v) = Bracketed([i \in DOMAIN v.val |-> << BoolToken(v.val[i]) >>])
           /\ v.kind = "[]int64" =>
                TextOf(v) = Bracketed([i \in DOMAIN v.val |-> << TokenOf(v.val[i]) >>])
           /\ v.kind = "[]string" =>
                TextOf(v) = Bracketed([i \in DOMAIN v.val |-> Quoted(v.val[i])])
  BY DEF TextOf

LEMMA Kinds ==
    ASSUME NEW v \in Values
    PROVE  \/ v.kind = "bool" /\ v.val \in BOOLEAN
           \/ v.kind = "int64" /\ v.val \in NumberValues
           \/ v.kind = "string" /\ v.val \in Text
           \/ v.kind = "[]bool" /\ v.val \in Seq(BOOLEAN)
           \/ v.kind = "[]int64" /\ v.val \in Seq(NumberValues)
           \/ v.kind = "[]string" /\ v.val \in Seq(Text)
  BY SysAssumption DEF Of, Arrays, Text

LEMMA Defaults ==
    /\ DefaultOf("[]bool") # << >> /\ DefaultOf("[]int64") # << >>
  BY DEF DefaultOf

LEMMA KindDiffers == /\ "bool" \notin Arrays /\ "int64" \notin Arrays /\ "string" \notin Arrays
                     /\ "[]bool" \in Arrays /\ "[]int64" \in Arrays /\ "[]string" \in Arrays
                     /\ "[]string" \notin {"bool", "int64", "string", "[]bool", "[]int64"}
  BY DEF Arrays

LEMMA BoolTokens ==
    ASSUME NEW b \in BOOLEAN
    PROVE  BoolToken(b) \in DOMAIN Numbers /\ ((Numbers[BoolToken(b)] # 0) <=> b)
  BY SysAssumption DEF BoolToken

LEMMA IntTokens ==
    ASSUME NEW i \in NumberValues PROVE TokenOf(i) \in DOMAIN Numbers /\ Numbers[TokenOf(i)] = i
<1>1. \E t \in DOMAIN Numbers : Numbers[t] = i BY DEF NumberValues
<1> QED BY <1>1, Zenon DEF TokenOf

LEMMA NumberTokens ==
    ASSUME NEW t \in DOMAIN Numbers
    PROVE  t \in Tokens /\ t # Comma /\ t # Open /\ t # Close /\ t # Quote
  BY SysAssumption DEF Signs

LEMMA IsSeq ==
    ASSUME NEW S, NEW n \in Nat, NEW s, s = [i \in 1 .. n |-> s[i]], \A i \in 1 .. n : s[i] \in S
    PROVE  s \in Seq(S) /\ Len(s) = n
<1>1. s \in [1 .. n -> S] OBVIOUS
<1> QED BY <1>1, SeqDef

LEMMA IntsOfNumbers ==
    ASSUME NEW n \in Nat, NEW parts \in Seq(Text), Len(parts) = n, NEW toks,
           \A i \in 1 .. n : parts[i] = << toks[i] >> /\ toks[i] \in DOMAIN Numbers
    PROVE  IntsIn(parts) = [err |-> FALSE, val |-> [i \in 1 .. n |-> Numbers[toks[i]]]]
<1>1. DOMAIN parts = 1 .. n OBVIOUS
<1>2. \A i \in 1 .. n : IsNumber(parts[i]) /\ ParseInt(parts[i]) = Numbers[toks[i]]
  <2> SUFFICES ASSUME NEW i \in 1 .. n
               PROVE  IsNumber(parts[i]) /\ ParseInt(parts[i]) = Numbers[toks[i]]
    OBVIOUS
  <2>1. PICK p, t : p = parts[i] /\ t = toks[i] OBVIOUS
  <2>2. p = << t >> /\ t \in DOMAIN Numbers BY <2>1
  <2>3. Len(p) = 1 /\ p[1] = t BY <2>2
  <2> QED BY <2>1, <2>2, <2>3 DEF IsNumber, ParseInt
<1>3. PICK good : good = {i \in 0 .. n : \A j \in 1 .. i : IsNumber(parts[j])} OBVIOUS
<1>4. \A i \in 0 .. n : \A j \in 1 .. i : j \in 1 .. n OBVIOUS
<1>5. good = 0 .. n BY <1>2, <1>3, <1>4
<1>6. IntsIn(parts) = [err |-> n \notin good,
                       val |-> [i \in 1 .. n |-> IF i \in good THEN ParseInt(parts[i]) ELSE 0]]
  BY <1>1, <1>3 DEF IntsIn
<1>7. n \in good /\ \A i \in 1 .. n : i \in good BY <1>5
<1>8. [i \in 1 .. n |-> IF i \in good THEN ParseInt(parts[i]) ELSE 0]
        = [i \in 1 .. n |-> Numbers[toks[i]]]
  BY <1>2, <1>7
<1> QED BY <1>6, <1>7, <1>8

LEMMA IntsOfNone == ASSUME NEW nil, nil = << >> PROVE IntsIn(<< nil >>).err
<1>1. PICK parts : parts = << nil >> OBVIOUS
<1>2. Len(parts) = 1 /\ parts[1] = nil /\ 1 \in 1 .. 1 BY <1>1
<1>3. ~IsNumber(nil) BY DEF IsNumber
<1>4. PICK good : good = {i \in 0 .. 1 : \A j \in 1 .. i : IsNumber(parts[j])} OBVIOUS
<1>5. 1 \notin good BY <1>2, <1>3, <1>4
<1>6. IntsIn(parts).err =
        (Len(parts) \notin {i \in 0 .. Len(parts) : \A j \in 1 .. i : IsNumber(parts[j])})
  BY DEF IntsIn
<1>7. IntsIn(parts).err = (1 \notin good) BY <1>2, <1>4, <1>6
<1> QED BY <1>1, <1>5, <1>7

(* An array of numbers, each one token.                                    *)
LEMMA NumbersInside ==
    ASSUME NEW n \in Nat \ {0}, NEW toks, \A i \in 1 .. n : toks[i] \in DOMAIN Numbers,
           NEW parts, parts = [i \in 1 .. n |-> << toks[i] >>]
    PROVE  IntsIn(Inside(Bracketed(parts)))
             = [err |-> FALSE, val |-> [i \in 1 .. n |-> Numbers[toks[i]]]]
<1>1. \A i \in 1 .. n : parts[i] = << toks[i] >> OBVIOUS
<1>2. \A i \in 1 .. n : /\ parts[i] \in Text /\ parts[i] # << >> /\ NoComma(parts[i])
                        /\ parts[i][1] \notin {Open, Close}
                        /\ parts[i][Len(parts[i])] \notin {Open, Close}
  <2> SUFFICES ASSUME NEW i \in 1 .. n
               PROVE  /\ parts[i] \in Text /\ parts[i] # << >> /\ NoComma(parts[i])
                      /\ parts[i][1] \notin {Open, Close}
                      /\ parts[i][Len(parts[i])] \notin {Open, Close}
    OBVIOUS
  <2>1. PICK p, t : p = parts[i] /\ t = toks[i] OBVIOUS
  <2>2. p = << t >> /\ t \in Tokens /\ t # Comma /\ t # Open /\ t # Close
    BY <1>1, <2>1, NumberTokens
  <2>3. Len(p) = 1 /\ p[1] = t /\ p \in Text /\ p # << >> BY <2>2 DEF Text
  <2>4. NoComma(p) BY <2>2, <2>3 DEF NoComma
  <2> QED BY <2>1, <2>2, <2>3, <2>4
<1>3. parts \in Seq(Text) /\ Len(parts) = n BY <1>2, IsSeq
<1>4. Inside(Bracketed(parts)) = parts BY <1>2, <1>3, InsideParts
<1>5. \A i \in 1 .. n : parts[i] = << toks[i] >> /\ toks[i] \in DOMAIN Numbers BY <1>1
<1>6. IntsIn(parts) = [err |-> FALSE, val |-> [i \in 1 .. n |-> Numbers[toks[i]]]]
  BY <1>3, <1>5, IntsOfNumbers
<1> QED BY <1>4, <1>6

(* What a getter makes of the text of a value of each kind.                *)
InRow(k, v) == v \in Values /\ k \in DOMAIN rows /\ rows[k] = TextOf(v)
ReadsBack(k, v) ==
    \A def : def = DefaultOf(v.kind) => (Getter(k, v.kind, def) = v.val <=> ~Ambiguous(v))

LEMMA GetterGood ==
    ASSUME NEW k, NEW sort, NEW x, NEW err, ~err, Read(k, sort) = [err |-> err, val |-> x]
    PROVE  \A def : Getter(k, sort, def) = x
<1>1. PICK got : got = [err |-> err, val |-> x] OBVIOUS
<1>2. ~got.err /\ got.val = x BY <1>1
<1> QED BY <1>1, <1>2 DEF Getter

LEMMA BoolReadsBack ==
    ASSUME NEW k, NEW v, InRow(k, v), v.kind = "bool", v.val \in BOOLEAN PROVE ReadsBack(k, v)
<1>1. PICK t, text : t = BoolToken(v.val) /\ text = << t >> OBVIOUS
<1>2. t \in DOMAIN Numbers /\ ((Numbers[t] # 0) <=> v.val) BY <1>1, BoolTokens
<1>3. Len(text) = 1 /\ text[1] = t BY <1>1
<1>4. IsNumber(text) /\ ParseInt(text) = Numbers[t] BY <1>2, <1>3 DEF IsNumber, ParseInt
<1>5. TextAt(k) = text BY <1>1, TextOfKinds DEF InRow, TextAt
<1>6. PICK got : got = [err |-> ~IsNumber(text), val |-> ParseInt(text) # 0] OBVIOUS
<1>7. got.err = FALSE /\ got.val = (ParseInt(text) # 0) BY <1>4, <1>6
<1>8. Read(k, v.kind) = got BY <1>5, <1>6, ReadBool
<1>9. got.val = v.val BY <1>2, <1>4, <1>7
<1>10. \A def : Getter(k, v.kind, def) = v.val BY <1>7, <1>8, <1>9 DEF Getter
<1>11. ~Ambiguous(v) BY KindDiffers DEF Ambiguous
<1> QED BY <1>10, <1>11 DEF ReadsBack

LEMMA IntReadsBack ==
    ASSUME NEW k, NEW v, InRow(k, v), v.kind = "int64", v.val \in NumberValues PROVE ReadsBack(k, v)
<1>1. PICK t, text : t = TokenOf(v.val) /\ text = << t >> OBVIOUS
<1>2. t \in DOMAIN Numbers /\ Numbers[t] = v.val BY <1>1, IntTokens
<1>3. Len(text) = 1 /\ text[1] = t BY <1>1
<1>4. IsNumber(text) /\ ParseInt(text) = Numbers[t] BY <1>2, <1>3 DEF IsNumber, ParseInt
<1>5. TextAt(k) = text BY <1>1, TextOfKinds DEF InRow, TextAt
<1>6. Read(k, v.kind) = [err |-> ~IsNumber(text), val |-> ParseInt(text)] BY <1>5, ReadInt
<1>7. \A def : Getter(k, v.kind, def) = v.val BY <1>2, <1>4, <1>6, GetterGood, ZenonT(30)
<1>8. ~Ambiguous(v) BY KindDiffers DEF Ambiguous
<1> QED BY <1>7, <1>8 DEF ReadsBack

LEMMA StringReadsBack ==
    ASSUME NEW k, NEW v, InRow(k, v), v.kind = "string" PROVE ReadsBack(k, v)
<1>1. TextAt(k) = v.val /\ k \in DOMAIN rows BY TextOfKinds DEF InRow, TextAt
<1>2. Read(k, v.kind) = [err |-> k \notin DOMAIN rows, val |-> v.val] BY <1>1, ReadString
<1>3. \A def : Getter(k, v.kind, def) = v.val BY <1>1, <1>2, GetterGood
<1>4. ~Ambiguous(v) BY KindDiffers DEF Ambiguous
<1> QED BY <1>3, <1>4 DEF ReadsBack

LEMMA BoolsReadBack ==
    ASSUME NEW k, NEW v, InRow(k, v), v.kind = "[]bool", v.val \in Seq(BOOLEAN) PROVE ReadsBack(k, v)
<1>1. PICK n \in Nat : n = Len(v.val) OBVIOUS
<1>2. DOMAIN v.val = 1 .. n BY <1>1
<1>3. PICK toks : toks = [i \in 1 .. n |-> BoolToken(v.val[i])] OBVIOUS
<1>4. PICK parts : parts = [i \in 1 .. n |-> << toks[i] >>] OBVIOUS
<1>5. TextAt(k) = Bracketed(parts)
  <2>1. parts = [i \in DOMAIN v.val |-> << BoolToken(v.val[i]) >>] BY <1>2, <1>3, <1>4
  <2> QED BY <2>1, TextOfKinds DEF InRow, TextAt
<1>6. PICK ints : ints = IntsIn(Inside(Bracketed(parts))) OBVIOUS
<1>7. Read(k, v.kind) = [err |-> ints.err, val |-> IF ints.err THEN << >>
                                                   ELSE [i \in DOMAIN ints.val |-> ints.val[i] # 0]]
  BY <1>5, <1>6, ReadBools
<1>8. CASE n = 0
  <2>1. PICK nil : nil = << >> OBVIOUS
  <2>2. parts = nil BY <1>4, <1>8, <2>1
  <2>3. ints.err
    <3>1. Inside(Bracketed(parts)) = << nil >> BY <2>1, <2>2, InsideNone
    <3>2. IntsIn(<< nil >>).err BY <2>1, IntsOfNone
    <3> QED BY <1>6, <3>1, <3>2
  <2>4. v.val = << >> BY <1>1, <1>8, EmptySeq
  <2>5. \A def : def = DefaultOf(v.kind) => Getter(k, v.kind, def) # v.val
    BY <1>7, <2>3, <2>4, Defaults DEF Getter
  <2>6. Ambiguous(v) BY <2>4, KindDiffers DEF Ambiguous
  <2> QED BY <2>5, <2>6 DEF ReadsBack
<1>9. CASE n # 0
  <2>1. \A i \in 1 .. n : toks[i] \in DOMAIN Numbers /\ ((Numbers[toks[i]] # 0) <=> v.val[i])
    BY <1>1, <1>3, BoolTokens
  <2>2. ints = [err |-> FALSE, val |-> [i \in 1 .. n |-> Numbers[toks[i]]]]
    BY <1>4, <1>6, <1>9, <2>1, NumbersInside
  <2>3. PICK nums : nums = [i \in 1 .. n |-> Numbers[toks[i]]] OBVIOUS
  <2>4. Read(k, v.kind) = [err |-> FALSE, val |-> [i \in 1 .. n |-> nums[i] # 0]]
    BY <1>7, <2>2, <2>3
  <2>5. \A i \in 1 .. n : (nums[i] # 0) = v.val[i] BY <1>1, <2>1, <2>3
  <2>6. v.val = [i \in 1 .. n |-> nums[i] # 0] BY <1>2, <2>5
  <2>7. \A def : Getter(k, v.kind, def) = v.val BY <2>4, <2>6 DEF Getter
  <2>8. v.val # << >> BY <1>1, <1>9
  <2>9. ~Ambiguous(v) BY <2>8, KindDiffers DEF Ambiguous
  <2> QED BY <2>7, <2>9 DEF ReadsBack
<1> QED BY <1>8, <1>9

LEMMA IntsReadBack ==
    ASSUME NEW k, NEW v, InRow(k, v), v.kind = "[]int64", v.val \in Seq(NumberValues)
    PROVE  ReadsBack(k, v)
<1>1. PICK n \in Nat : n = Len(v.val) OBVIOUS
<1>2. DOMAIN v.val = 1 .. n BY <1>1
<1>3. PICK toks : toks = [i \in 1 .. n |-> TokenOf(v.val[i])] OBVIOUS
<1>4. PICK parts : parts = [i \in 1 .. n |-> << toks[i] >>] OBVIOUS
<1>5. TextAt(k) = Bracketed(parts)
  <2>1. parts = [i \in DOMAIN v.val |-> << TokenOf(v.val[i]) >>] BY <1>2, <1>3, <1>4
  <2> QED BY <2>1, TextOfKinds DEF InRow, TextAt
<1>6. Read(k, v.kind) = IntsIn(Inside(Bracketed(parts))) BY <1>5, ReadInts
<1>7. CASE n = 0
  <2>1. PICK nil : nil = << >> OBVIOUS
  <2>2. parts = nil BY <1>4, <1>7, <2>1
  <2>3. Read(k, v.kind).err
    <3>1. Inside(Bracketed(parts)) = << nil >> BY <2>1, <2>2, InsideNone
    <3>2. IntsIn(<< nil >>).err BY <2>1, IntsOfNone
    <3> QED BY <1>6, <3>1, <3>2
  <2>4. v.val = << >> BY <1>1, <1>7, EmptySeq
  <2>5. \A def : def = DefaultOf(v.kind) => Getter(k, v.kind, def) # v.val
    BY <2>3, <2>4, Defaults DEF Getter
  <2>6. Ambiguous(v) BY <2>4, KindDiffers DEF Ambiguous
  <2> QED BY <2>5, <2>6 DEF ReadsBack
<1>8. CASE n # 0
  <2>1. \A i \in 1 .. n : toks[i] \in DOMAIN Numbers /\ Numbers[toks[i]] = v.val[i]
    BY <1>1, <1>3, IntTokens
  <2>2. Read(k, v.kind) = [err |-> FALSE, val |-> [i \in 1 .. n |-> Numbers[toks[i]]]]
    <3>1. \A i \in 1 .. n : toks[i] \in DOMAIN Numbers BY <2>1
    <3> QED BY <1>4, <1>6, <1>8, <3>1, NumbersInside
  <2>3. v.val = [i \in 1 .. n |-> Numbers[toks[i]]] BY <1>2, <2>1
  <2>4. \A def : Getter(k, v.kind, def) = v.val BY <2>2, <2>3 DEF Getter
  <2>5. v.val # << >> BY <1>1, <1>8
  <2>6. ~Ambiguous(v) BY <2>5, KindDiffers DEF Ambiguous
  <2> QED BY <2>4, <2>6 DEF ReadsBack
<1> QED BY <1>7, <1>8

LEMMA QuotedPart ==
    ASSUME NEW s \in Text, NEW w, w = Quoted(s)
    PROVE  /\ w \in Text /\ w # << >> /\ w[1] \notin {Open, Close} /\ w[Len(w)] \notin {Open, Close}
           /\ NoComma(w) <=> \A j \in DOMAIN s : s[j] # Comma
<1>1. PICK n \in Nat : n = Len(s) BY DEF Text
<1>2. DOMAIN s = 1 .. n BY <1>1 DEF Text
<1>3. /\ w \in Text /\ Len(w) = n + 2 /\ w[1] = Quote /\ w[n + 2] = Quote
      /\ \A i \in 1 .. n : w[1 + i] = s[i]
  <2>1. w = << Quote >> \o s \o << Quote >> BY DEF Quoted
  <2>2. Wraps(w, Quote, s, Quote, Len(s)) BY <2>1, Between, SignTokens
  <2> QED BY <1>1, <2>2 DEF Wraps
<1>4. w # << >> BY <1>3
<1>5. Quote \notin {Open, Close} /\ Quote # Comma BY SignsDiffer
<1>6. ASSUME NoComma(w) PROVE \A j \in 1 .. n : s[j] # Comma
  <2>1. \A j \in 1 .. n : 1 + j \in 1 .. n + 2 OBVIOUS
  <2> QED BY <1>3, <1>6, <2>1 DEF NoComma
<1>7. ASSUME \A j \in 1 .. n : s[j] # Comma PROVE NoComma(w)
  <2> SUFFICES ASSUME NEW i \in 1 .. n + 2 PROVE w[i] # Comma BY <1>3 DEF NoComma
  <2>1. CASE i = 1 \/ i = n + 2 BY <1>3, <1>5, <2>1
  <2>2. CASE i # 1 /\ i # n + 2
    <3>1. PICK j \in 1 .. n : j = i - 1 BY <2>2
    <3>2. w[1 + j] = s[j] /\ 1 + j = i BY <1>3, <3>1
    <3> QED BY <1>7, <3>2
  <2> QED BY <2>1, <2>2
<1> QED BY <1>2, <1>3, <1>4, <1>5, <1>6, <1>7

(* A string of an array is told apart from the separators around it.       *)
Plain(s) == s # << >> => s[1] # Quote /\ s[Len(s)] # Quote /\ \A j \in DOMAIN s : s[j] # Comma

QuotedParts(strs) == [i \in DOMAIN strs |-> Quoted(strs[i])]
Unquoted(parts) == [i \in DOMAIN parts |-> Trim(parts[i], Quote)]

LEMMA PlainStrings ==
    ASSUME NEW strs \in Seq(Text), strs # << >>
    PROVE  Unquoted(Inside(Bracketed(QuotedParts(strs)))) = strs
             <=> \A i \in DOMAIN strs : Plain(strs[i])
<1>1. PICK n \in Nat \ {0} : n = Len(strs) /\ DOMAIN strs = 1 .. n BY EmptySeq
<1>2. PICK parts, ins : parts = QuotedParts(strs) /\ ins = Inside(Bracketed(parts)) OBVIOUS
<1>3. parts = [i \in 1 .. n |-> Quoted(strs[i])] BY <1>1, <1>2 DEF QuotedParts
<1>4. \A i \in 1 .. n : strs[i] \in Text BY <1>1
<1>5. \A i \in 1 .. n : parts[i] = Quoted(strs[i]) BY <1>3
<1>6. \A i \in 1 .. n : /\ parts[i] \in Text /\ parts[i] # << >>
                        /\ parts[i][1] \notin {Open, Close}
                        /\ parts[i][Len(parts[i])] \notin {Open, Close}
                        /\ NoComma(parts[i]) <=> \A j \in DOMAIN strs[i] : strs[i][j] # Comma
  BY <1>4, <1>5, QuotedPart
<1>7. parts \in Seq(Text) /\ Len(parts) = n BY <1>3, <1>6, IsSeq
<1>8. /\ (\A i \in 1 .. n : NoComma(parts[i])) => ins = parts
      /\ (\E i \in 1 .. n : ~NoComma(parts[i])) => Len(ins) # n
      /\ ins \in Seq(Text)
  BY <1>2, <1>6, <1>7, InsideParts
<1>9. DOMAIN strs = 1 .. n /\ strs = [i \in 1 .. n |-> strs[i]] BY <1>1
<1>10. CASE \A i \in 1 .. n : NoComma(parts[i])
  <2>1. ins = parts /\ DOMAIN ins = 1 .. n BY <1>7, <1>8, <1>10
  <2>2. PICK got : got = [i \in 1 .. n |-> Trim(ins[i], Quote)] OBVIOUS
  <2>3. Unquoted(ins) = got BY <2>1, <2>2 DEF Unquoted
  <2>4. got = strs <=> \A i \in 1 .. n : Trim(parts[i], Quote) = strs[i] BY <1>9, <2>1, <2>2
  <2>5. ASSUME NEW i \in 1 .. n PROVE Trim(parts[i], Quote) = strs[i] <=> Plain(strs[i])
    <3>1. PICK s \in Text : s = strs[i] BY <1>4
    <3>2. Trim(Quoted(s), Quote) = s <=> s = << >> \/ (s[1] # Quote /\ s[Len(s)] # Quote)
      BY Unquote
    <3>3. \A j \in DOMAIN s : s[j] # Comma BY <1>6, <1>10, <3>1
    <3> QED BY <1>5, <3>1, <3>2, <3>3 DEF Plain
  <2> QED BY <1>2, <1>9, <2>4, <2>5, <2>3
<1>11. CASE \E i \in 1 .. n : ~NoComma(parts[i])
  <2>1. PICK m \in Nat : m = Len(ins) /\ DOMAIN ins = 1 .. m
    <3>1. ins \in Seq(Text) BY <1>8
    <3> QED BY <3>1, LenProperties
  <2>2. m # n BY <1>8, <1>11, <2>1
  <2>3. DOMAIN ins # DOMAIN strs
    <3>1. CASE m < n
      <4>1. n \in 1 .. n /\ n \notin 1 .. m BY <3>1
      <4> QED BY <1>9, <2>1, <4>1
    <3>2. CASE n < m
      <4>1. m \in 1 .. m /\ m \notin 1 .. n BY <3>2
      <4> QED BY <1>9, <2>1, <4>1
    <3> QED BY <2>2, <3>1, <3>2
  <2>4. Unquoted(ins) # strs BY <2>3 DEF Unquoted
  <2>5. PICK i \in 1 .. n : ~NoComma(parts[i]) BY <1>11
  <2>6. PICK s \in Text : s = strs[i] BY <1>4
  <2>7. PICK j \in DOMAIN s : s[j] = Comma BY <1>6, <2>5, <2>6
  <2>8. s # << >> BY <2>7
  <2>9. ~Plain(s) BY <2>7, <2>8 DEF Plain
  <2> QED BY <1>2, <1>9, <2>4, <2>6, <2>9
<1> QED BY <1>10, <1>11

LEMMA StringsReadBack ==
    ASSUME NEW k, NEW v, InRow(k, v), v.kind = "[]string", v.val \in Seq(Text) PROVE ReadsBack(k, v)
<1>1. PICK strs \in Seq(Text) : strs = v.val OBVIOUS
<1>2. PICK n \in Nat : n = Len(strs) OBVIOUS
<1>3. DOMAIN strs = 1 .. n BY <1>2
<1>4. PICK parts : parts = QuotedParts(strs) OBVIOUS
<1>5. PICK ins : ins = Inside(Bracketed(parts)) OBVIOUS
<1>6. TextAt(k) = Bracketed(parts) /\ k \in DOMAIN rows
  <2>1. parts = [i \in DOMAIN v.val |-> Quoted(v.val[i])] BY <1>1, <1>4 DEF QuotedParts
  <2> QED BY <2>1, TextOfKinds DEF InRow, TextAt
<1>7. PICK got : got = [i \in DOMAIN ins |-> Trim(ins[i], Quote)] /\ got = Unquoted(ins)
  BY DEF Unquoted
<1>8. Read(k, v.kind) = [err |-> k \notin DOMAIN rows, val |-> got] BY <1>5, <1>6, <1>7, ReadStrings
<1>9. \A def : Getter(k, v.kind, def) = got BY <1>6, <1>8, GetterGood
<1>10. CASE n = 0
  <2>1. PICK nil : nil = << >> OBVIOUS
  <2>2. parts = nil BY <1>3, <1>4, <1>10, <2>1 DEF QuotedParts
  <2>3. ins = << nil >> BY <1>5, <2>1, <2>2, InsideNone
  <2>4. 1 \in DOMAIN ins BY <2>3
  <2>5. 1 \notin DOMAIN strs BY <1>3, <1>10
  <2>6. got # strs BY <1>7, <2>4, <2>5
  <2>7. v.val = << >> BY <1>1, <1>2, <1>10, EmptySeq
  <2>8. Ambiguous(v) BY <2>7, KindDiffers DEF Ambiguous
  <2> QED BY <1>1, <1>9, <2>6, <2>8 DEF ReadsBack
<1>11. CASE n # 0
  <2>1. strs # << >> BY <1>2, <1>11
  <2>2. got = strs <=> \A i \in 1 .. n : Plain(strs[i])
    BY <1>3, <1>4, <1>5, <1>7, <2>1, PlainStrings
  <2>3. Ambiguous(v) <=> ~(\A i \in 1 .. n : Plain(strs[i]))
    BY <1>1, <1>3, <2>1 DEF Ambiguous, Plain
  <2> QED BY <1>1, <1>9, <2>2, <2>3 DEF ReadsBack
<1> QED BY <1>10, <1>11

LEMMA GetterBad ==
    ASSUME NEW k, NEW sort, NEW x, NEW err, err, Read(k, sort) = [err |-> err, val |-> x]
    PROVE  \A def : Getter(k, sort, def) = def
<1>1. PICK got : got = [err |-> err, val |-> x] OBVIOUS
<1>2. got.err BY <1>1
<1> QED BY <1>1, <1>2 DEF Getter

(* Without a row there is no number and no text, and always an error.      *)
LEMMA MissingReads ==
    ASSUME NEW k, k \notin DOMAIN rows, NEW v \in Values
    PROVE  \A def : Getter(k, v.kind, def) = def
<1>1. PICK nil : nil = << >> OBVIOUS
<1>2. TextAt(k) = nil /\ ~IsNumber(nil) BY <1>1 DEF TextAt, IsNumber
<1>3. PICK ints : ints = IntsIn(Inside(TextAt(k))) /\ ints.err
  <2>1. Inside(TextAt(k)) = << nil >> BY <1>1, <1>2, InsideNone
  <2>2. IntsIn(<< nil >>).err BY <1>1, IntsOfNone
  <2> QED BY <2>1, <2>2
<1>4. CASE v.kind = "bool"
  <2>1. PICK err, x : err /\ err = (~IsNumber(TextAt(k))) /\ x = (ParseInt(TextAt(k)) # 0) BY <1>2
  <2>2. Read(k, v.kind) = [err |-> err, val |-> x] BY <1>4, <2>1, ReadBool
  <2> QED BY <2>1, <2>2, GetterBad
<1>5. CASE v.kind = "int64"
  <2>1. PICK err, x : err /\ err = (~IsNumber(TextAt(k))) /\ x = ParseInt(TextAt(k)) BY <1>2
  <2>2. Read(k, v.kind) = [err |-> err, val |-> x] BY <1>5, <2>1, ReadInt
  <2> QED BY <2>1, <2>2, GetterBad
<1>6. CASE v.kind = "string"
  <2>1. PICK err, x : err /\ err = (k \notin DOMAIN rows) /\ x = TextAt(k) BY Zenon
  <2>2. Read(k, v.kind) = [err |-> err, val |-> x] BY <1>6, <2>1, ReadString
  <2> QED BY <2>1, <2>2, GetterBad
<1>7. CASE v.kind = "[]string"
  <2>1. PICK err, parts : err /\ err = (k \notin DOMAIN rows) /\ parts = Inside(TextAt(k)) BY Zenon
  <2>2. PICK x : x = [i \in DOMAIN parts |-> Trim(parts[i], Quote)] OBVIOUS
  <2>3. Read(k, v.kind) = [err |-> err, val |-> x] BY <1>7, <2>1, <2>2, ReadStrings
  <2> QED BY <2>1, <2>3, GetterBad
<1>8. CASE v.kind = "[]bool" BY <1>3, <1>8, ReadBools, GetterBad
<1>9. CASE v.kind = "[]int64"
  <2>1. Read(k, v.kind).err BY <1>3, <1>9, ReadInts
  <2> QED BY <2>1 DEF Getter
<1> QED BY <1>4, <1>5, <1>6, <1>7, <1>8, <1>9, Kinds

(* The text of a value is text.                                            *)
LEMMA BracketedIsText ==
    ASSUME NEW n \in Nat, NEW parts \in Seq(Text), Len(parts) = n, \A i \in 1 .. n : parts[i] # << >>
    PROVE  Bracketed(parts) \in Text
<1>1. PICK u : u = Joined(parts, << Comma >>) OBVIOUS
<1>2. u \in Text
  <2>1. CASE n = 0
    <3>1. PICK join : Joins(join, parts, << Comma >>, 0) /\ u = join[0] BY <1>1, <2>1, JoinedSolves
    <3>2. 0 \in 0 .. 0 OBVIOUS
    <3>3. join[0] = Joining(parts, << Comma >>, 0, join[0 - 1]) BY <3>1, <3>2 DEF Joins
    <3>4. u = << >> BY <3>1, <3>3 DEF Joining
    <3> QED BY <3>4 DEF Text
  <2>2. CASE n # 0
    <3>1. PICK join : JoinGrows(join, parts, n) /\ join[n] = u BY <1>1, <2>2, JoinedGrows
    <3>2. n \in 1 .. n BY <2>2
    <3> QED BY <3>1, <3>2 DEF JoinGrows
  <2> QED BY <2>1, <2>2
<1>3. PICK w : w = << Open >> \o u \o << Close >> OBVIOUS
<1>4. Wraps(w, Open, u, Close, Len(u)) BY <1>2, <1>3, Between, SignTokens
<1> QED BY <1>1, <1>3, <1>4 DEF Bracketed, Wraps

LEMMA TokensBracketed ==
    ASSUME NEW n \in Nat, NEW toks, \A i \in 1 .. n : toks[i] \in DOMAIN Numbers
    PROVE  Bracketed([i \in 1 .. n |-> << toks[i] >>]) \in Text
<1>1. PICK parts : parts = [i \in 1 .. n |-> << toks[i] >>] OBVIOUS
<1>2. \A i \in 1 .. n : parts[i] = << toks[i] >> BY <1>1
<1>3. ASSUME NEW i \in 1 .. n PROVE parts[i] \in Text /\ parts[i] # << >>
  <2>1. PICK p, t : p = parts[i] /\ t = toks[i] OBVIOUS
  <2>2. p = << t >> /\ t \in Tokens BY <1>2, <2>1, NumberTokens
  <2> QED BY <2>1, <2>2 DEF Text
<1>4. parts \in Seq(Text) /\ Len(parts) = n BY <1>1, <1>3, IsSeq
<1> QED BY <1>1, <1>3, <1>4, BracketedIsText

LEMMA TextIsText == ASSUME NEW v \in Values PROVE TextOf(v) \in Text
<1>1. CASE v.kind = "bool" /\ v.val \in BOOLEAN
  <2>1. PICK t : t = BoolToken(v.val) /\ t \in Tokens BY <1>1, BoolTokens, NumberTokens
  <2>2. TextOf(v) = << t >> BY <1>1, <2>1, TextOfKinds
  <2> QED BY <2>1, <2>2 DEF Text
<1>2. CASE v.kind = "int64" /\ v.val \in NumberValues
  <2>1. PICK t : t = TokenOf(v.val) /\ t \in Tokens BY <1>2, IntTokens, NumberTokens
  <2>2. TextOf(v) = << t >> BY <1>2, <2>1, TextOfKinds
  <2> QED BY <2>1, <2>2 DEF Text
<1>3. CASE v.kind = "string" /\ v.val \in Text BY <1>3, TextOfKinds
<1>4. CASE v.kind = "[]bool" /\ v.val \in Seq(BOOLEAN)
  <2>1. PICK vals \in Seq(BOOLEAN) : vals = v.val BY <1>4
  <2>2. PICK n \in Nat : DOMAIN vals = 1 .. n BY LenProperties
  <2>3. PICK toks : toks = [i \in 1 .. n |-> BoolToken(vals[i])] OBVIOUS
  <2>4. \A i \in 1 .. n : toks[i] \in DOMAIN Numbers BY <2>1, <2>2, <2>3, BoolTokens
  <2>5. [i \in 1 .. n |-> << BoolToken(vals[i]) >>] = [i \in 1 .. n |-> << toks[i] >>] BY <2>3
  <2>6. TextOf(v) = Bracketed([i \in 1 .. n |-> << BoolToken(vals[i]) >>])
    BY <1>4, <2>1, <2>2, TextOfKinds
  <2>7. Bracketed([i \in 1 .. n |-> << toks[i] >>]) \in Text BY <2>4, TokensBracketed
  <2> QED BY <2>5, <2>6, <2>7, Zenon
<1>5. CASE v.kind = "[]int64" /\ v.val \in Seq(NumberValues)
  <2>1. PICK vals \in Seq(NumberValues) : vals = v.val BY <1>5
  <2>2. PICK n \in Nat : DOMAIN vals = 1 .. n BY LenProperties
  <2>3. PICK toks : toks = [i \in 1 .. n |-> TokenOf(vals[i])] OBVIOUS
  <2>4. \A i \in 1 .. n : toks[i] \in DOMAIN Numbers BY <2>1, <2>2, <2>3, IntTokens
  <2>5. [i \in 1 .. n |-> << TokenOf(vals[i]) >>] = [i \in 1 .. n |-> << toks[i] >>] BY <2>3
  <2>6. TextOf(v) = Bracketed([i \in 1 .. n |-> << TokenOf(vals[i]) >>])
    BY <1>5, <2>1, <2>2, TextOfKinds
  <2>7. Bracketed([i \in 1 .. n |-> << toks[i] >>]) \in Text BY <2>4, TokensBracketed
  <2> QED BY <2>5, <2>6, <2>7, Zenon
<1>6. CASE v.kind = "[]string" /\ v.val \in Seq(Text)
  <2>1. PICK strs \in Seq(Text) : strs = v.val BY <1>6
  <2>2. PICK n \in Nat : DOMAIN strs = 1 .. n BY LenProperties
  <2>3. PICK parts : parts = [i \in 1 .. n |-> Quoted(strs[i])] OBVIOUS
  <2>4. \A i \in 1 .. n : strs[i] \in Text BY <2>1, <2>2
  <2>5. \A i \in 1 .. n : parts[i] \in Text /\ parts[i] # << >> BY <2>3, <2>4, QuotedPart
  <2>6. parts \in Seq(Text) /\ Len(parts) = n BY <2>3, <2>5, IsSeq
  <2>7. TextOf(v) = Bracketed(parts) BY <1>6, <2>1, <2>2, <2>3, TextOfKinds
  <2> QED BY <2>5, <2>6, <2>7, BracketedIsText
<1> QED BY <1>1, <1>2, <1>3, <1>4, <1>5, <1>6, Kinds

(* What a literal is read as: the recursion of Lexed has a solution, which *)
(* keeps what it has read for as long as there is nothing special in it    *)
(* and is shorter from there on.                                           *)
LexStart == [mode |-> "in", by |-> Apostrophe, value |-> << >>]
Lexing(text, i, l) == IF i = 0 THEN LexStart ELSE Lex(l, text[i])
Lexes(lex, text, m) == lex = [i \in 0 .. m |-> Lexing(text, i, lex[i - 1])]

LEMMA LexesExist == ASSUME NEW text, NEW m \in Nat PROVE \E lex : Lexes(lex, text, m)
<1> DEFINE T == {l \in Nat : \E lex : Lexes(lex, text, l)}
<1>1. 0 \in T
  <2>1. PICK lex : lex = [n \in 0 .. 0 |-> LexStart] OBVIOUS
  <2>2. \A n \in 0 .. 0 : Lexing(text, n, lex[n - 1]) = LexStart BY DEF Lexing
  <2>3. Lexes(lex, text, 0) BY <2>1, <2>2 DEF Lexes
  <2> QED BY <2>3
<1>2. ASSUME NEW l \in Nat, l \in T PROVE l + 1 \in T
  <2>1. PICK f : Lexes(f, text, l) BY <1>2
  <2>2. PICK g : g = [n \in 0 .. l + 1 |->
                        Lexing(text, n, IF n - 1 \in 0 .. l THEN f[n - 1] ELSE 0)]
    OBVIOUS
  <2>3. \A n \in 0 .. l : n - 1 \in 0 .. l \/ n = 0 OBVIOUS
  <2>4. \A r, q : Lexing(text, 0, r) = Lexing(text, 0, q) BY DEF Lexing
  <2>5. ASSUME NEW n \in 0 .. l PROVE g[n] = f[n]
    <3>1. f[n] = Lexing(text, n, f[n - 1]) BY <2>1 DEF Lexes
    <3>2. g[n] = Lexing(text, n, IF n - 1 \in 0 .. l THEN f[n - 1] ELSE 0) BY <2>2
    <3> QED BY <2>3, <2>4, <3>1, <3>2
  <2>6. ASSUME NEW n \in 0 .. l + 1 PROVE g[n] = Lexing(text, n, g[n - 1])
    <3>1. g[n] = Lexing(text, n, IF n - 1 \in 0 .. l THEN f[n - 1] ELSE 0) BY <2>2
    <3>2. CASE n = 0 BY <2>4, <3>1, <3>2
    <3>3. CASE n # 0
      <4>1. n - 1 \in 0 .. l BY <3>3
      <4>2. g[n - 1] = f[n - 1] BY <2>5, <4>1
      <4> QED BY <3>1, <4>1, <4>2
    <3> QED BY <3>2, <3>3
  <2>7. Lexes(g, text, l + 1) BY <2>2, <2>6 DEF Lexes
  <2> QED BY <2>7
<1>3. Nat \subseteq T
  <2> HIDE DEF T
  <2> QED BY <1>1, <1>2, SetInduction
<1> QED BY <1>3

LEMMA LexedSolves ==
    ASSUME NEW text, Len(text) \in Nat
    PROVE  \E lex : Lexes(lex, text, Len(text)) /\ Lexed(text) = lex[Len(text)]
<1> DEFINE lex == CHOOSE f : Lexes(f, text, Len(text))
<1>1. Lexed(text) = lex[Len(text)] BY DEF Lexed, Lexes, Lexing, LexStart
<1>2. Lexes(lex, text, Len(text))
  <2>1. \E f : Lexes(f, text, Len(text)) BY LexesExist
  <2> QED BY <2>1, Zenon
<1> QED BY <1>1, <1>2

LexModes == {"in", "end", "escape", "error"}
LexRecord == [mode : LexModes, by : Marks, value : Text]

(* One more token leaves the value as it is or makes it one token longer,  *)
(* and what a token without a meaning of its own makes of it in a literal. *)
LEMMA LexStep ==
    ASSUME NEW l \in LexRecord, NEW t \in Tokens, NEW r, r = Lex(l, t)
    PROVE  /\ r \in LexRecord
           /\ r.value = l.value \/ \E e \in Tokens : r.value = Append(l.value, e)
           /\ l.mode = "in" /\ l.by = Apostrophe /\ t \notin Specials =>
                r.mode = "in" /\ r.by = Apostrophe /\ r.value = Append(l.value, t)
           /\ l.mode = "in" /\ l.by = Apostrophe /\ t \in Specials => r.value = l.value
<1>1. PICK mode \in LexModes, by \in Marks, value \in Text :
         l = [mode |-> mode, by |-> by, value |-> value]
  BY DEF LexRecord
<1>2. l.mode = mode /\ l.by = by /\ l.value = value BY <1>1
<1>3. PICK e \in Tokens : e = Escapes[t] BY SysAssumption
<1>4. Append(value, t) \in Text /\ Append(value, e) \in Text BY AppendProperties DEF Text
<1>5. Backslash # Apostrophe /\ Backslash # Quote BY Zenon DEF Quote, Apostrophe, Backslash
<1>6. \/ r = [mode |-> "end", by |-> by, value |-> value] /\ mode = "in" /\ t = by
      \/ r = [mode |-> "escape", by |-> by, value |-> value] /\ mode = "in" /\ t = Backslash
      \/ r = [mode |-> "in", by |-> by, value |-> Append(value, t)] /\ mode = "in"
           /\ t \notin {by, Backslash}
      \/ r = [mode |-> "in", by |-> by, value |-> Append(value, e)] /\ mode = "escape"
      \/ r = [mode |-> "in", by |-> by, value |-> Append(value, t)] /\ mode = "end"
      \/ r = [mode |-> "in", by |-> t, value |-> value] /\ mode = "end" /\ t \in Marks
      \/ r = [mode |-> "error", by |-> by, value |-> value] /\ mode # "in"
  <2>1. CASE mode = "in" /\ t = by
    <3>1. l.mode = "in" /\ t = l.by BY <1>2, <2>1
    <3>2. t # Backslash BY <1>5, <2>1 DEF Marks
    <3>3. r = [l EXCEPT !.mode = "end"] BY <3>1, <3>2 DEF Lex
    <3> QED BY <1>1, <2>1, <3>3
  <2>2. CASE mode = "in" /\ t # by /\ t = Backslash
    <3>1. r = [l EXCEPT !.mode = "escape"] BY <1>2, <2>2 DEF Lex
    <3> QED BY <1>1, <2>2, <3>1
  <2>3. CASE mode = "in" /\ t \notin {by, Backslash}
    <3>1. r = [l EXCEPT !.value = Append(@, t)] BY <1>2, <2>3 DEF Lex
    <3> QED BY <1>1, <2>3, <3>1
  <2>4. CASE mode = "escape"
    <3>1. r = [l EXCEPT !.mode = "in", !.value = Append(@, e)] BY <1>2, <1>3, <2>4 DEF Lex
    <3> QED BY <1>1, <2>4, <3>1
  <2>5. CASE mode = "end" /\ t = by
    <3>1. r = [l EXCEPT !.mode = "in", !.value = Append(@, t)] BY <1>2, <2>5 DEF Lex
    <3> QED BY <1>1, <2>5, <3>1
  <2>6. CASE mode = "end" /\ t \in Marks \ {by}
    <3>1. r = [l EXCEPT !.mode = "in", !.by = t] BY <1>2, <2>6 DEF Lex
    <3> QED BY <1>1, <2>6, <3>1
  <2>7. CASE mode = "error" \/ (mode = "end" /\ t \notin Marks \cup {by})
    <3>1. r = [l EXCEPT !.mode = "error"] BY <1>2, <2>7 DEF Lex
    <3> QED BY <1>1, <2>7, <3>1
  <2> QED BY <2>1, <2>2, <2>3, <2>4, <2>5, <2>6, <2>7 DEF LexModes
<1>7. r \in LexRecord
  <2> DEFINE Rec(m, b, w) == [mode |-> m, by |-> b, value |-> w]
  <2>1. \A m \in LexModes, b \in Marks, w \in Text : Rec(m, b, w) \in LexRecord BY DEF LexRecord
  <2>2. "in" \in LexModes /\ "end" \in LexModes /\ "escape" \in LexModes /\ "error" \in LexModes
    BY DEF LexModes
  <2> QED BY <1>4, <1>6, <2>1, <2>2
<1>8. r.value = value \/ \E x \in Tokens : r.value = Append(value, x) BY <1>6
<1>9. mode = "in" /\ by = Apostrophe /\ t \notin Specials =>
        r.mode = "in" /\ r.by = Apostrophe /\ r.value = Append(value, t)
  BY <1>6 DEF Specials
<1>10. mode = "in" /\ by = Apostrophe /\ t \in Specials => r.value = value
  BY <1>6 DEF Specials
<1> QED BY <1>2, <1>7, <1>8, <1>9, <1>10

ReadSo(l, text, i) == /\ l.mode = "in" /\ l.by = Apostrophe /\ Len(l.value) = i
                       /\ \A j \in 1 .. i : l.value[j] = text[j]
Quiet(text, i) == \A j \in 1 .. i : text[j] \notin Specials
LexedSo(l, text, i) == /\ l \in LexRecord
                       /\ Quiet(text, i) => ReadSo(l, text, i)
                       /\ ~Quiet(text, i) => Len(l.value) < i

LEMMA LexedMore ==
    ASSUME NEW text \in Text, NEW i \in Nat, i + 1 <= Len(text), NEW l, LexedSo(l, text, i)
    PROVE  LexedSo(Lex(l, text[i + 1]), text, i + 1)
<1>1. PICK t \in Tokens : t = text[i + 1] BY DEF Text
<1>2. PICK r : r = Lex(l, t) OBVIOUS
<1>3. l \in LexRecord BY DEF LexedSo
<1>4. PICK value \in Text : value = l.value BY <1>3 DEF LexRecord
<1>5. PICK n \in Nat : n = Len(value) BY DEF Text
<1>6. \A e \in Tokens : /\ Len(Append(value, e)) = n + 1 /\ Append(value, e)[n + 1] = e
                        /\ \A j \in 1 .. n : Append(value, e)[j] = value[j]
  BY <1>5, AppendProperties DEF Text
<1>7. /\ r \in LexRecord
      /\ r.value = l.value \/ \E e \in Tokens : r.value = Append(l.value, e)
      /\ l.mode = "in" /\ l.by = Apostrophe /\ t \notin Specials =>
           r.mode = "in" /\ r.by = Apostrophe /\ r.value = Append(l.value, t)
      /\ l.mode = "in" /\ l.by = Apostrophe /\ t \in Specials => r.value = l.value
  BY <1>2, <1>3, LexStep, ZenonT(30)
<1>8. Len(r.value) = n \/ Len(r.value) = n + 1
  <2>1. r.value = value \/ \E e \in Tokens : r.value = Append(value, e)
    BY <1>4, <1>7
  <2> QED BY <1>5, <1>6, <2>1
<1>9. i + 1 \in 1 .. i + 1 /\ \A j \in 1 .. i + 1 : j \in 1 .. i \/ j = i + 1 OBVIOUS
<1>10. Quiet(text, i + 1) <=> Quiet(text, i) /\ t \notin Specials
  <2>1. \A j \in 1 .. i : j \in 1 .. i + 1 OBVIOUS
  <2> QED BY <1>1, <1>9, <2>1 DEF Quiet
<1>11. CASE Quiet(text, i) /\ t \notin Specials
  <2>1. l.mode = "in" /\ l.by = Apostrophe /\ n = i /\ \A j \in 1 .. i : value[j] = text[j]
    BY <1>4, <1>5, <1>11 DEF LexedSo, ReadSo
  <2>2. r.mode = "in" /\ r.by = Apostrophe /\ r.value = Append(value, t)
    BY <1>4, <1>7, <1>11, <2>1
  <2>3. PICK w : w = r.value OBVIOUS
  <2>4. Len(w) = i + 1 /\ w[i + 1] = t /\ \A j \in 1 .. i : w[j] = text[j]
    BY <1>6, <2>1, <2>2, <2>3
  <2>5. \A j \in 1 .. i + 1 : w[j] = text[j] BY <1>1, <1>9, <2>4
  <2>6. ReadSo(r, text, i + 1) BY <2>2, <2>3, <2>4, <2>5 DEF ReadSo
  <2> QED BY <1>1, <1>2, <1>7, <1>10, <1>11, <2>6 DEF LexedSo
<1>12. CASE Quiet(text, i) /\ t \in Specials
  <2>1. l.mode = "in" /\ l.by = Apostrophe /\ n = i BY <1>4, <1>5, <1>12 DEF LexedSo, ReadSo
  <2>2. r.value = value BY <1>4, <1>7, <1>12, <2>1
  <2>3. Len(r.value) = n BY <1>5, <2>2
  <2>4. Len(r.value) < i + 1 BY <2>1, <2>3
  <2> QED BY <1>1, <1>2, <1>7, <1>10, <1>12, <2>4 DEF LexedSo
<1>13. CASE ~Quiet(text, i)
  <2>1. n < i BY <1>4, <1>5, <1>13 DEF LexedSo
  <2>2. Len(r.value) < i + 1 BY <1>8, <2>1
  <2> QED BY <1>1, <1>2, <1>7, <1>10, <1>13, <2>2 DEF LexedSo
<1> QED BY <1>11, <1>12, <1>13

LEMMA LexedIs == ASSUME NEW text \in Text PROVE LexedSo(Lexed(text), text, Len(text))
<1>1. PICK m \in Nat : m = Len(text) BY DEF Text
<1>2. PICK lex : Lexes(lex, text, m) /\ Lexed(text) = lex[m] BY <1>1, LexedSolves
<1> DEFINE T == {i \in Nat : i <= m => LexedSo(lex[i], text, i)}
<1>3. 0 \in T
  <2>1. 0 \in 0 .. m OBVIOUS
  <2>2. lex[0] = Lexing(text, 0, lex[0 - 1]) BY <1>2, <2>1 DEF Lexes
  <2>3. PICK l, nil : l = lex[0] /\ nil = << >> OBVIOUS
  <2>4. l = [mode |-> "in", by |-> Apostrophe, value |-> nil]
    BY <2>2, <2>3 DEF Lexing, LexStart
  <2>5. nil \in Text /\ Len(nil) = 0 BY <2>3 DEF Text
  <2>6. l \in LexRecord BY <2>4, <2>5 DEF LexRecord, LexModes, Marks
  <2>7. l.mode = "in" /\ l.by = Apostrophe /\ l.value = nil BY <2>4
  <2>8. \A j \in 1 .. 0 : FALSE OBVIOUS
  <2>9. Quiet(text, 0) BY <2>8 DEF Quiet
  <2>10. ReadSo(l, text, 0) BY <2>5, <2>7, <2>8 DEF ReadSo
  <2> QED BY <2>3, <2>6, <2>9, <2>10 DEF LexedSo
<1>4. ASSUME NEW i \in Nat, i \in T PROVE i + 1 \in T
  <2> SUFFICES ASSUME i + 1 <= m PROVE LexedSo(lex[i + 1], text, i + 1) OBVIOUS
  <2>1. i + 1 \in 0 .. m /\ i + 1 # 0 /\ (i + 1) - 1 = i OBVIOUS
  <2>2. PICK l : l = lex[i] /\ LexedSo(l, text, i) BY <1>4
  <2>3. lex[i + 1] = Lexing(text, i + 1, l) BY <1>2, <2>1, <2>2 DEF Lexes
  <2>4. lex[i + 1] = Lex(l, text[i + 1]) BY <2>1, <2>3 DEF Lexing
  <2>5. i + 1 <= Len(text) BY <1>1
  <2> QED BY <2>2, <2>4, <2>5, LexedMore
<1>5. Nat \subseteq T
  <2> HIDE DEF T
  <2> QED BY <1>3, <1>4, SetInduction
<1> QED BY <1>1, <1>2, <1>5

(* A text with nothing special is a literal for itself, and no other text  *)
(* is.                                                                     *)
LEMMA LiteralsOwn ==
    ASSUME NEW text \in Text
    PROVE  IF HasSpecial(text) THEN Lexed(text).value # text ELSE Lexed(text).value = text
<1>1. PICK m \in Nat : m = Len(text) /\ DOMAIN text = 1 .. m BY LenProperties DEF Text
<1>2. PICK l : l = Lexed(text) OBVIOUS
<1>3. LexedSo(l, text, m) BY <1>1, <1>2, LexedIs
<1>4. PICK w \in Text : w = l.value BY <1>3 DEF LexedSo, LexRecord
<1>5. Quiet(text, m) <=> ~HasSpecial(text) BY <1>1 DEF Quiet, HasSpecial
<1>6. CASE HasSpecial(text)
  <2>1. Len(w) < m BY <1>3, <1>4, <1>5, <1>6 DEF LexedSo
  <2>2. w # text BY <1>1, <2>1
  <2> QED BY <1>2, <1>4, <1>6, <2>2
<1>7. CASE ~HasSpecial(text)
  <2>1. Len(w) = m /\ \A j \in 1 .. m : w[j] = text[j]
    BY <1>3, <1>4, <1>5, <1>7 DEF LexedSo, ReadSo
  <2>2. w = text BY <1>1, <2>1 DEF Text
  <2> QED BY <1>2, <1>4, <1>7, <2>2
<1> QED BY <1>6, <1>7

(* A row stored to without an error holds what the literal is read as.     *)
SysInv == /\ DOMAIN rows = RowKeys
          /\ stored # << >> => /\ stored[2] \in Values
                               /\ stored[1] \in RowKeys /\ ~stored[3] =>
                                    rows[stored[1]] = Lexed(TextOf(stored[2])).value

LEMMA SysInductive == SysInv /\ [SysNext]_sysVars => SysInv'
<1> SUFFICES ASSUME SysInv, [SysNext]_sysVars PROVE SysInv' OBVIOUS
<1>1. ASSUME NEW k \in SysKeys, NEW v \in Values, Store(k, v) PROVE SysInv'
  <2>1. PICK text : text = Lexed(TextOf(v)).value OBVIOUS
  <2>2. DOMAIN rows = RowKeys BY DEF SysInv
  <2>3. PICK err \in BOOLEAN : /\ stored' = << k, v, err >>
                               /\ rows' = UpdateRow(k, text) \/ (err /\ rows' = rows)
    BY <1>1, <2>1 DEF Store
  <2>4. stored'[1] = k /\ stored'[2] = v /\ stored'[3] = err
    <3>1. PICK st : st = stored' OBVIOUS
    <3>2. st = << k, v, err >> BY <2>3, <3>1
    <3>3. st[1] = k /\ st[2] = v BY <3>2
    <3>4. st[3] = err BY <3>2
    <3> QED BY <3>1, <3>3, <3>4
  <2>5. /\ DOMAIN UpdateRow(k, text) = RowKeys
        /\ k \in RowKeys => UpdateRow(k, text)[k] = text
    BY <2>2 DEF UpdateRow
  <2>6. DOMAIN rows' = RowKeys /\ (k \in RowKeys /\ ~err => rows'[k] = text) BY <2>2, <2>3, <2>5
  <2> QED BY <2>1, <2>4, <2>6 DEF SysInv
<1>2. ASSUME UNCHANGED sysVars PROVE SysInv' BY <1>2 DEF SysInv, sysVars
<1> QED BY <1>1, <1>2 DEF SysNext

LEMMA InvReadsBack == SysInv => ReadBack
<1> SUFFICES ASSUME SysInv, stored # << >>,
                    NEW k, k = stored[1], NEW v, v = stored[2], NEW err, err = stored[3],
                    NEW def, def = DefaultOf(v.kind)
             PROVE  IF k \notin RowKeys THEN Getter(k, v.kind, def) = def
                    ELSE ~err => IF HasSpecial(TextOf(v)) THEN rows[k] # TextOf(v)
                                 ELSE (Getter(k, v.kind, def) = v.val) <=> ~Ambiguous(v)
  BY DEF ReadBack
<1>1. v \in Values /\ DOMAIN rows = RowKeys BY DEF SysInv
<1>2. k \in RowKeys /\ ~err => rows[k] = Lexed(TextOf(v)).value BY DEF SysInv
<1>3. PICK text \in Text : text = TextOf(v) BY <1>1, TextIsText
<1>4. CASE k \notin RowKeys BY <1>1, <1>4, MissingReads, SMTT(20)
<1>5. CASE k \in RowKeys /\ ~err /\ HasSpecial(text)
  <2>1. rows[k] # text BY <1>2, <1>3, <1>5, LiteralsOwn
  <2> QED BY <1>3, <1>5, <2>1
<1>6. CASE k \in RowKeys /\ ~err /\ ~HasSpecial(text)
  <2>1. rows[k] = text BY <1>2, <1>3, <1>6, LiteralsOwn
  <2>2. InRow(k, v) BY <1>1, <1>3, <1>6, <2>1 DEF InRow
  <2>3. ReadsBack(k, v)
    BY <1>1, <2>2, Kinds, BoolReadsBack, IntReadsBack, StringReadsBack, BoolsReadBack,
       IntsReadBack, StringsReadBack
  <2> QED BY <1>3, <1>6, <2>3 DEF ReadsBack
<1> QED BY <1>3, <1>4, <1>5, <1>6

(* What is stored without an error is read back, but for what its text     *)
(* does not tell apart, and a text that MySQL would read in another way is *)
(* never kept as it is (Store, Read and the getters of config.go).         *)
THEOREM StoredIsRead == SysSpec => []ReadBack
<1>1. SysInit => SysInv BY DEF SysInit, SysInv
<1> QED BY <1>1, SysInductive, InvReadsBack, PTL DEF SysSpec
=============================================================================
