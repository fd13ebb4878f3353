-------------------------------- MODULE SqlTx --------------------------------
(***************************************************************************)
(* Writing to MySQL: a transaction of several statements, ended by EndTx   *)
(* (mysqlpool.go), by SqlTxProc or CloseSqlxTx (sql_api_tx.go,             *)
(* sqlx_api_tx.go) or by EndXormTx (mysql_xorm.go); BatchExec, which does  *)
(* all of it; and SqlValuesInsertBatch (sql_api.go), which inserts an      *)
(* array piece by piece without one.                                       *)
(*                                                                         *)
(* A behaviour is one such operation: each has a connection of its own and *)
(* the server keeps them apart.                                            *)
(***************************************************************************)
EXTENDS Integers, Sequences, FiniteSets

CONSTANTS NStmts,   \* statements of a transaction
          MaxArray, \* bound: the length of an array
          MinSize,  \* the smallest piece of an array (100)
          Sizes     \* the sizes callers ask for

ASSUME SqlTxAssumption == /\ NStmts \in Nat \ {0} /\ MaxArray \in Nat
                          /\ MinSize \in Nat \ {0} /\ Sizes \subseteq Int

VARIABLES op,  \* the operation
          tx,  \* its transaction at the server
          db   \* what is committed

txVars == <<op, tx, db>>

(* "EndTxNil": TxExec and EndTx without an error variable, a nil perr.     *)
TxStyles == {"EndTx", "EndTxNil", "SqlTxProc", "EndXormTx"}
Statements == [i \in 1..NStmts |-> i]

(* The caller's error variable is perr; told is what it knows in the end.  *)
(* handle: Go's transaction object; odd: history of what else happened.    *)
OpIdle == [kind |-> "none", pc |-> "idle", next |-> 1, perr |-> FALSE, told |-> "nothing",
           handle |-> "none", odd |-> {}, cnt |-> 0, size |-> 0]

(* The server has a transaction open, or has ended it and takes the next   *)
(* statement on its own, or the connection is lost.                        *)
OpenTx(work) == [state |-> "open", work |-> work]
NoTx == [state |-> "none", work |-> << >>]
Lost == [state |-> "lost", work |-> << >>]

TxInit == op = OpIdle /\ tx = NoTx /\ db = << >>

Start(o) == op = OpIdle /\ op' = o /\ UNCHANGED db
-----------------------------------------------------------------------------
(* BeginTx, NewSqlTxConn, NewSqlxTx, NewXormTx and BatchExec's own.        *)
Begin(kind) ==
    \/ /\ Start([OpIdle EXCEPT !.kind = kind, !.pc = "exec", !.handle = "open"])
       /\ tx' = OpenTx(<< >>)
    \/ /\ Start([OpIdle EXCEPT !.kind = kind, !.pc = "done", !.told = "error"])
       /\ UNCHANGED tx

Executed(o) == IF o.next = NStmts THEN [o EXCEPT !.pc = "end"] ELSE [o EXCEPT !.next = @ + 1]

(* The server runs a statement; without a transaction it commits it.       *)
Runs == IF tx.state = "open" THEN tx' = OpenTx(Append(tx.work, op.next)) /\ UNCHANGED db
        ELSE tx.state = "none" /\ db' = Append(db, op.next) /\ UNCHANGED tx

(* Or it fails: only the statement, or the transaction with it (a          *)
(* deadlock), or the connection is lost.                                   *)
Fails == /\ tx' \in IF tx.state = "lost" THEN {Lost} ELSE {tx, NoTx, Lost}
         /\ UNCHANGED db

(* Seeded fault (ToldIsDone): an error is remembered, but the next         *)
(* statement clears it.                                                    *)
ExecForgets ==
    /\ op.pc = "exec"
    /\ \/ op' = Executed([op EXCEPT !.perr = FALSE]) /\ Runs
       \/ op' = Executed([op EXCEPT !.perr = TRUE]) /\ Fails

(* A statement.  When it fails, TxExec skips the others and the callers of *)
(* the rest return.  With a nil perr, TxExec runs the others all the same. *)
Exec ==
    /\ op.pc = "exec"
    /\ \/ op' = Executed(op) /\ Runs
       \/ op.kind # "EndTxNil" /\ op' = [op EXCEPT !.perr = TRUE, !.pc = "end"] /\ Fails
       \/ op.kind = "EndTxNil" /\ op' = Executed([op EXCEPT !.odd = @ \cup {"wentOn"}]) /\ Fails

(* The code between two statements sets the error, or panics and leaves    *)
(* the end to a deferred call, which sees no error.                        *)
AppFails ==
    /\ op.pc = "exec" /\ op.kind \in TxStyles
    /\ \/ op.kind # "EndTxNil" /\ op' = [op EXCEPT !.perr = TRUE, !.pc = "end"]
       \/ op' = [op EXCEPT !.odd = @ \cup {"panicked"}, !.pc = "end"]
    /\ UNCHANGED <<tx, db>>

(* The connection is lost before the end.                                  *)
ConnLost == /\ op.pc = "end" /\ tx.state # "lost"
            /\ tx' = Lost
            /\ UNCHANGED <<op, db>>

Told(o, failed) ==
    [o EXCEPT !.pc = "done", !.handle = "closed", !.perr = @ \/ (failed /\ o.kind # "EndTxNil"),
              !.told = IF o.perr \/ failed THEN "error" ELSE "success"]

(* EndTx and the others: commit without an error or without a place for    *)
(* one, else roll back.  The commit may fail, or its answer be lost; an    *)
(* error of either is told.  One the server has ended before commits       *)
(* nothing, without an error.  BatchExec drops the error of its commit.    *)
Commit ==
    LET committed == tx.state # "lost" /\ db' = db \o tx.work
        failed == [op EXCEPT !.odd = @ \cup (IF op.kind = "BatchExec" THEN {"commitIgnored"} ELSE {})]
    IN /\ op.pc = "end" /\ ~op.perr
       /\ \/ committed /\ op' = Told(op, FALSE)
          \/ UNCHANGED db /\ op' = Told(failed, op.kind # "BatchExec")
          \/ committed /\ op' = Told([failed EXCEPT !.odd = @ \cup {"answerLost"}],
                                     op.kind # "BatchExec")
       /\ tx' = NoTx

Rollback ==
    /\ op.pc = "end" /\ op.perr
    /\ \E failed \in BOOLEAN : op' = Told(op, failed)
    /\ tx' = NoTx
    /\ UNCHANGED db

(* A second end: database/sql answers that the transaction is done, which  *)
(* becomes the caller's error; xorm's session does nothing.                *)
EndAgain ==
    /\ op.pc = "done" /\ op.handle = "closed" /\ op.kind \in TxStyles
    /\ op' = Told([op EXCEPT !.odd = @ \cup {"endedTwice"}], op.kind # "EndXormTx")
    /\ UNCHANGED <<tx, db>>
-----------------------------------------------------------------------------
(* SqlValuesInsertBatch: an array of cnt values, in pieces; next is pos.   *)
SqlValuesInsertBatch(cnt, size) ==
    /\ Start([OpIdle EXCEPT !.kind = "InsertBatch", !.pc = "piece", !.next = 0, !.cnt = cnt,
                            !.size = IF size < MinSize THEN MinSize ELSE size])
    /\ UNCHANGED tx

Piece == LET to == IF op.next + op.size >= op.cnt THEN op.cnt ELSE op.next + op.size
         IN [i \in 1 .. to - op.next |-> op.next + i]

(* SqlExec of one piece: the first error ends it, also when the piece was  *)
(* inserted and only the answer was lost.  An empty piece is no statement. *)
InsertPiece ==
    /\ op.pc = "piece"
    /\ LET next == op.next + op.size
           error == [op EXCEPT !.pc = "done", !.told = "error"]
       IN \/ /\ Piece # << >>
             /\ db' = db \o Piece
             /\ \/ op' = IF next >= op.cnt
                         THEN [op EXCEPT !.pc = "done", !.told = "success"]
                         ELSE [op EXCEPT !.next = next]
                \/ op' = [error EXCEPT !.odd = {"answerLost"}]
          \/ UNCHANGED db /\ op' = error
    /\ UNCHANGED tx

TxNext ==
    \/ \E kind \in TxStyles \cup {"BatchExec"} : Begin(kind)
    \/ Exec \/ AppFails \/ ConnLost \/ Commit \/ Rollback \/ EndAgain
    \/ \E cnt \in 0..MaxArray, size \in Sizes : SqlValuesInsertBatch(cnt, size)
    \/ InsertPiece

TxSpec == TxInit /\ [][TxNext]_txVars
-----------------------------------------------------------------------------
(* What a caller is told is so.  Success: everything is there, once and in *)
(* order, unless BatchExec ignored its failed commit (mysqlpool.go:119), a *)
(* panic cut the work short, or a statement failed and there was no perr   *)
(* to tell the rest (mysqlpool.go:91,98).  An error: nothing of a          *)
(* transaction is there, and of an array only whole pieces from its start, *)
(* unless the server's answer was lost, the transaction was ended twice    *)
(* (sqlx_api_tx.go:26, sql_api.go:153), or again it went on after a        *)
(* failure, which may have left later statements outside the transaction.  *)
(* Whatever is told, no statement of a transaction is there twice or       *)
(* before an earlier one.                                                  *)
Increasing(s) == \A i, j \in DOMAIN s : i < j => s[i] < s[j]

ToldIsDone ==
    /\ op.told = "success" /\ op.odd \cap {"commitIgnored", "panicked", "wentOn"} = {}
         => db = IF op.kind = "InsertBatch" THEN [i \in 1 .. op.cnt |-> i] ELSE Statements
    /\ op.told = "error" /\ op.odd \cap {"answerLost", "endedTwice", "wentOn"} = {}
         => IF op.kind = "InsertBatch"
            THEN /\ \A i \in DOMAIN db : db[i] = i
                 /\ Len(db) % op.size = 0
                 /\ Len(db) < op.cnt \/ op.cnt = 0
            ELSE db = << >>
    /\ op.kind # "InsertBatch" => Increasing(db)
=============================================================================
