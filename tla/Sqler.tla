-------------------------------- MODULE Sqler --------------------------------
(***************************************************************************)
(* sqler.go: an object that collects the parts of an SQL statement, call   *)
(* by call, and builds the statement; programs keep such objects and use   *)
(* them again after Reset.  SqlSelectCount and its variants (sql_api.go,   *)
(* sql_api_slave.go) build two statements from one of them.                *)
(*                                                                         *)
(* A statement is a record, NoStmt where the code returns the empty        *)
(* string.  What a condition says is the set of rows it holds for.         *)
(***************************************************************************)
EXTENDS Naturals, Integers, Sequences, FiniteSets

CONSTANTS Texts,    \* tables, field lists, orders and the like
          Nums,     \* limits, offsets and pages
          Rows,     \* what conditions tell apart
          Conds,    \* what Where and OrWhere are given, see ParseWhere
          JoinArgs, \* how many arguments Join and its variants are given
          Datas,    \* what Insert and Update are given: kind "text", "rows"
                    \* or "map" with its cols
          IncArgs,  \* the fields named as counters: sets
          Columns,  \* of the table of a batch, ...
          Items,    \* ... what a batch may hold, and ...
          Batches,  \* ... the batches, see UpdateBatch
          MaxCalls  \* bound: calls

VARIABLES dba,   \* the Sqler
          fresh, \* history: a Sqler made at the last Reset, given the same calls
          stmt,  \* what the last call built, with dba and with fresh
          calls  \* calls made

sqlerVars == <<dba, fresh, stmt, calls>>

NewSqler == [table |-> "", fields |-> "", where |-> << >>, order |-> "", limit |-> 0,
             offset |-> 0, join |-> << >>, distinct |-> FALSE, group |-> "", having |-> "",
             data |-> [kind |-> "none", cols |-> {}],
             count |-> "", sum |-> "", avg |-> "", max |-> "", min |-> "",
             incFields |-> {}, ignore |-> FALSE, optype |-> ""]
NoStmt == [op |-> "none"]
-----------------------------------------------------------------------------
(* Conditions.  One is given as n arguments: three are a field, an         *)
(* operator, known or not, and a value; two a field and a value; one is a  *)
(* text, a map, or a list of conditions of two or three arguments; any     *)
(* other number is dropped without a word.                                 *)
ParamsWrong(c) == c.n = 3 /\ ~c.known

CondWrong(c) ==
    \/ c.n \in {2, 3} /\ ParamsWrong(c)
    \/ c.n = 1 /\ c.kind = "other"
    \/ c.n = 1 /\ c.kind = "list"
         /\ \E i \in DOMAIN c.list : c.list[i].n \notin {2, 3} \/ ParamsWrong(c.list[i])

(* parseWhere: the conditions one after the other, each with its and or    *)
(* or, except that the first loses it.                                     *)
WhereWrong(d) == \E i \in DOMAIN d.where : CondWrong(d.where[i].cond)

Kept(wheres) ==
    LET kept[i \in 0 .. Len(wheres)] ==
          IF i = 0 THEN << >>
          ELSE IF wheres[i].cond.n \in 1..3 THEN Append(kept[i - 1], wheres[i])
          ELSE kept[i - 1]
    IN kept[Len(wheres)]

ParseWhere(d) ==
    LET kept == Kept(d.where)
    IN [i \in DOMAIN kept |-> [con |-> IF i = 1 THEN "" ELSE kept[i].con,
                               rows |-> kept[i].cond.rows]]

JoinWrong(d) == \E i \in DOMAIN d.join : d.join[i].n \notin {1, 2, 4}

(* What MySQL makes of it, where and binds tighter than or.                *)
HitBy(w) ==
    IF w = << >> THEN Rows
    ELSE {r \in Rows : \E i \in DOMAIN w :
            /\ w[i].con \in {"", "or"}
            /\ \A j \in i .. Len(w) : r \in w[j].rows \/ \E k \in i + 1 .. j : w[k].con = "or"}
-----------------------------------------------------------------------------
(* BuildQuery: an aggregate asked for since the last Reset, the first of   *)
(* the five, goes before the fields.                                       *)
Union(d) == LET asked == SelectSeq(<<d.count, d.sum, d.avg, d.max, d.min>>, LAMBDA u : u # "")
            IN IF asked = << >> THEN "" ELSE asked[1]

BuildQuery(d) ==
    IF JoinWrong(d) \/ WhereWrong(d) THEN NoStmt
    ELSE [op |-> "select", distinct |-> d.distinct, table |-> d.table, join |-> d.join,
          what |-> CASE Union(d) # "" -> Union(d)
                     [] Union(d) = "" /\ d.fields # "" -> d.fields
                     [] OTHER -> "*",
          where |-> ParseWhere(d), group |-> d.group, having |-> d.having,
          order |-> d.order, limit |-> d.limit, offset |-> d.offset]

(* buildData: assignments, of a map or as they stand in a text; the        *)
(* columns of a map, or of the first of several.                           *)
Assignments(cols, inc) == {[col |-> c, inc |-> c \in inc] : c \in cols}
UpdateData(d) == IF d.data.kind = "rows" THEN {} ELSE Assignments(d.data.cols, d.incFields)
InsertData(d) == IF d.data.kind = "text" THEN {} ELSE d.data.cols

DeleteStmt(d) == IF WhereWrong(d) THEN NoStmt
                 ELSE [op |-> "delete", table |-> d.table, where |-> ParseWhere(d)]

(* BuildExecut: without data, buildData panics on the type of nil.         *)
BuildExecut(d) ==
    IF d.optype # "delete" /\ d.data.kind = "none" THEN [op |-> "panic"]
    ELSE IF d.optype = "" \/ WhereWrong(d) THEN NoStmt
    ELSE CASE d.optype = "insert" -> [op |-> "insert", ignore |-> d.ignore, table |-> d.table,
                                      cols |-> InsertData(d), where |-> ParseWhere(d)]
           [] d.optype = "update" -> [op |-> "update", table |-> d.table, set |-> UpdateData(d),
                                      where |-> ParseWhere(d)]
           [] d.optype = "delete" -> DeleteStmt(d)
-----------------------------------------------------------------------------
(* A call that collects, and one that builds.                              *)
Collect(F(_)) == /\ calls < MaxCalls /\ calls' = calls + 1
                 /\ dba' = F(dba) /\ fresh' = F(fresh)
                 /\ UNCHANGED stmt

BuildFrom(F(_), S(_)) == /\ calls < MaxCalls /\ calls' = calls + 1
                         /\ dba' = F(dba) /\ fresh' = F(fresh)
                         /\ stmt' = [used |-> S(F(dba)), fresh |-> S(F(fresh))]

Table(t) == LET F(d) == [d EXCEPT !.table = t] IN Collect(F)
Group(t) == LET F(d) == [d EXCEPT !.group = t] IN Collect(F)
Having(t) == LET F(d) == [d EXCEPT !.having = t] IN Collect(F)
Order(t) == LET F(d) == [d EXCEPT !.order = t] IN Collect(F)
Limit(n) == LET F(d) == [d EXCEPT !.limit = n] IN Collect(F)
Offset(n) == LET F(d) == [d EXCEPT !.offset = n] IN Collect(F)
Page(n) == LET F(d) == [d EXCEPT !.offset = (n - 1) * d.limit] IN Collect(F)
Distinct == LET F(d) == [d EXCEPT !.distinct = TRUE] IN Collect(F)
Ignore == LET F(d) == [d EXCEPT !.ignore = TRUE] IN Collect(F)
Join(type, n) == LET F(d) == [d EXCEPT !.join = Append(@, [type |-> type, n |-> n])]
                 IN Collect(F)

(* Seeded fault (WhereNarrows): a condition is put before the others.      *)
WhereFirst(con, c) ==
    LET F(d) == [d EXCEPT !.where = <<[con |-> con, cond |-> c]>> \o @] IN Collect(F)

Where(con, c) == LET F(d) == [d EXCEPT !.where = Append(@, [con |-> con, cond |-> c])]
                 IN Collect(F)

(* Reset: everything but the counters, ignore and optype, which stay.  The *)
(* fresh one starts with the same counters and ignore, but without optype. *)
ResetOf(d) == [NewSqler EXCEPT !.incFields = d.incFields, !.ignore = d.ignore]

(* Seeded fault (ResetForgets): what an aggregate was asked of stays.      *)
ResetKeepsUnion == /\ calls < MaxCalls /\ calls' = calls + 1
                   /\ dba' = [ResetOf(dba) EXCEPT !.sum = dba.sum]
                   /\ fresh' = ResetOf(dba)
                   /\ UNCHANGED stmt

Reset == /\ calls < MaxCalls /\ calls' = calls + 1
         /\ dba' = [dba EXCEPT !.table = "", !.fields = "", !.where = << >>, !.order = "",
                               !.limit = 0, !.offset = 0, !.join = << >>, !.distinct = FALSE,
                               !.group = "", !.having = "", !.data = NewSqler.data,
                               !.count = "", !.sum = "", !.avg = "", !.max = "", !.min = ""]
         /\ fresh' = ResetOf(dba)
         /\ UNCHANGED stmt
-----------------------------------------------------------------------------
Same(d) == d
Select(t) == LET F(d) == IF t = "" THEN d ELSE [d EXCEPT !.fields = t]
             IN BuildFrom(F, BuildQuery)

(* Insert, Update and Delete set optype for good; UpdateBatch does not.    *)
Given(d, optype, data) == [d EXCEPT !.data = data, !.optype = optype]

Insert(data) == LET F(d) == Given(d, "insert", data) IN BuildFrom(F, BuildExecut)

(* InsertDuplicate: an insert, and what to set where a row is there.  Its  *)
(* counters are its own.                                                   *)
InsertDuplicate(data, dup, inc) ==
    LET F(d) == Given(d, "insert", data)
        S(d) == [op |-> "duplicate", insert |-> BuildExecut(d),
                 set |-> Assignments(data.cols \ dup, inc)]
    IN data.kind = "map" /\ BuildFrom(F, S)

(* Update: the counters it is given stay for later updates without any.    *)
WithInc(d, inc) == IF inc = {} THEN d ELSE [d EXCEPT !.incFields = inc]

Update(data, inc) == LET F(d) == Given(WithInc(d, inc), "update", data)
                     IN BuildFrom(F, BuildExecut)

Delete == LET F(d) == [d EXCEPT !.optype = "delete"] IN BuildFrom(F, DeleteStmt)

(* BuildExecut called by the program itself, for the last optype.          *)
Execut == LET S(d) == [op |-> "direct", optype |-> d.optype, text |-> BuildExecut(d)]
          IN BuildFrom(Same, S)

(* Count, Sum, Avg, Max and Min.                                           *)
Aggregate(u, t) ==
    LET F(d) == CASE u = "count" -> [d EXCEPT !.count = t]
                  [] u = "sum" -> [d EXCEPT !.sum = t]
                  [] u = "avg" -> [d EXCEPT !.avg = t]
                  [] u = "max" -> [d EXCEPT !.max = t]
                  [] u = "min" -> [d EXCEPT !.min = t]
    IN BuildFrom(F, BuildQuery)

(* SqlSelectCount: the page from the Sqler, the total from a copy made     *)
(* before; with an error in the first there is no second.                  *)
SelectCount(sel, cnt, offset, count) ==
    LET F(d) == [d EXCEPT !.offset = offset, !.limit = count, !.fields = sel]
        S(d) == [op |-> "pageAndTotal", page |-> BuildQuery(F(d)),
                 total |-> BuildQuery([d EXCEPT !.fields = cnt])]
    IN /\ calls < MaxCalls /\ calls' = calls + 1
       /\ dba' = F(dba) /\ fresh' = F(fresh)
       /\ stmt' = [used |-> S(dba), fresh |-> S(fresh)]
-----------------------------------------------------------------------------
(* UpdateBatch: one statement for many rows.  A batch has its items, each  *)
(* a function of some of the columns, and the keys that pick their rows.   *)
(* Each other column becomes a CASE with a WHEN for every item that has    *)
(* it; the rows are those whose first key is one of the items'.  What      *)
(* Where collected is not looked at.                                       *)
Null == -1 \* a value no item has
KeysOf(b) == {b.keys[i] : i \in DOMAIN b.keys}
Picks(item, b, row) == \A k \in KeysOf(b) : row[k] = item[k]

ASSUME SqlerAssumption ==
    /\ Batches \subseteq [items : Seq(Items), keys : Seq(Columns) \ {<< >>}]
    /\ \A item \in Items : \A c \in DOMAIN item : item[c] # Null

(* A column's CASE: the value of the first WHEN that holds.                *)
FirstOf(b, hits, c) ==
    IF hits = {} THEN Null ELSE b.items[CHOOSE i \in hits : \A j \in hits : i =< j][c]

(* Seeded fault (UpdateBatchExact): only the first key picks.              *)
CaseByFirstKey(b, c, row) ==
    FirstOf(b, {i \in DOMAIN b.items : /\ c \in DOMAIN b.items[i]
                                       /\ row[b.keys[1]] = b.items[i][b.keys[1]]}, c)

Case(b, c, row) ==
    FirstOf(b, {i \in DOMAIN b.items : c \in DOMAIN b.items[i] /\ Picks(b.items[i], b, row)}, c)

Listed(b, row) == \E i \in DOMAIN b.items : b.items[i][b.keys[1]] = row[b.keys[1]]

Increment(x, v) == IF v = Null THEN Null ELSE x + v

(* The row the statement leaves behind.                                    *)
AfterUpdate(s, row) ==
    LET cased == (UNION {DOMAIN s.batch.items[i] : i \in DOMAIN s.batch.items}) \ KeysOf(s.batch)
    IN [c \in Columns |->
          IF c \notin cased \/ ~Listed(s.batch, row) THEN row[c]
          ELSE IF c \in s.inc THEN Increment(row[c], Case(s.batch, c, row))
          ELSE Case(s.batch, c, row)]

UpdateBatch(b, inc) == LET F(d) == WithInc(d, inc)
                           S(d) == [op |-> "batch", table |-> d.table, batch |-> b,
                                    inc |-> d.incFields]
                       IN BuildFrom(F, S)

SqlerInit == /\ dba = NewSqler /\ fresh = NewSqler /\ calls = 0
             /\ stmt = [used |-> NoStmt, fresh |-> NoStmt]

SqlerNext ==
    \/ \E t \in Texts : \/ Table(t) \/ Group(t) \/ Having(t) \/ Order(t) \/ Select(t)
                        \/ \E u \in {"count", "sum", "avg", "max", "min"} : Aggregate(u, t)
                        \/ \E n, m \in Nums : SelectCount("*", t, n, m)
    \/ \E n \in Nums : Limit(n) \/ Offset(n) \/ Page(n)
    \/ \E con \in {"and", "or"}, c \in Conds : Where(con, c)
    \/ \E type \in {"INNER", "LEFT", "RIGHT"}, n \in JoinArgs : Join(type, n)
    \/ Distinct \/ Ignore \/ Reset \/ Select("") \/ Delete \/ Execut
    \/ \E data \in Datas : \/ Insert(data)
                           \/ \E inc \in IncArgs : \/ Update(data, inc)
                                                  \/ \E dup \in IncArgs : InsertDuplicate(data, dup, inc)
    \/ \E b \in Batches, inc \in IncArgs : UpdateBatch(b, inc)

SqlerSpec == SqlerInit /\ [][SqlerNext]_sqlerVars
-----------------------------------------------------------------------------
(* After Reset, a Sqler builds what a new one would, whatever it was used  *)
(* for before: nothing of an earlier statement gets into a later one, but  *)
(* for the counters, ignore and, where a program calls BuildExecut itself  *)
(* before any Insert, Update or Delete, the optype of the last of them     *)
(* (sqler.go:529,255): there a new one has nothing to build.               *)
ResetForgets == \/ stmt.used = stmt.fresh
                \/ stmt.fresh.op = "direct" /\ stmt.fresh.optype = ""

(* A Where only takes rows away, an OrWhere only adds some, unless it is   *)
(* the first condition: whatever the calls and their order, with the       *)
(* dropped ones among them, and without brackets in the text               *)
(* (sqler.go:141,153,456).                                                 *)
WhereNarrows ==
    [][(Len(dba'.where) > Len(dba.where) /\ ~WhereWrong(dba'))
         => LET before == ParseWhere(dba)
                after == ParseWhere(dba')
                last == dba'.where[Len(dba'.where)].con
            IN \/ HitBy(after) \subseteq HitBy(before) /\ (last = "and" \/ before = << >>)
               \/ HitBy(before) \subseteq HitBy(after) /\ last = "or"]_sqlerVars

(* A batch update does to every row what updating item by item would do,   *)
(* and leaves the other rows alone, as long as the items have the same     *)
(* columns and different keys and every row with a first key of theirs     *)
(* has all the keys of one of them (sqler.go:634).                         *)
ItemByItem(s, row) ==
    LET b == s.batch
        upd[n \in 0..Len(b.items)] ==
          IF n = 0 THEN row
          ELSE IF ~Picks(b.items[n], b, upd[n - 1]) THEN upd[n - 1]
          ELSE [c \in Columns |->
                  IF c \in KeysOf(b) \/ c \notin DOMAIN b.items[n] THEN upd[n - 1][c]
                  ELSE IF c \in s.inc THEN upd[n - 1][c] + b.items[n][c] ELSE b.items[n][c]]
    IN upd[Len(b.items)]

Regular(b) == \A i, j \in DOMAIN b.items :
    /\ DOMAIN b.items[i] = DOMAIN b.items[j]
    /\ i # j => \E k \in KeysOf(b) : b.items[i][k] # b.items[j][k]

UpdateBatchExact ==
    (stmt.used.op = "batch" /\ Regular(stmt.used.batch)) =>
        LET b == stmt.used.batch IN
        \A row \in [Columns -> 0..1] :
            (Listed(b, row) => \E i \in DOMAIN b.items : Picks(b.items[i], b, row))
                => AfterUpdate(stmt.used, row) = ItemByItem(stmt.used, row)
=============================================================================
