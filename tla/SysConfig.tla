------------------------------ MODULE SysConfig ------------------------------
(***************************************************************************)
(* SysConfig of config.go: values kept as text in rows of a table, written *)
(* by Store and read back by Read and the getters, of which several        *)
(* processes may use one table.                                            *)
(*                                                                         *)
(* A value is a record of its kind, "bool", "int64", "string" or "[]" and  *)
(* one of them, and val; a string, like the text of a row, is a sequence   *)
(* of tokens, a number being one.  No token means anything to SQL outside  *)
(* of a literal, and no key has a quote or a backslash.                    *)
(***************************************************************************)
EXTENDS Integers, Sequences

CONSTANTS SysKeys, \* keys, of which RowKeys have a row
          RowKeys,
          Tokens,  \* what text is made of, ...
          Numbers, \* ... the numbers among it: a function to their values
          Escapes, \* MySQL's meaning of a token after a backslash
          Values   \* what is stored

Arrays == {"[]bool", "[]int64", "[]string"}
Open == "["
Close == "]"
Comma == ","
Quote == "\""
Apostrophe == "'"
Backslash == "\\"
Marks == {Apostrophe, Quote}
Specials == {Apostrophe, Backslash}
Signs == {Open, Close, Comma, Quote, Apostrophe, Backslash}
NumberValues == {Numbers[t] : t \in DOMAIN Numbers}

Of(kind) == CASE kind = "bool" -> BOOLEAN
              [] kind = "int64" -> NumberValues
              [] kind = "string" -> Seq(Tokens)
              [] kind = "[]bool" -> Seq(BOOLEAN)
              [] kind = "[]int64" -> Seq(NumberValues)
              [] kind = "[]string" -> Seq(Seq(Tokens))

ASSUME SysAssumption ==
    /\ Signs \subseteq Tokens /\ DOMAIN Numbers \subseteq Tokens \ Signs
    /\ Escapes \in [Tokens -> Tokens]
    /\ {"0", "1"} \subseteq DOMAIN Numbers /\ Numbers["0"] = 0 /\ Numbers["1"] = 1
    /\ \A v \in Values : v.kind \in Arrays \cup {"bool", "int64", "string"} /\ v.val \in Of(v.kind)

VARIABLES rows,  \* key -> text
          stored \* history: the last Store's key, value and whether it
                 \* returned an error, << >> before

sysVars == <<rows, stored>>

SysInit == /\ rows = [k \in RowKeys |-> << >>]
           /\ stored = << >>
-----------------------------------------------------------------------------
(* Store's text for a value.                                               *)
TokenOf(i) == CHOOSE t \in DOMAIN Numbers : Numbers[t] = i
BoolToken(b) == IF b THEN "1" ELSE "0"
Quoted(s) == <<Quote>> \o s \o <<Quote>>

Joined(parts, sep) ==
    LET joined[i \in 0 .. Len(parts)] ==
          IF i = 0 THEN << >>
          ELSE (IF joined[i - 1] = << >> THEN << >> ELSE joined[i - 1] \o sep) \o parts[i]
    IN joined[Len(parts)]

(* Seeded fault (ReadBack): nothing between the elements.                  *)
BracketedBare(parts) == <<Open>> \o Joined(parts, << >>) \o <<Close>>

Bracketed(parts) == <<Open>> \o Joined(parts, <<Comma>>) \o <<Close>>

TextOf(v) == CASE v.kind = "bool" -> <<BoolToken(v.val)>>
               [] v.kind = "int64" -> <<TokenOf(v.val)>>
               [] v.kind = "string" -> v.val
               [] v.kind = "[]bool" -> Bracketed([i \in DOMAIN v.val |-> <<BoolToken(v.val[i])>>])
               [] v.kind = "[]int64" -> Bracketed([i \in DOMAIN v.val |-> <<TokenOf(v.val[i])>>])
               [] v.kind = "[]string" -> Bracketed([i \in DOMAIN v.val |-> Quoted(v.val[i])])

(* Store puts the text between apostrophes as it is, and MySQL reads it as *)
(* a string literal: a doubled mark stands for one, a backslash changes    *)
(* the next token, and literals in a row are one.                          *)
Lex(s, t) ==
    CASE s.mode = "in" /\ t = s.by -> [s EXCEPT !.mode = "end"]
      [] s.mode = "in" /\ t = Backslash -> [s EXCEPT !.mode = "escape"]
      [] s.mode = "in" /\ t \notin {s.by, Backslash} -> [s EXCEPT !.value = Append(@, t)]
      [] s.mode = "escape" -> [s EXCEPT !.mode = "in", !.value = Append(@, Escapes[t])]
      [] s.mode = "end" /\ t = s.by -> [s EXCEPT !.mode = "in", !.value = Append(@, t)]
      [] s.mode = "end" /\ t \in Marks \ {s.by} -> [s EXCEPT !.mode = "in", !.by = t]
      [] OTHER -> [s EXCEPT !.mode = "error"]

Lexed(text) ==
    LET lexed[i \in 0 .. Len(text)] ==
          IF i = 0 THEN [mode |-> "in", by |-> Apostrophe, value |-> << >>]
          ELSE Lex(lexed[i - 1], text[i])
    IN lexed[Len(text)]

(* Whether the apostrophe after the text ends a literal.                   *)
IsLiteral(text) == Lexed(text).mode = "in" /\ Lexed(text).by = Apostrophe

(* An update of a row that is not there changes nothing, and says so to    *)
(* nobody.                                                                 *)
UpdateRow(k, text) == IF k \in RowKeys THEN [rows EXCEPT ![k] = text] ELSE rows

(* Exec fails for a text that is no literal, and with the connection,      *)
(* before or after the server did it.                                      *)
Store(k, v) ==
    \E err \in BOOLEAN :
        /\ stored' = <<k, v, err>>
        /\ \/ IsLiteral(TextOf(v)) /\ rows' = UpdateRow(k, Lexed(TextOf(v)).value)
           \/ err /\ UNCHANGED rows
-----------------------------------------------------------------------------
(* Read's value of a text, and whether it is an error.                     *)
Trim(text, t) ==
    LET kept == {i \in DOMAIN text : text[i] # t}
    IN IF kept = {} THEN << >>
       ELSE LET first == CHOOSE i \in kept : \A j \in kept : i =< j
                last == CHOOSE i \in kept : \A j \in kept : j =< i
            IN SubSeq(text, first, last)

Took(parts, t) == IF t = Comma THEN Append(parts, << >>)
                  ELSE [parts EXCEPT ![Len(parts)] = Append(@, t)]
Split(text) ==
    LET split[i \in 0 .. Len(text)] ==
          IF i = 0 THEN << << >> >> ELSE Took(split[i - 1], text[i])
    IN split[Len(text)]

IsNumber(text) == Len(text) = 1 /\ text[1] \in DOMAIN Numbers
ParseInt(text) == IF IsNumber(text) THEN Numbers[text[1]] ELSE 0

Ints(text) ==
    LET parts == Split(Trim(Trim(text, Open), Close))
        good == {i \in 0 .. Len(parts) : \A j \in 1 .. i : IsNumber(parts[j])}
    IN [err |-> Len(parts) \notin good,
        val |-> [i \in DOMAIN parts |-> IF i \in good THEN ParseInt(parts[i]) ELSE 0]]

Strings(text) == LET parts == Split(Trim(Trim(text, Open), Close))
                 IN [i \in DOMAIN parts |-> Trim(parts[i], Quote)]

(* Without a row the text is empty and there is an error, which stays for  *)
(* the strings and which a number replaces by its own.                     *)
Read(k, kind) ==
    LET missing == k \notin DOMAIN rows
        text == IF missing THEN << >> ELSE rows[k]
    IN CASE kind = "bool" -> [err |-> ~IsNumber(text), val |-> ParseInt(text) # 0]
         [] kind = "int64" -> [err |-> ~IsNumber(text), val |-> ParseInt(text)]
         [] kind = "string" -> [err |-> missing, val |-> text]
         [] kind = "[]bool" -> LET ints == Ints(text)
                               IN [err |-> ints.err,
                                   val |-> IF ints.err THEN << >>
                                           ELSE [i \in DOMAIN ints.val |-> ints.val[i] # 0]]
         [] kind = "[]int64" -> Ints(text)
         [] kind = "[]string" -> [err |-> missing, val |-> Strings(text)]

(* The getters: the default, when one is given, for every error.           *)
Getter(k, kind, def) == LET got == Read(k, kind) IN IF got.err THEN def ELSE got.val

SysNext == \E k \in SysKeys, v \in Values : Store(k, v)

SysSpec == SysInit /\ [][SysNext]_sysVars
-----------------------------------------------------------------------------
(* A value stored without an error in a row that is there is the value its *)
(* getter returns, and this fails for exactly the values whose text is not *)
(* theirs alone: empty arrays, and arrays with a string that has a comma   *)
(* or begins or ends with a double quote.  A text with an apostrophe or a  *)
(* backslash is never kept as it is: there is an error, or the row has     *)
(* another text.  Without a row the getter returns its default whatever    *)
(* was stored (config.go:407,524,573).                                     *)
Ambiguous(v) ==
    \/ v.kind \in Arrays /\ v.val = << >>
    \/ v.kind = "[]string" /\ \E i \in DOMAIN v.val :
          LET s == v.val[i]
          IN s # << >> /\ (s[1] = Quote \/ s[Len(s)] = Quote \/ \E j \in DOMAIN s : s[j] = Comma)

HasSpecial(text) == \E i \in DOMAIN text : text[i] \in Specials

DefaultOf(kind) == CASE kind = "bool" -> TRUE [] kind = "int64" -> -7
                     [] kind \in {"string", "[]string"} -> <<<<"default">>>>
                     [] kind = "[]bool" -> <<TRUE, TRUE, TRUE>>
                     [] kind = "[]int64" -> <<-7>>

ReadBack ==
    stored # << >> =>
        LET k == stored[1]
            v == stored[2]
            def == DefaultOf(v.kind)
        IN IF k \notin RowKeys THEN Getter(k, v.kind, def) = def
           ELSE ~stored[3] => IF HasSpecial(TextOf(v)) THEN rows[k] # TextOf(v)
                              ELSE (Getter(k, v.kind, def) = v.val) <=> ~Ambiguous(v)
=============================================================================
