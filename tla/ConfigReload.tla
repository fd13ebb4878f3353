----------------------------- MODULE ConfigReload -----------------------------
(***************************************************************************)
(* config.go: the configuration files, loaded by InitConfig and again on   *)
(* every SIGHUP, beside a program that reads and sets values.              *)
(*                                                                         *)
(* A file is a function from sessions to functions from names to values,   *)
(* or Unreadable (missing, or not TOML).  A value is a record: its kind,   *)
(* "list" for the arrays of a file, "slice" for a Go slice the program     *)
(* set, and its elements; a scalar is its one element.  A name without a   *)
(* letter can be read from a file but not be written as TOML; names with a *)
(* dot, which SaveToml leaves out, are not considered.                     *)
(***************************************************************************)
EXTENDS Naturals, Sequences, FiniteSets

CONSTANTS NFiles,    \* files given to InitConfig
          Sessions,
          Names,     \* of the values in a session
          Unwritable, \* those TOML's encoder refuses
          Kinds,     \* of values: "list", "slice" and those of scalars
          Elements,  \* of values: records of a kind and val
          Contents,  \* what a file may hold
          Unreadable,
          OwnValues, \* what the program sets values to
          MaxEdits,  \* bound: changes of files
          MaxSets    \* bound: calls of the program that set something

Value == [kind : Kinds, els : Seq(Elements)]

(* A file that can be read: it has no Go slices.                           *)
IsFile(c) == \A s \in DOMAIN c : \A n \in DOMAIN c[s] :
                c[s][n] \in Value /\ c[s][n].kind # "slice"

ASSUME ConfigAssumption ==
    /\ NFiles \in Nat /\ IsFiniteSet(Names) /\ Unwritable \subseteq Names
    /\ "list" \in Kinds
    /\ \A c \in Contents \ {Unreadable} : IsFile(c)
    /\ OwnValues \subseteq Value

VARIABLES files,   \* the files
          sss,     \* Config.sss: session -> its text, as the function it encodes
          cfgs,    \* Config.cfgs: <<session, name>> -> value
          loader,  \* the goroutine that loads
          pending, \* a signal waits in the handler's channel
          app,     \* a goroutine of the program
          edited,  \* history: a file was changed after the last signal
          own,     \* history: what the program set since the maps were emptied
          used     \* changes of files and calls so far

configVars == <<files, sss, cfgs, loader, pending, app, edited, own, used>>

NoEntry == [x \in {} |-> 0]
Put(map, x, v) == [y \in DOMAIN map \cup {x} |-> IF y = x THEN v ELSE map[y]]
FileNames == 1..NFiles

(* Whether TOML's encoder makes a text of a session.                       *)
Encodes(doc) == DOMAIN doc \cap Unwritable = {}

ConfigInit ==
    /\ files \in [FileNames -> Contents]
    /\ sss = NoEntry /\ cfgs = NoEntry
    /\ loader = [pc |-> "empty sss", first |-> TRUE, file |-> 1, doc |-> NoEntry,
                 todo |-> {}, sess |-> "", names |-> {}]
    /\ pending = FALSE
    /\ app = [pc |-> "out", todo |-> << >>]
    /\ edited = FALSE
    /\ own = [keys |-> {}, sessions |-> {}]
    /\ used = [edits |-> 0, sets |-> 0]

Running == app.pc # "crashed"
-----------------------------------------------------------------------------
(* Loading.  The maps are overwritten as a whole, without a lock: a        *)
(* goroutine inside one of them may find its mutex gone, which ends the    *)
(* program, or take its effect before or after.                            *)
Overwritten == \/ UNCHANGED app
               \/ app.pc = "in" /\ app' = [app EXCEPT !.pc = "crashed"]

EmptySss ==
    /\ Running /\ loader.pc = "empty sss"
    /\ sss' = NoEntry
    /\ own' = [own EXCEPT !.sessions = {}]
    /\ loader' = [loader EXCEPT !.pc = "empty cfgs"]
    /\ Overwritten
    /\ UNCHANGED <<files, cfgs, pending, edited, used>>

EmptyCfgs ==
    /\ Running /\ loader.pc = "empty cfgs"
    /\ cfgs' = NoEntry
    /\ own' = [own EXCEPT !.keys = {}]
    /\ loader' = [loader EXCEPT !.pc = "decode", !.file = 1]
    /\ Overwritten
    /\ UNCHANGED <<files, sss, pending, edited, used>>

(* One file is read; one that cannot be is skipped.  After the last one    *)
(* comes the program's callback, or at first the signal handler.           *)
Decode ==
    /\ Running /\ loader.pc = "decode"
    /\ loader' =
         IF loader.file > NFiles
         THEN [loader EXCEPT !.pc = IF loader.first THEN "notify" ELSE "callback"]
         ELSE IF files[loader.file] = Unreadable THEN [loader EXCEPT !.file = @ + 1]
         ELSE [loader EXCEPT !.pc = "session", !.doc = files[loader.file],
                             !.todo = DOMAIN files[loader.file]]
    /\ UNCHANGED <<files, sss, cfgs, pending, app, edited, own, used>>

(* A session of the file, in the order of a Go map: its text, if there is  *)
(* one, is stored unless an earlier file's is, ...                         *)
StoreSession ==
    /\ Running /\ loader.pc = "session"
    /\ \/ /\ loader.todo = {}
          /\ loader' = [loader EXCEPT !.pc = "decode", !.file = @ + 1]
          /\ UNCHANGED sss
       \/ \E s \in loader.todo :
             /\ sss' = IF s \in DOMAIN sss \/ ~Encodes(loader.doc[s]) THEN sss
                       ELSE Put(sss, s, loader.doc[s])
             /\ loader' = [loader EXCEPT !.pc = "names", !.sess = s, !.todo = @ \ {s},
                                         !.names = DOMAIN loader.doc[s]]
    /\ UNCHANGED <<files, cfgs, pending, app, edited, own, used>>

(* ... then its values one by one, over those of earlier files.            *)
StoreValue ==
    /\ Running /\ loader.pc = "names"
    /\ \/ /\ loader.names = {}
          /\ loader' = [loader EXCEPT !.pc = "session"]
          /\ UNCHANGED cfgs
       \/ \E n \in loader.names :
             /\ cfgs' = Put(cfgs, <<loader.sess, n>>, loader.doc[loader.sess][n])
             /\ loader' = [loader EXCEPT !.names = @ \ {n}]
    /\ UNCHANGED <<files, sss, pending, app, edited, own, used>>

Notify ==
    /\ loader.pc = "notify"
    /\ loader' = [loader EXCEPT !.pc = "idle", !.first = FALSE]
    /\ UNCHANGED <<files, sss, cfgs, pending, app, edited, own, used>>

Callback ==
    /\ Running /\ loader.pc = "callback"
    /\ loader' = [loader EXCEPT !.pc = "idle"]
    /\ UNCHANGED <<files, sss, cfgs, pending, app, edited, own, used>>

ReceiveHup ==
    /\ Running /\ loader.pc = "idle" /\ pending
    /\ pending' = FALSE
    /\ loader' = [loader EXCEPT !.pc = "empty sss"]
    /\ UNCHANGED <<files, sss, cfgs, app, edited, own, used>>
-----------------------------------------------------------------------------
(* Seeded fault (ConfigCurrent): a channel without room, so that a signal  *)
(* is dropped while the loader is busy.                                    *)
HupUnbuffered ==
    /\ Running /\ ~loader.first
    /\ pending' = (pending \/ loader.pc = "idle")
    /\ edited' = FALSE
    /\ UNCHANGED <<files, sss, cfgs, loader, app, own, used>>

(* A signal: the channel holds one, others are dropped.                    *)
Hup ==
    /\ Running /\ ~loader.first
    /\ pending' = TRUE
    /\ edited' = FALSE
    /\ UNCHANGED <<files, sss, cfgs, loader, app, own, used>>

Changed(f, content) ==
    /\ used.edits < MaxEdits
    /\ used' = [used EXCEPT !.edits = @ + 1]
    /\ files' = [files EXCEPT ![f] = content]
    /\ edited' = TRUE

Edit(f, content) ==
    /\ Changed(f, content)
    /\ UNCHANGED <<sss, cfgs, loader, pending, app, own>>

(* SaveToml into one of the files: what cfgs holds, session by session; a  *)
(* slice becomes an array of the file.  When a session cannot be encoded   *)
(* the file, truncated before, stays empty.                                *)
AsSaved(v) == IF v.kind = "slice" THEN [v EXCEPT !.kind = "list"] ELSE v

Collected ==
    [s \in {k[1] : k \in DOMAIN cfgs} |->
       [n \in {k[2] : k \in {l \in DOMAIN cfgs : l[1] = s}} |-> AsSaved(cfgs[<<s, n>>])]]

SaveToml(f) ==
    /\ Running /\ ~loader.first
    /\ Changed(f, IF \A s \in DOMAIN Collected : Encodes(Collected[s]) THEN Collected
                  ELSE NoEntry)
    /\ UNCHANGED <<sss, cfgs, loader, pending, app, own>>
-----------------------------------------------------------------------------
(* The program: a call of it is a list of steps, each inside one map.      *)
Call(steps, sets) ==
    /\ app.pc = "out" /\ ~loader.first /\ used.sets + sets =< MaxSets
    /\ app' = [pc |-> "in", todo |-> steps]
    /\ used' = [used EXCEPT !.sets = @ + sets]
    /\ UNCHANGED <<files, sss, cfgs, loader, pending, edited, own>>

Get == Call(<<[kind |-> "get"]>>, 0)

SetValue(key, v) == Call(<<[kind |-> "value", key |-> key, v |-> v]>>, 1)

(* SetSess: the fields of a struct in order, then the text; every field of *)
(* a struct has a name with letters.                                       *)
Fields == Names \ Unwritable

SetSess(s, v) ==
    \E order \in [1 .. Cardinality(Fields) -> Fields] :
        /\ {order[i] : i \in DOMAIN order} = Fields
        /\ Call([i \in DOMAIN order |-> [kind |-> "value", key |-> <<s, order[i]>>, v |-> v]]
                  \o <<[kind |-> "session", sess |-> s, doc |-> [n \in Fields |-> v]]>>, 1)

AppStep ==
    /\ app.pc = "in"
    /\ LET step == Head(app.todo)
       IN \/ step.kind = "get" /\ UNCHANGED <<sss, cfgs, own>>
          \/ /\ step.kind = "value"
             /\ cfgs' = Put(cfgs, step.key, step.v)
             /\ own' = [own EXCEPT !.keys = @ \cup {step.key}]
             /\ UNCHANGED sss
          \/ /\ step.kind = "session"
             /\ sss' = Put(sss, step.sess, step.doc)
             /\ own' = [own EXCEPT !.sessions = @ \cup {step.sess}]
             /\ UNCHANGED cfgs
    /\ app' = [pc |-> IF Len(app.todo) = 1 THEN "out" ELSE "in", todo |-> Tail(app.todo)]
    /\ UNCHANGED <<files, loader, pending, edited, used>>

ConfigNext ==
    \/ EmptySss \/ EmptyCfgs \/ Decode \/ StoreSession \/ StoreValue \/ Notify \/ Callback
    \/ ReceiveHup \/ Hup \/ Get \/ AppStep
    \/ \E f \in FileNames : SaveToml(f) \/ \E content \in Contents : Edit(f, content)
    \/ \E s \in Sessions, v \in OwnValues :
          SetSess(s, v) \/ \E n \in Names : SetValue(<<s, n>>, v)

ConfigSpec == ConfigInit /\ [][ConfigNext]_configVars
-----------------------------------------------------------------------------
(* What the getters make of the maps.  The default is for what is missing: *)
(* a value of another kind is the zero value; an array has what fits of a  *)
(* list, or a scalar that fits.  On a slice of the program's own an array  *)
(* getter panics.                                                          *)
Zero == "zero"
Panic == <<[kind |-> "panic", val |-> "panic"]>>

Scalar(kind, key, def) ==
    IF key \notin DOMAIN cfgs THEN def
    ELSE IF cfgs[key].kind = kind THEN cfgs[key].els[1].val
    ELSE Zero

Fitting(els, kind) ==
    LET take[i \in 0 .. Len(els)] ==
          IF i = 0 THEN << >>
          ELSE IF els[i].kind = kind THEN Append(take[i - 1], els[i])
          ELSE take[i - 1]
    IN take[Len(els)]

Array(kind, key, def) ==
    IF key \notin DOMAIN cfgs THEN def
    ELSE IF cfgs[key].kind = "slice" THEN Panic
    ELSE Fitting(cfgs[key].els, kind)

SessDecode(s) == IF s \in DOMAIN sss THEN <<sss[s]>> ELSE << >>

(* What a file has of a key and of a session, and a getter that says so.   *)
HasKey(f, key) == /\ files[f] # Unreadable
                  /\ key[1] \in DOMAIN files[f] /\ key[2] \in DOMAIN files[f][key[1]]
HasSession(f, s) == files[f] # Unreadable /\ s \in DOMAIN files[f] /\ Encodes(files[f][s])

Def == <<[kind |-> "default", val |-> "default"]>>

AsInFile(key, kind, v) ==
    /\ Scalar(kind, key, "default") = IF v.kind = kind THEN v.els[1].val ELSE Zero
    /\ {Array(kind, key, Def)[i].val : i \in DOMAIN Array(kind, key, Def)}
         = {v.els[i].val : i \in {j \in DOMAIN v.els : v.els[j].kind = kind}}

KeyCurrent(key, kind) ==
    LET having == {f \in FileNames : HasKey(f, key)}
    IN IF having = {}
       THEN Scalar(kind, key, "default") = "default" /\ Array(kind, key, Def) = Def
       ELSE \E f \in having : /\ \A g \in having : g =< f
                             /\ AsInFile(key, kind, files[f][key[1]][key[2]])

SessionCurrent(s) ==
    LET having == {f \in FileNames : HasSession(f, s)}
    IN IF having = {} THEN SessDecode(s) = << >>
       ELSE \E f \in having : (\A g \in having : f =< g) /\ SessDecode(s) = <<files[f][s]>>

(* The configuration is that of the files once every change was followed   *)
(* by a signal and the loader has come to rest, however edits, signals,    *)
(* half a reload and the program's own settings fell together: a getter    *)
(* returns the value of the last file that has it, SessDecode the session  *)
(* of the first that TOML can write again, nothing remains of what was     *)
(* removed, and only what the program set itself is different              *)
(* (config.go:223,255,277).                                                *)
ConfigCurrent ==
    (Running /\ loader.pc = "idle" /\ ~pending /\ ~edited) =>
        /\ \A key \in (Sessions \X Names) \ own.keys, kind \in {"int64", "string"} :
             KeyCurrent(key, kind)
        /\ \A s \in Sessions \ own.sessions : SessionCurrent(s)
=============================================================================
