# A verification project for liboo

liboo is a Go library (package `oo`, about 6 300 lines without its tests) for
building services: in-process channels, RPC over NATS and over WebSocket,
request dispatching, worker pools, a Redis lock, configuration, counters, and
SQL building and transactions. This directory holds TLA+ models of these parts,
the TLC configurations that check them and the TLAPS proofs of the main safety
properties.

Everything runs from this directory:

    tlc -workers 2 -config ChannelSafety.cfg MCChannel     # one run
    tlapm ChannelProofs.tla                                # one proof module

## 1. Inventory

| component (files) | state | operations | interacts with | hard parts | correct when |
|---|---|---|---|---|---|
| Channel, ChannelManager (`channel.go`) | sequence counter, registry (`sync.Map`), per channel a bounded queue and a closed signal | NewChannel, Close, PushMsg, PushChannelMsg, PushAll/PushOneChannelMsg, RecvChan | everything below queues through it | registration and lookup are not atomic with use; send on a closed channel is recovered; double Close panics | sequences unique, no misrouting, loss, repetition or revival; a close finishes |
| NatsService (`natssvr.go`) | `sndmap`, number counter, send queue, `ch_recv`, handler tables, list of services | PubMsg, PubWithResponse, PubByChannel, Sub*, StartService, Close | Channel (send queue), NATS, HTTP monitor | reply racing timeout, blocking send inside the only loop, handlers inside the loop, queue full | every call ends once, with its own reply or an error; nothing leaks; the loop never stays blocked |
| service discovery (`natssvr.go`, `request.go`) | `services` pointer | fetchAllMonitor, MakeSubjs, CheckSubj, WaitForReady | NatsService | stale list, restart with the same mark | a subject is found iff some subscription matches |
| WebSock (`websock.go`) | `Ws` pointer, `Ch`, `sndmap`, handler tables | StartDial, RecvRequest, SendRpc, SendRpcWithResponse, Close | Channel | three goroutines share `Ws`; late reply ends the connection; requeueing | one receiver per socket, no socket left open, calls answered once |
| WaitJob (`waitjob.go`) | job and error channels, worker counter, cancel counter | Push, Wait, routine, err_routine | user's job function | cancel between check and send; close order | jobs run at most once, every error reported once, Wait returns last |
| Redis lock (`redispool.go`, `redis_opt.go`) | one Redis key; per attempt nowtime, oldval, loop | InitRedisLock, UnLock | Redis, clocks | steal of expired locks, stale clock value, orphaned key, unconditional DEL | mutual exclusion |
| Redis pool, pipeline | redigo pool, queued commands | Exec, Do wrappers | Redis | failure inside MULTI | a failed Exec has no later effect |
| handler tables (`natssvr.go`, `websock.go`) | per command a new and an old style handler, and two defaults | Sub*Handle, HandleFunc, DefHandleFunc, lookup | StartService, RecvRequest | two maps changed in turn while messages are dispatched | a message meets the handler last registered for it |
| ReqDispatcher (`reqhandler.go`) | handlers, filters, default handler | AddHandler, Add*Filter, Merge, AppendDispatcher, RunHandler* | RPC handlers | nested dispatchers, filter order, combined replies | no handler runs for a request that a filter refused |
| Log, statistics (`log.go`) | counters, modified flag | Stat*, StatClear, logStat, LogUid | all | flag and counter races | totals lose no call |
| Config (`config.go`) | two `sync.Map`s | InitConfig (reload), SetSess, SetValue, SaveToml, getters | signals | reload beside readers, signals and edits | after the last signal it is the files |
| SysConfig (`config.go`) | rows of a table | Store, Read, getters | SQL | values kept as text | what was stored is read back |
| Sqler (`sqler.go`, `sql_api.go`) | the parts of a statement | the collecting calls, Reset, the building calls, UpdateBatch | SQL | an object used again, conditions dropped silently | the statement says what was asked since Reset |
| SQL transactions (`mysqlpool.go`, `sql_api*.go`, `sqlx_api_tx.go`, `mysql_xorm.go`) | an open transaction, the caller's error | BeginTx, TxExec, EndTx, BatchExec, CloseSqlxTx, SqlValuesInsertBatch | database | ignored or repeated commit, lost answers | one outcome, and the caller knows it |
| Hooks, signals, tasks, bit sets, utilities | hook table; otherwise none | AddHook, Run*, SafeAsyncTask ... | - | lost update on AddHook | hooks run in priority order |
| Crypto, HTTP, mail, errors, environment | none | wrappers | - | - | - |

`PROJECT.json` gives the status of each component and lists the hazards, each
at its line, with the properties that cover it or the reason why none does.

## 2. Modules

```
GoSync          sync.Map as a function
Mailbox         what a set of queues promises            (abstract)
Channel         channel.go                               EXTENDS GoSync, implements Mailbox
ChannelProofs   theorems about Channel
RpcCall         what a request-and-wait call promises    (abstract)
NatsRpc         natssvr.go, requests and replies         EXTENDS GoSync, implements RpcCall
NatsRpcProofs   theorems about NatsRpc
NatsSubjects    natssvr.go, request.go: who is subscribed to what
HandlerTable    the handler tables of natssvr.go and websock.go
ReqDispatcher   reqhandler.go
DispatchProofs  theorems about NatsSubjects, HandlerTable and ReqDispatcher
JobPool         what a worker pool promises              (abstract)
WaitJob         waitjob.go                               implements JobPool
RedisLock       the lock of redispool.go
RedisLockProofs theorems about RedisLock
WsConn          websock.go, the life of a connection
WsConnProofs    theorems about WsConn
WsRpc           websock.go, requests and replies         EXTENDS GoSync, implements RpcCall
WsRpcProofs     theorems about WsRpc
Sqler           sqler.go, building a statement
SqlTx           running statements in a transaction or in pieces
SqlProofs       theorems about Sqler, SqlTx and SysConfig
ConfigReload    config.go, the files
SysConfig       config.go, the table of settings
Stats           log.go, the counters
ProcessProofs   theorems about WaitJob, Stats and ConfigReload
MC*             the small instances TLC checks
```

MCDispatch, MCSql and MCProcess each hold a few parts that share no state. They
stand side by side in one run: `part` says, from the first state on, which of
them moves, so that the run is the union of the parts' behaviours and not their
product.

Operators called "Seeded fault" are faulty versions of the definition that
follows them. No specification uses them: putting one in the place of its
definition must break the property it names, which shows that the property
can fail.

**Channel.** Each goroutine is in at most one call, recorded in `op` with a
program counter; a step is one `sync.Map` operation, one `select` or one
`close`. `NewChannel` has two steps (atomic add, `Store`), `Close` three
(`Delete`, `close(closed)`, `close(respChan)`), a push by sequence two (`Load`,
`select`), a broadcast one per entry visited. `PushMsg` keeps the cases of the
`select` exactly: with `respChan` closed the send is ready and panics, the
recovered function returns nil, and Go picks at random when `closed` is ready as
well. `accepted` and `delivered` are history. A walk with `Range` visits the
keys present at its start that are still there when reached. Callers use only
channels that NewChannel has returned, and may push to, or close, a closed one.

**NatsRpc.** `PubWithResponse` is the program counter of a member of `Calls`: `Begin`
(number, reply channel, `Store`; merged, since nobody knows the number before it is
published), `PubSubjMsg`, the wait, the deferred `Delete` and `close`. `loop` is the
StartService goroutine; in `send` it is blocked on the unbuffered reply channel, in
`handle` it runs a handler itself because `co_sche` is off. The list of services is a
free choice at each read, since the monitor replaces it at any moment. Publishing may
fail; the network answers any published request any number of times, late or never,
and a full `ch_recv` loses the message. A handler may make one call of its own and
reply, or only reply (`AnswerOnly`), and so may the handler of a channel's reply; with
`co_sche` off all of them run inside the loop. Messages carry, besides the number, who
really asked (history): that is what `OwnReply` compares. The handler tables and the
subject text are modules of their own, below: the choice of handler and of subject
does not depend on the calls in progress. JSON is left out.

**NatsSubjects.** A subject is a sequence of tokens. A process subscribes one
subject at a time (`natsSubSpec`), its monitor asks one server at a time and may
get any part of the answer, and then replaces the list (`known`); processes end
and begin at any moment. `CheckSubj` looks for the subject with ever more of its
last tokens starred; `Matches` is how NATS itself matches. Without `mservers` in
the configuration there is no list, and the code publishes nothing at all
(natssvr.go:289, 348): those processes only subscribe here.

**HandlerTable.** One module for both files, which do the same with other names.
A registration is two steps (handleMap, then ctxHandleMap), a dispatch up to four
(default, entry, and both again in the adapter of the old style). SubMsgHandle
completes a name that does not say its service (natssvr.go:427), so that two names
may stand for one command and share its slot (`SlotOf`). `current` is history:
what the calls that returned have registered.

**ReqDispatcher.** `AddHandler`, `SetDefHandler`, the filters and `Merge` are the
actions that build dispatchers. A run changes none of them, so it is a function
(`RunHandlerEx`) from the dispatchers, the filters' verdicts and the handlers'
outcomes to the steps it makes, the reply and the error. It follows the code
where the code is curious: several handlers of a command have their errors
dropped (reqhandler.go:166), and a default handler is behind the filters of the
dispatcher it is run by, although the comment at line 33 says that no filter
applies; when it came there by Merge, its own dispatcher's filters do not.

**WaitJob.** One goroutine pushes jobs 1..NJobs and calls Wait, as the type
requires (`left_ntask` and `close(ch)` are unsynchronised); `NTask` workers and
the collector run beside it. Go channels are sequences with a capacity and a
closed flag. The job function returns nil or an error, by choice.

**RedisLock.** One step per Redis command, with explicit time in seconds. A
client reads its clock once (`nowtime`, up to `MaxSkew` ahead of the true
time), then loops over SETNX, GET and GETSET as the code does; GETSET on a
missing key writes it *and* fails (`redis.ErrNil`). `Break` is a connection
error: the command may or may not have been executed and the attempt is over,
since redigo fails every later command. `Abandon` is a holder that dies or whose
`UnLock` finds the connection broken.

**WsConn.** One WebSock, a client or a server by `role`. Each goroutine is a
program counter: `dialer` (StartDial), `recv[s]` (the RecvRequest started for
socket `s`; in a server the http handler around it), `sender` (serializedSend),
`handler` (a handler's own goroutine, with `co_sche`, that has panicked) and
`closing[c]` (a call of Close by a handler, by close_fn, by an http handler's
`defer`, or by the application goroutine `App`, which calls it at most once). A
step reads or writes `Ws` once, so that every test-then-use of the code is two
steps, those of `ConnInfo` (websock.go:223) in the log lines included: the
receiver's read error and its deferred function (`RecvInfo`, `DeferRecover`), the
sender's failed write and its deferred function (`SenderLog`, `SenderRecover`),
the handler's recover (`HandlerInfo`). A nil `Ws` that is used panics, and the
model follows the panic to whoever recovers it: the receive loop's deferred
function, the handler's caller, net/http, the sender's deferred function, or
nobody (`crashed` says whose it was). The program's own functions may panic too:
open_fn and handlers inside the loop's recover, close_fn after it, interval_fn and
the look-up inside StartDial's, which stands outside its loop and so ends the
dialer (`"dead"`). `c.Ws = wconn` and the start of its receiver are one step.
`reconnect` counts the dials, as the code's field does, up to `MaxCount`. Messages
are numbers; a message received is followed by any outcome of its handling.
Sockets that nobody refers to any more are used again, so two stand for any number
of reconnects. Not modelled: a handler's goroutine beyond its panic (`App` closes
as one that calls Close would, without its recover; more than one panicking at a
time), the matching of replies (WsRpc), the read deadline (a broken connection is
noticed at some time).

**WsRpc.** `SendRpcWithResponse` is the program counter of a member of `Calls`,
and the one goroutine that reads the socket is `recv`. A message with a number
found in `sndmap` is handed to that call's reply channel, which holds one: a
second one waits until the call closes it, panics then, and only the receive
loop's deferred function recovers, which closes the socket. Everything else is a
request, whose handler runs inside the loop or, with `co_sche`, beside it, and
may make a call. Chk is its number: callers who give different prefixes are kept
apart by them as well.

**Sqler.** One object `dba`, one action per method. Every building call leaves
in `stmt` the record of the statement it returns. Beside it, `fresh` is an object
made at the last Reset which is given the same calls (it keeps the counters and
`ignore`, two of the three fields that Reset leaves alone on purpose or by
omission, and starts without the third, `optype`). `Execut` is a program's own
call of the exported BuildExecut, which builds whatever `optype` the object has
from earlier; without data, BuildExecut panics.
What a condition says is the set of rows it holds for, so that "and" and "or" can
be evaluated as MySQL would (`HitBy`); an UpdateBatch is applied to rows
(`AfterUpdate`). Quoting and names are left out.

**SqlTx.** A behaviour is one operation: a transaction of `NStmts` statements
ended in one of the styles of the library, or an array inserted in pieces. Each
statement, commit and rollback may fail; a commit or a piece may succeed and its
answer be lost; a failed statement may take the transaction with it, after which
the server commits each later statement by itself, or the connection; the caller
may panic with the end deferred, or end twice. `"EndTxNil"` is the style of callers
that give TxExec and EndTx no error variable: nothing skips the statements after
a failed one (mysqlpool.go:98), and the end commits what there is and returns nil
(mysqlpool.go:91). `odd` is history: it names the events that excuse a caller's
being told something else than what happened.

**ConfigReload.** The loader is one goroutine: it empties the maps, decodes a
file, stores its sessions and values one `sync.Map` operation at a time. Signals
arrive in a channel of one; files are edited at any moment, by others or by
SaveToml. A call of the program is a list of such operations. Emptying assigns a
new `sync.Map` over one in use: a goroutine inside may find its mutex gone, and
then the program ends (`crashed`). A session's text (`sss`) is that of the first
file that has it, its values (`cfgs`) those of the last: that is what the code
does, and what ConfigCurrent says. TOML's encoder refuses some sessions its
decoder accepts, those with an empty name (`Unwritable`): such a session keeps its
values and has no text (config.go:227), and SaveToml, which truncates the file
before it encodes, leaves it empty (a text short enough to stay in the encoder's
buffer until the error). The fields of a struct given to SetSess always have a
name with letters. Names with a dot are not considered.

**SysConfig.** `Store` writes the text of a value, `Read` parses it; text is a
sequence of tokens, and the conversions are modelled by what they do to it. Store
puts the text between two apostrophes of its statement as it is (config.go:573),
so what the row gets is what MySQL reads there: `Lexed` goes through the text as
the server's lexer does (an apostrophe ends the literal unless doubled, a
backslash changes the next token as `Escapes` says, literals side by side are
one), and a text that does not leave one literal (`IsLiteral`) makes Exec fail.
Exec may also fail for the connection's sake, before or after the row was
written. `stored` records what was stored and whether Store returned the error. A
number is one token and never a bracket, a comma, a quote or a backslash, and "0"
and "1" are numbers (`SysAssumption`): what `ParseInt` reads and `Store` writes for
a bool. Taken for granted: the server's default SQL mode, keys without a quote or
a backslash, no token that means anything to SQL outside a literal, and no other
program that writes the row between a Store and the Read.

**Stats.** Three goroutines call one of the Stat functions on one key, each
access to `val`, `total_val` and `mdy_flag` being a step, beside `logStat` and
StatClear.

## 3. What the runs check

| run | module, cfg | bounds | properties |
|---|---|---|---|
| channel_safety | MCChannel, ChannelSafety.cfg | 2 channels, 2 goroutines, 2 high bytes, a small queue, bounded pushes and repeated closes | TypeOK, SequencesUnique, RoutedBySequence, DeliveredIsPrefix, ClosedIsUnregistered, NilMeansQueuedUntilClosed |
| channel_liveness | MCChannel, ChannelLiveness.cfg | 1 channel with a queue of 2, no high byte, 3 pushes, 1 repeated close | MailboxSpec, CloseCompletes |
| nats_rpc | MCNatsRpc, NatsRpc.cfg | 2 calls, channel sequences 1 and 2 around a watermark of 2, queues of 1, 2 messages from the network | TypeOK, OwnReply, NothingLeaked, NestedSyncNeverAnswered, LoopResumes, RpcSpec |
| dispatch | MCDispatch, Dispatch.cfg | 2 dispatchers, 2 commands, 3 building calls; 1 command that has 2 names, another without handlers, 2 handlers of each style, 2 registrars, 1 dispatch at a time, 3 registrations; 2 processes of a service at 2 servers, 1 monitor | FiltersGuard, HandledAsRegistered, SubscribedIsServed |
| wait_job | WaitJob, WaitJob.cfg | 5 jobs, 2 workers | TypeOK, ErrorsConserved, EndsOrStranded, PoolSpec |
| redis_lock | MCRedisLock, RedisLock.cfg | 3 clients, lease 4, attempts, holds and skew of 1, 3 tries, times 0..9 | TypeOK, MutualExclusion, HolderProtected |
| ws_conn | MCWsConn, WsConn.cfg | 2 sockets taken in turn, a queue of 1, 1 message, dials counted up to 2 | TypeOK, OwnsSocket, CrashNeedsClose, OnlyLateLeaks, AtMostOnce, Reconnects, CloseEndsAll |
| ws_sender | MCWsConn, WsSender.cfg | as ws_conn | ClientCanSend, which is violated |
| ws_rpc | MCWsRpc, WsRpc.cfg | 2 calls, up to 2 replies to each, a peer whose requests have no number | TornByLateReply, RpcSpec |
| ws_peer | MCWsRpc, WsPeer.cfg | 2 calls, 1 reply to each, a peer that numbers its requests too | ReplyNotRequest, which is violated |
| sql | MCSql, Sql.cfg | 3 calls with any of 8 conditions, batches of 2 items under 1 or 2 keys; 3 statements, arrays of up to 5 in pieces of 2 and more | ResetForgets, WhereNarrows, UpdateBatchExact, ToldIsDone |
| process | MCProcess, Process.cfg | 2 files, 1 session of 3 names, one of which cannot be written, 1 edit or save, 1 setting by the program; scalars of up to 2 characters and arrays of up to 2 elements over 8 characters, `'` and `\` among them, a second Store after values of one token; 3 callers of one counter with 0, 1 or -2, 1 clear | ConfigCurrent, ReadBack, TotalsExact |

What they show:

* *Channel.* Sequences stay unique although the number is completed in steps;
  nothing is misrouted, lost, repeated or brought back to the registry by the
  interleavings of create, lookup, push, broadcast and close. `PushMsg` may
  report success for a message it did not queue, but only once `respChan` is
  closed (NilMeansQueuedUntilClosed). A second `Close` panics in one of the two
  closers, and between them both Go channels are closed. The channels implement
  `Mailbox`.
* *NatsRpc.* Each call ends, with the reply to its own request or an error
  (RpcSpec, OwnReply), and leaves nothing in `sndmap` on any path. The blocking
  send of a late reply always ends: it meets the call or, when the call has
  closed its channel, panics and is recovered, as the comment at natssvr.go:211
  expects. With `co_sche` off a handler that makes a call is never answered
  (natssvr.go:333) but gives up at its timeout, after which the loop goes on.
* *WaitJob.* Without quick_cancel the pool implements `JobPool`: every job runs
  once, every error is returned once, Wait returns last. With quick_cancel jobs
  may be left out, and the pushing goroutine may block for ever: it passed the
  cancel check, then every worker stopped and the channel is full. The run
  shows that this state (`Stranded`) is the only way not to finish.
* *RedisLock.* Two clients never hold the lock together provided
  `MaxAttempt + MaxHold + MaxSkew < Lease`. The code enforces none of these
  bounds: with redigo's timeouts of 3 s to write and 3 s to read, and up to 9
  commands, an attempt can last 54 of the 60 seconds, so what is left for holding
  is small in the worst case. A holder that exceeds it can lose the lock, and its
  `UnLock` then deletes the next holder's key.
* *Dispatch.* A request refused by a filter of any dispatcher on its way meets no
  handler, for every nesting three building calls can make, equal priorities in
  any order, and dispatch by Cmd or by another key. The two-step handler tables
  may show a request dispatched *during* a registration half of it, but nothing
  of it remains: later requests meet the handler last registered. Only two
  registrations of one slot at a time can leave the two maps in disagreement for
  good, and the property excuses exactly that. A publisher refuses a subject if
  and only if no subscription its monitor saw would get it, so what CheckSubj
  guesses by starring tokens from the end agrees with NATS's own matching for
  every subject the library makes.
* *WsConn.* Through breaks and reconnects, as long as nobody calls Close, there is
  one receiver, and it closes its own socket only. Close may race a receiver's
  deferred function for `Ws`: the loser uses a nil pointer, and in a client nobody
  recovers that. Without a Close one unprotected use is left: the sender's deferred
  function logs with ConnInfo, which tests `Ws` and then uses it (websock.go:453),
  after its own recover. A reconnect alone can end the process there, but only in a
  client that has dialled twice, since `Ws` must be set again between a sender's
  panic on nil and its log line; CrashNeedsClose says both. Panics of close_fn, and
  the same log line in a handler's goroutine (websock.go:428), are outside what it
  promises. Close may also race a dial under way: the new socket may be forgotten
  open, and no other ever is. A broken client dials again, unless interval_fn or
  the look-up has panicked, which ends StartDial (websock.go:134) and leaves the
  client without a dialer; and after Close every goroutine ends. One message is
  enough for the sender's races; that a message put back into a queue filled
  meanwhile is dropped and not sent twice is covered by the proof of AtMostOnce.
* *ws_sender* (a finding). The header of websock.go says a client connects on its
  own and can send. If the connection breaks between serializedSend's test of `Ws`
  (line 464) and its use (line 482), the panic ends the sender, nothing starts
  another, and the client reconnects but never sends again.
* *WsRpc.* Each call ends, with the reply to its own request or a failure. A reply
  that comes when its call has just timed out, or second, may find the reply
  channel closed, and then the whole connection is closed with every other call
  on it; a peer that answers once and in time never causes this.
* *ws_peer* (a finding). The comments say that what is found in `sndmap` is a
  reply somebody waits for (websock.go:398, 32). The numbers are counted by each
  process on its own and requests and replies look alike on the wire, so the
  first request of a peer built on the same library is taken for the reply to our
  first call, which returns it without an error.
* *Sql.* Reset makes a used Sqler build what a new one would, but for the counters and
  `ignore`, which it leaves, and for `optype`, which it leaves as well: Insert, Update
  and Delete set it before they build, so only a program that calls the exported
  BuildExecut first thing after a Reset meets the old one, and gets an insert, update
  or delete where a new object has nothing to build. A Where never lets more rows
  through and an OrWhere never fewer, although a condition of no or of more than three
  arguments is dropped without a word (after which a Delete may hit every row).
  UpdateBatch equals updating item by item when the items have the same columns and
  different keys; it ignores what Where collected, and a row that shares only the
  first key of a batch gets NULL. The caller of a transaction is told the truth except
  where the code drops it: BatchExec ignores the error of its commit
  (mysqlpool.go:119), a panic between two statements with the end deferred commits
  half the work, since the end sees no error, and a caller without an error variable
  is told success for whatever part of its statements was carried out
  (mysqlpool.go:91, 98), of which the later ones may have been committed one by one;
  even then none takes effect twice or out of order. Ending twice turns success into
  an error, although the comment at sqlx_api_tx.go:16 says that closing is safe
  multiple times: ToldIsDone names this (`"endedTwice"`) as one of its exceptions.
* *Process.* However edits, signals and half a reload fall together, a signal after
  the last edit leaves the files' own configuration, unless the program crashed:
  replacing a `sync.Map` in use is a race of the code. A session that cannot be
  written as TOML has its values but no text, and the text of the next file that has
  a writable one is taken. Scalar getters return the
  zero value, not the default, for a value of another kind, and array getters
  panic on a Go slice that the program set itself. A setting stored
  without an error is read back unless it is an empty array or an array with a
  string that has a comma or a double quote at an end, and those never are. A text
  with an apostrophe or a backslash is either refused with an error or kept
  changed, never kept as it was. Storing to a missing row reports nothing. Totals are
  exact for every kind of call; the interval values beside them are not.

*Why the bounds are enough.* The queues are as small as lets them be both full
and empty; two goroutines (or calls) are what every race listed among the hazards
needs, one more actor being the consumer, the loop or the network. Sequences 1
and 2 lie below and at the watermark. Five jobs exceed two workers, a full
channel and the job at hand, which is what the stranded Push needs. Time 9 lets
an abandoned lock be stolen twice. Other bounds: `MaxPush`, `MaxReclose`
(Channel), `MaxArrivals` (NatsRpc), `MaxTime` (RedisLock), `MaxSend`, `MaxCount`
(WsConn), `MaxReplies` (WsRpc),
`MaxBuild` (ReqDispatcher), `MaxRegs` (HandlerTable), `MaxCalls` (Sqler),
`MaxArray` (SqlTx), `MaxEdits`, `MaxSets` (ConfigReload), `StoresOn` (MCProcess: after
a value whose text is longer than one token nothing more is stored), `MaxClears`
(Stats).
Three building calls make a filtered dispatcher, its handler and the merge; three
registrations replace a handler of each style by the other and remove it; two
replies race a timeout and each other; arrays of five end in a short piece, a
full one or an empty one; three callers and a clear make two live counters and a
lost interval update. A ChannelManager hands out fewer than
`SeqShift` sequences, as the code's 56 bits do.

*Deadlock* is off where a finished system rests; the cfg says so. In RedisLock
some client can always go on, and the run checks for deadlock.

*Fairness.* Weak fairness of the steps inside a call: the Go scheduler runs a runnable
goroutine, and no such step blocks. `Recv` in Channel is weakly fair: the consumer of
a channel keeps reading. In NatsRpc an armed timer fires and the StartService loop
runs; neither the network nor the users owe a step. In WaitJob job functions return.
In WsConn goroutines that can run do, and a dial tried again and again succeeds
(strong fairness of DialSucceeds, an assumption about the remote side); no message
need arrive, nobody need call Close, and the goroutine of a handler that panicked owes
no step. In WsRpc the steps of a call and of the receive loop are weakly fair: the
timer of a wait always fires, so a call owes its end to nobody; the peer, the network
and the application owe nothing. RedisLock and the parts of dispatch, sql and process
have safety only and assume no fairness.

## 4. What is proved

`tlapm` proves, for every value of the constants that satisfies the named
assumptions, without any of TLC's bounds:

* **ChannelProofs** (from `ChannelAssumption`): Typing, UniqueSequences, Routing,
  Delivery and Unregistered, that is every invariant of the run channel_safety.
  None but DeliveredIsPrefix is inductive alone. `IInv` adds: every allocated
  channel's sequence is its counter value plus a high byte, and counter values
  differ (`CountersUnique`, with the division lemmas `DivisionUnique` and
  `SequenceParts`, gives uniqueness); the registry holds a channel only under its
  own sequence (`MapMatches`); a channel being stored is not closed and a closing
  one is already out of the registry (`Lifecycle`); a push in progress is aimed
  at the channel of its message's sequence (`Addressed`). `InvStep` has one step
  per action.
* **RedisLockProofs** (from `RedisLockAssumption`): Typing, Exclusion and
  Protection, for any number of clients, tries and times. The stored value is
  not the holder's own, because a late GETSET may replace it, so what is inductive
  is a bound: the value is at most `MaxAttempt` older than the moment the holder
  took the lock (`Fresh`), since every writer read its clock that recently. A
  thief has seen an expired value (`ExpiredSeen`), which by the bound cannot be
  the one stored while somebody holds (`NoTheft`). `Update` reduces a step to the
  record of the one client that moves.

* **NatsRpcProofs** (from `NatsAssumption`): Typing, OwnReplies, NoLeak,
  NestedNever, that is every invariant of the run nats_rpc, and CallsImplementRpc,
  the safety half of RpcSpec, for any number of calls, queue lengths and
  sequences. `IInv` follows a number on its way. The numbers of the calls lie
  above the watermark of the channel sequences, are different, and were all
  counted (`CallsOK`); `sndmap` is the inverse of the numbers of the calls in
  progress (`MapOK`); each message in the send queue, on the network and in
  `ch_recv` carries the number of the execution it belongs to (`MsgsOK`); what the
  loop is about to send to a reply channel is the reply to that channel's call,
  what a call was handed is its own, and a call made inside the loop keeps the
  loop in its handler (`LoopOK`, which gives NestedNever: nothing else can read
  `ch_recv`). OwnReply needs all of them, since a reply is matched by nothing but
  its number. `CallChanges` and `LoopChanges` say once what any step may
  do to a call and to the loop, and each part of `IInv` has a lemma of its own
  (`CallsStep`, `MapStep`, `MsgsStep`, `SendsOwnStep`, `HandedStep`).
  `RpcStep` then maps each step to one of RpcCall's or a stutter.

* **ChannelProofs**, further: NilMeansQueued, the action property (a push that
  returns nil without queueing finds `respChan` closed, from `IInv` and the step
  alone), and MailboxesImplemented, the safety half of MailboxSpec.
* **DispatchProofs**. *HandlerTable* (from `HandlerTableAssumption`): RightHandler,
  for any number of commands, registrars and dispatches and any names for the
  commands (`SlotIsSlot`). `TableInv` says that the
  table of the new style always agrees with what was registered (`CtxOK`), that of
  the old style where it is looked at, outside the slots whose registrations
  overlapped (`OldOK`), and where on its way to the handler an undisturbed dispatch
  is (`ReqOK`). *NatsSubjects* (from `SubjectsAssumption`, of which `"*" \notin
  Names` keeps a service's name apart from the wildcard): ServedExactly. The
  invariant types what is subscribed and collected; the rest is that CheckSubj's
  starring from the end and NATS's matching agree on every subject of the library
  (`StarredTokens` and what follows). *ReqDispatcher* (from `DispAssumption`):
  NoHandlerPastAFilter, for any number of dispatchers, merged in any way. What is
  called from a dispatcher stands below it (`DispInvariant`), so the recursion of
  RunHandlerEx has a solution (`RunExists`), and a least dispatcher with a bad
  result would have another below it (`AllGood`).
* **ProcessProofs**. *WaitJob* (from `WaitJobAssumption`): Typing, ErrorsKept and
  PoolImplemented, the safety half of PoolSpec, for any number of jobs and workers.
  `IInv` says in which one place each job is (`QueueOK`, `HeldOK`, `RunsOK`), that
  none is lost but by a cancel (`NoneLost`), the same of each error (`ErrorsOK`), and
  what the closed channels say of the goroutines (`PhaseOK`, `StopOK`); without these
  two, Wait could return before the collector has the last error. *Stats* (from
  `StatAssumption`): TotalsAreExact, for any number of callers. `StatInv` keeps, for
  each counter ever made, which calls its total counts (`TotalOK`) and what a call
  in progress has read (`CallOK`): a swap that succeeds replaces exactly the value
  its call improved on. *ConfigReload* (from `ConfigAssumption`): ConfigIsCurrent, for
  any files. `ConfigInv` counts, for each key and each session, how many files the
  loader has taken in (`KeyDone`, `SessionDone`) once no signal is outstanding
  (`Settled`), and says that the maps hold what those files give (`CfgsAt`, `SssAt`).
* **WsRpcProofs**, for any number of calls and replies. For any peer, OnlyByNumber:
  what a call returns is the reply to its own request or a request of the peer's
  that carries the same number, never the reply to another call. `AnyInv` says whose
  entry `sndmap` holds (`MapOK`) and that what a reply channel holds, a caller got or
  the loop is about to send belongs to the call by its number (`CarriesOwn`). ToreLate
  and CallsImplementRpc, the safety half of RpcSpec, hold under the hypothesis
  `BrowserPeer`: the peer puts no number on its own requests. That is how a browser
  behaves; with a peer built on this library a request can take a reply's place,
  which is the finding ws_peer. `IInv` adds that what a call is handed is a reply
  (`RepliesOwn`) and, by counting them, that replies given, waiting and in the loop's
  hands are no more than were read (`CountsOK`), which shows that a connection is torn
  only by a reply too many or too late.
* **WsConnProofs** (from `WsConnAssumption`): Typing, OneReceiver, NoCrashBeforeClose,
  LeaksAreLate and WrittenOnce, that is every invariant of the run ws_conn, for any
  number of sockets and messages. `SockInv` says who may still touch `Ws`: before a
  Close has signalled only the dialer, which finds it nil (`DialsNil`), and the
  receiver of its own socket; afterwards whoever clears it has closed what it holds,
  or what it holds came late (`ClearsShut`, `Kept`, `Pending`). `MsgInv` keeps each
  message in one place. `SeenTwice` counts how often `Ws` has been set: a sender that
  panicked on a nil `Ws` and finds it not nil again has seen two dials, so
  NoCrashBeforeClose covers the sender's log line as well as Close and the receiver.
* **SqlProofs**. *SqlTx* (from `SqlTxAssumption`): ToldTheTruth, for any number of
  statements, any array and any size of its pieces. `TxInv` says what is in the
  transaction at each program point (`Executing`, `Ending`), that an array has gone in
  by whole pieces (`Inserting`, with `WholePiece` about remainders), and that the
  error variable, if there is one, agrees with what was told (`Ended`); for callers
  without one it still keeps what is committed, and what is not yet, in increasing
  order. *Sqler*: ResetIsComplete, as
  `SqlerInv` keeps the used object equal to the fresh one field by field, `optype`
  apart, which either is the same in both or is still unset in the fresh one
  (`Alike`, `AlikeGiven`: after Insert, Update or Delete it is the same);
  WhereOnlyNarrows, for any list of conditions (`KeptAppend`: one more comes last in
  what parseWhere keeps, or not at all; `HitByOneMore`: what that does to the rows);
  and, from `SqlerAssumption`, BatchesAreExact, for any number of items and keys
  (`WrittenAtMostOnce`: of a regular batch at most one item changes a row).
  *SysConfig* (from `SysAssumption`): StoredIsRead, which states ReadBack with its
  "and for no other value", for texts of any length. A text without an apostrophe or
  a backslash is read as itself, and one with either never is (`LiteralsOwn`, from
  what the lexer makes of each prefix, `LexedIs`). Split undoes Joined when no part
  has a comma and gives more parts when one has (`SplitJoined`, `SplitJoinedMore`);
  Trim gives back what stands between brackets or quotes when its own ends are none,
  and never returns a text that still has one at an end (`TrimIs`, `TrimEnds`). Each
  kind of value then has a lemma (`BoolReadsBack` to `StringsReadBack`).

The assumptions say no more of the constants than that they are numbers, finite sets,
or sets of the right kind apart from each other, with three exceptions:
`RedisLockAssumption` bounds an attempt, a hold and a skew by the lease, which the code
does not enforce (section 3); `SqlerAssumption` says that a batch has a key and no
item has the value that stands for NULL; and the hypothesis `BrowserPeer` above. TLC
evaluates every ASSUME in the runs.

Some definitions compute over data: a dispatcher's run and the replies that `Combined`
joins, `Fitting` (the elements of an array that are of the kind asked for), `Kept`
(parseWhere), `ItemByItem`, `Joined`, `Split` and `Lexed`. Each is a recursive
function, and the proofs show that its equation has a solution, from the order of the
numbers being well founded (`LeastNat`, `SetInduction`).

Only model-checked:

* liveness and fairness, which the installed provers do not handle: CloseCompletes,
  LoopResumes, EndsOrStranded, Reconnects, CloseEndsAll, and the fairness parts of
  MailboxSpec, RpcSpec (twice) and PoolSpec, whose safety parts are proved;
* the two findings, which are counterexamples.

## 5. Plan

1. A service that restarts with the same mark (natssvr.go:331): a late reply to
   the process before it may carry a number in use again.
2. WsConn and WsRpc composed, so that a torn connection is dialled again under
   calls in progress; the handing over of the connection in DistributedLock.

## 6. Not modelled, and why

* *No state worth checking*: encryption, HTTP and SMTP clients, error values, flag
  parsing, JSON, log files and their rotation, the start-up sequence of
  app_env.go, the conversions of utils.go, bit sets (each operation is an assignment
  on one word).
* *Parsing*: TOML, struct tags and ParseCmdArgs of config.go, quoting and the
  translation of names in sqler.go; an InitConfig without a callback, which
  differs only in not reloading.
* *Hooks*: AddHook copies a table, and the file forbids concurrent calls.
  *Tasks*: SafeAsyncTask and its relatives are recover loops around a callback.
  *Signals*: a loop that calls a callback (config's own is in ConfigReload).
* *Redis commands and pipeline*: one command each; what a failed command inside
  MULTI leaves behind (redispool.go:230) is decided by redigo when it takes the
  connection back.
* *External*: NATS, Redis, MySQL and the Go runtime are modelled by what the code
  in `src/` relies on. ntask = 0, a nil ChannelManager and Push from several
  goroutines at once are outside the models, as are counters that mix StatSet
  with StatChg on one key. `Data` and the other payloads are abstracted to a
  message's number.
