---------------------------- MODULE ProcessProofs ----------------------------
(***************************************************************************)
(* Theorems about the goroutines inside one process.                       *)
(*                                                                         *)
(* WaitJob, for any number of jobs and of workers, with and without        *)
(* quick_cancel.  The inductive invariant says where each job is: not yet  *)
(* pushed, in the channel, with one worker, run once, or dropped after a   *)
(* cancel; and where each error is: with one worker, in the error channel  *)
(* or collected.                                                           *)
(*                                                                         *)
(* Stats, for any number of calls: which of them a total counts.           *)
(*                                                                         *)
(* ConfigReload, for any files: how far the loader has taken each key and  *)
(* each session in.                                                        *)
(***************************************************************************)
EXTENDS WaitJob, Stats, ConfigReload, FiniteSetTheorems, SequenceTheorems,
        WellFoundedInduction, TLAPS

Holds(w) == worker[w].pc \in {"got", "run"}
Reports(w) == worker[w].pc = "report"
Stopped(w) == worker[w].pc \in {"off", "gone"}
Gone == {w \in Workers : worker[w].pc = "gone"}
In(j, s) == \E i \in DOMAIN s : s[i] = j
Distinct(s) == \A i, k \in DOMAIN s : s[i] = s[k] => i = k

(* Jobs in the channel or with a worker were pushed, have not run, and are *)
(* in one place.                                                           *)
QueueOK == /\ Distinct(ch.buf)
           /\ \A j \in Jobs : In(j, ch.buf) => j < pusher.job /\ runs[j] = 0

HeldOK ==
    /\ \A w \in Workers : Holds(w) =>
         /\ worker[w].job \in Jobs /\ worker[w].job < pusher.job
         /\ runs[worker[w].job] = 0
         /\ ~In(worker[w].job, ch.buf)
    /\ \A v, w \in Workers : Holds(v) /\ Holds(w) /\ worker[v].job = worker[w].job => v = w

(* A job runs at most once, when it was pushed, and fails when it ran.     *)
RunsOK == /\ \A j \in Jobs : runs[j] \in {0, 1}
          /\ \A j \in Jobs : pusher.job <= j => runs[j] = 0
          /\ \A j \in failed : runs[j] = 1

(* A job that was pushed and has not run is still somewhere, unless the    *)
(* pool was cancelled.                                                     *)
Waiting(j) == In(j, ch.buf) \/ \E w \in Workers : Holds(w) /\ worker[w].job = j

NoneLost == \A j \in Jobs : j < pusher.job /\ runs[j] = 0 => Waiting(j) \/ Cancelled

(* An error is in one place, and only there.                               *)
ErrorsOK ==
    /\ Distinct(errch.buf) /\ Distinct(epara)
    /\ \A j \in Jobs : In(j, errch.buf) => j \in failed /\ ~In(j, epara)
    /\ \A j \in Jobs : In(j, epara) => j \in failed
    /\ \A w \in Workers : Reports(w) =>
         /\ worker[w].job \in failed
         /\ ~In(worker[w].job, errch.buf) /\ ~In(worker[w].job, epara)
    /\ \A v, w \in Workers : Reports(v) /\ Reports(w) /\ worker[v].job = worker[w].job => v = w
    /\ \A j \in failed : \/ In(j, errch.buf) \/ In(j, epara)
                         \/ \E w \in Workers : Reports(w) /\ worker[w].job = j

(* What has been closed, and what that says of the goroutines.             *)
PhaseOK ==
    /\ pusher.pc \in {"grow", "send"} => pusher.job \in Jobs
    /\ ch.closed <=> pusher.pc \in {"wg", "errwg", "done"}
    /\ ch.closed => pusher.job = NJobs + 1
    /\ errch.closed <=> pusher.pc \in {"errwg", "done"}
    /\ errch.closed => \A w \in Workers : Stopped(w)
    /\ collector = "gone" => errch.closed /\ errch.buf = << >>
    /\ pusher.pc = "done" => collector = "gone"

(* Workers are started in order, and stop only when the channel is closed  *)
(* and empty or the pool was cancelled, which takes an error.              *)
StopOK ==
    /\ \A w \in Workers : worker[w].pc = "off" <=> w > NTask - left
    /\ \A w \in Workers : worker[w].pc = "gone" => Cancelled \/ Drained(ch)
    /\ \A w \in Workers : worker[w].pc = "cancel" => quick /\ failed # {}
    /\ cancel # 0 => failed # {}
    /\ cancel <= Cardinality(Gone)

IInv == TypeOK /\ QueueOK /\ HeldOK /\ RunsOK /\ NoneLost /\ ErrorsOK /\ PhaseOK /\ StopOK
-----------------------------------------------------------------------------
(* The steps, field by field: what is written, the rest of a record being  *)
(* as before.                                                              *)
ChanType == [buf : Seq(Jobs), closed : BOOLEAN]
WorkerPcs == {"off", "recv", "got", "run", "report", "cancel", "gone"}
WorkerType == [pc : WorkerPcs, job : 0 .. NJobs]
PusherType == [pc : {"check", "grow", "send", "wg", "errwg", "done"}, job : 1 .. NJobs + 1]

Moves(w, pc, job) ==
    /\ worker' \in [Workers -> WorkerType]
    /\ \A v \in Workers \ {w} : worker'[v] = worker[v]
    /\ worker'[w].pc = pc /\ worker'[w].job = job

PusherTo(pc, job) == pusher' \in PusherType /\ pusher'.pc = pc /\ pusher'.job = job

Becomes(c, buf, closed) == c \in ChanType /\ c.buf = buf /\ c.closed = closed

(* Writing one worker's pc, or its whole record, leaves the others alone.  *)
LEMMA WorkerMoves ==
    ASSUME worker \in [Workers -> WorkerType], NEW w \in Workers, NEW pc \in WorkerPcs
    PROVE  /\ worker' = [worker EXCEPT ![w].pc = pc] => Moves(w, pc, worker[w].job)
           /\ \A j \in 0 .. NJobs : worker' = [worker EXCEPT ![w] = [pc |-> pc, job |-> j]]
                                      => Moves(w, pc, j)
<1>1. /\ [worker[w] EXCEPT !.pc = pc] \in WorkerType
      /\ [worker[w] EXCEPT !.pc = pc].pc = pc
      /\ [worker[w] EXCEPT !.pc = pc].job = worker[w].job
  BY DEF WorkerType
<1>2. ASSUME worker' = [worker EXCEPT ![w].pc = pc] PROVE Moves(w, pc, worker[w].job)
  <2>1. worker' = [worker EXCEPT ![w] = [worker[w] EXCEPT !.pc = pc]]
    BY <1>2
  <2>2. PICK r : r = [worker[w] EXCEPT !.pc = pc]
    OBVIOUS
  <2> QED
    BY <2>1, <2>2, <1>1 DEF Moves
<1>3. ASSUME NEW j \in 0 .. NJobs, worker' = [worker EXCEPT ![w] = [pc |-> pc, job |-> j]]
      PROVE  Moves(w, pc, j)
  BY <1>3 DEF Moves, WorkerType
<1> QED
  BY <1>2, <1>3

(* The same for the pusher.                                                *)
LEMMA PusherMoves ==
    ASSUME pusher \in PusherType,
           NEW pc \in {"check", "grow", "send", "wg", "errwg", "done"}, NEW job \in 1 .. NJobs + 1
    PROVE  /\ pusher' = [pusher EXCEPT !.pc = pc] => PusherTo(pc, pusher.job)
           /\ pusher' = [pusher EXCEPT !.job = job] => PusherTo(pusher.pc, job)
           /\ pusher' = [pc |-> pc, job |-> job] => PusherTo(pc, job)
  BY DEF PusherType, PusherTo

(* A channel after a send, a receive and a close.                          *)
LEMMA ChanMoves ==
    ASSUME NEW c \in ChanType
    PROVE  /\ \A x \in Jobs : Becomes(Push1(c, x), Append(c.buf, x), c.closed)
           /\ c.buf # << >> => Becomes(Pop(c), Tail(c.buf), c.closed)
           /\ Becomes([c EXCEPT !.closed = TRUE], c.buf, TRUE)
<1>1. c.buf \in Seq(Jobs) /\ c.closed \in BOOLEAN
  BY DEF ChanType
<1>2. ASSUME NEW x \in Jobs PROVE Becomes(Push1(c, x), Append(c.buf, x), c.closed)
  <2>1. Append(c.buf, x) \in Seq(Jobs)
    BY <1>1
  <2> QED
    BY <1>1, <2>1 DEF Becomes, Push1, ChanType
<1>3. ASSUME c.buf # << >> PROVE Becomes(Pop(c), Tail(c.buf), c.closed)
  <2>1. Tail(c.buf) \in Seq(Jobs)
    BY <1>1, <1>3
  <2> QED
    BY <1>1, <2>1 DEF Becomes, Pop, ChanType
<1>4. Becomes([c EXCEPT !.closed = TRUE], c.buf, TRUE)
  BY <1>1 DEF Becomes, ChanType
<1> QED
  BY <1>2, <1>3, <1>4
-----------------------------------------------------------------------------
(* The actions in these terms.                                             *)
LEMMA TypeFields ==
    ASSUME TypeOK
    PROVE  /\ ch \in ChanType /\ errch \in ChanType
           /\ worker \in [Workers -> WorkerType] /\ pusher \in PusherType
           /\ ch.buf \in Seq(Jobs) /\ errch.buf \in Seq(Jobs)
           /\ ch.closed \in BOOLEAN /\ errch.closed \in BOOLEAN
           /\ pusher.job \in 1 .. NJobs + 1
           /\ \A w \in Workers : worker[w].pc \in WorkerPcs /\ worker[w].job \in 0 .. NJobs
  BY DEF TypeOK, ChanType, WorkerType, WorkerPcs, PusherType

(* What Push and Wait write, step by step (waitjob.go:25-46).              *)
LEMMA PusherEffects ==
    ASSUME TypeOK, pusher.pc = "send" => pusher.job \in Jobs
    PROVE  /\ PushCheck => \/ Cancelled /\ PusherTo("check", pusher.job + 1)
                           \/ ~Cancelled /\ PusherTo("grow", pusher.job)
           /\ PushGrow =>
                /\ PusherTo("send", pusher.job)
                /\ \/ /\ left > 0 /\ left' = left - 1
                      /\ Moves(NTask - left + 1, "recv", worker[NTask - left + 1].job)
                   \/ UNCHANGED <<left, worker>>
           /\ PushSend => /\ PusherTo("check", pusher.job + 1)
                          /\ Becomes(ch', Append(ch.buf, pusher.job), ch.closed)
           /\ WaitClose => PusherTo("wg", pusher.job) /\ Becomes(ch', ch.buf, TRUE)
           /\ WaitWorkers => PusherTo("errwg", pusher.job) /\ Becomes(errch', errch.buf, TRUE)
           /\ WaitCollector => PusherTo("done", pusher.job)
<1> USE WaitJobAssumption, TypeFields
<1>1. pusher.job \in Jobs => pusher.job + 1 \in 1 .. NJobs + 1
  BY DEF Jobs
<1>2. PushCheck => \/ Cancelled /\ PusherTo("check", pusher.job + 1)
                   \/ ~Cancelled /\ PusherTo("grow", pusher.job)
  BY <1>1, PusherMoves DEF PushCheck
<1>3. ASSUME PushGrow
      PROVE  /\ PusherTo("send", pusher.job)
             /\ \/ /\ left > 0 /\ left' = left - 1
                   /\ Moves(NTask - left + 1, "recv", worker[NTask - left + 1].job)
                \/ UNCHANGED <<left, worker>>
  <2>1. PusherTo("send", pusher.job)
    BY <1>3, PusherMoves DEF PushGrow
  <2>2. CASE left > 0 /\ ch.buf # << >>
    <3>1. NTask - left + 1 \in Workers
      BY <2>2 DEF TypeOK, Workers
    <3> QED
      BY <1>3, <2>1, <2>2, <3>1, WorkerMoves DEF PushGrow, WorkerPcs
  <2> QED
    BY <1>3, <2>1, <2>2 DEF PushGrow
<1>4. PushSend => /\ PusherTo("check", pusher.job + 1)
                  /\ Becomes(ch', Append(ch.buf, pusher.job), ch.closed)
  BY <1>1, PusherMoves, ChanMoves DEF PushSend
<1>5. WaitClose => PusherTo("wg", pusher.job) /\ Becomes(ch', ch.buf, TRUE)
  BY PusherMoves, ChanMoves DEF WaitClose
<1>6. WaitWorkers => PusherTo("errwg", pusher.job) /\ Becomes(errch', errch.buf, TRUE)
  <2>1. WaitWorkers => PusherTo("errwg", pusher.job)
    BY PusherMoves DEF WaitWorkers
  <2>2. WaitWorkers => Becomes(errch', errch.buf, TRUE)
    BY ChanMoves DEF WaitWorkers
  <2> QED
    BY <2>1, <2>2
<1>7. WaitCollector => PusherTo("done", pusher.job)
  BY PusherMoves DEF WaitCollector
<1> QED
  BY <1>2, <1>3, <1>4, <1>5, <1>6, <1>7

(* What a routine goroutine writes, step by step (waitjob.go:48-66).       *)
LEMMA WorkerEffects ==
    ASSUME TypeOK, NEW w \in Workers
    PROVE  LET j == worker[w].job IN
           /\ Take(w) =>
                \/ /\ ch.buf # << >> /\ Moves(w, "got", Head(ch.buf)) /\ Head(ch.buf) \in Jobs
                   /\ Becomes(ch', Tail(ch.buf), ch.closed)
                \/ Drained(ch) /\ Moves(w, "gone", j) /\ UNCHANGED ch
           /\ CheckCancel(w) => \/ Cancelled /\ Moves(w, "gone", j)
                                \/ ~Cancelled /\ Moves(w, "run", j)
           /\ Execute(w) => \/ Moves(w, "recv", j) /\ UNCHANGED failed
                            \/ Moves(w, "report", j) /\ failed' = failed \cup {j}
           /\ ReportError(w) => /\ \/ quick /\ Moves(w, "cancel", j)
                                   \/ ~quick /\ Moves(w, "recv", j)
                                /\ j \in Jobs =>
                                     Becomes(errch', Append(errch.buf, j), errch.closed)
           /\ CancelAll(w) => Moves(w, "gone", j)
<1> DEFINE j == worker[w].job
<1> USE TypeFields
<1>1. \A pc \in WorkerPcs : worker' = [worker EXCEPT ![w].pc = pc] => Moves(w, pc, j)
  BY WorkerMoves
<1>2. ASSUME Take(w)
      PROVE  \/ /\ ch.buf # << >> /\ Moves(w, "got", Head(ch.buf)) /\ Head(ch.buf) \in Jobs
                /\ Becomes(ch', Tail(ch.buf), ch.closed)
             \/ Drained(ch) /\ Moves(w, "gone", j) /\ UNCHANGED ch
  <2>1. CASE ch.buf # << >> /\ worker' = [worker EXCEPT ![w] = [pc |-> "got", job |-> Head(ch.buf)]]
             /\ ch' = Pop(ch)
    <3>1. Head(ch.buf) \in Jobs
      BY <2>1, HeadTailProperties
    <3>2. Head(ch.buf) \in 0 .. NJobs
      BY <3>1 DEF Jobs
    <3> QED
      BY <2>1, <3>1, <3>2, WorkerMoves, ChanMoves DEF WorkerPcs
  <2> QED
    BY <1>1, <1>2, <2>1 DEF Take, WorkerPcs
<1>3. CheckCancel(w) => \/ Cancelled /\ Moves(w, "gone", j)
                        \/ ~Cancelled /\ Moves(w, "run", j)
  BY <1>1 DEF CheckCancel, WorkerPcs
<1>4. Execute(w) => \/ Moves(w, "recv", j) /\ UNCHANGED failed
                    \/ Moves(w, "report", j) /\ failed' = failed \cup {j}
  BY <1>1 DEF Execute, WorkerPcs
<1>5. ReportError(w) => /\ \/ quick /\ Moves(w, "cancel", j)
                           \/ ~quick /\ Moves(w, "recv", j)
                        /\ j \in Jobs => Becomes(errch', Append(errch.buf, j), errch.closed)
  BY <1>1, ChanMoves DEF ReportError, WorkerPcs
<1>6. CancelAll(w) => Moves(w, "gone", j)
  BY <1>1 DEF CancelAll, WorkerPcs
<1> QED
  BY <1>2, <1>3, <1>4, <1>5, <1>6
-----------------------------------------------------------------------------
(* Workers that have gone: how their number changes.                       *)
LEMMA GoneCounts ==
    ASSUME TypeOK
    PROVE  /\ IsFiniteSet(Gone) /\ Cardinality(Gone) \in 0 .. NTask
           /\ \A w \in Workers \ Gone :
                 /\ Cardinality(Gone \cup {w}) = Cardinality(Gone) + 1
                 /\ Cardinality(Gone) + 1 <= NTask
<1>1. IsFiniteSet(Workers) /\ Cardinality(Workers) = NTask
  BY WaitJobAssumption, FS_Interval DEF Workers
<1>2. \A S \in SUBSET Workers : IsFiniteSet(S) /\ Cardinality(S) \in 0 .. NTask
  BY <1>1, FS_Subset, FS_CardinalityType, WaitJobAssumption
<1>3. Gone \in SUBSET Workers
  BY DEF Gone
<1>4. ASSUME NEW w \in Workers \ Gone
      PROVE  /\ Cardinality(Gone \cup {w}) = Cardinality(Gone) + 1
             /\ Cardinality(Gone) + 1 <= NTask
  <2>1. Gone \cup {w} \in SUBSET Workers
    BY <1>3
  <2>2. Cardinality(Gone \cup {w}) = Cardinality(Gone) + 1
    BY <1>2, <1>3, FS_AddElement
  <2>3. Cardinality(Gone \cup {w}) \in 0 .. NTask
    BY <1>2, <2>1
  <2> QED
    BY <2>2, <2>3, WaitJobAssumption
<1> QED
  BY <1>2, <1>3, <1>4

(* The types: the counters stay in their ranges because each worker is     *)
(* started once, and cancels once.                                         *)
TypesKept ==
    /\ ch \in ChanType /\ Len(ch.buf) <= NTask
    /\ errch \in ChanType /\ Len(errch.buf) <= NTask
    /\ left \in 0 .. NTask - 1 /\ cancel \in 0 .. NTask
    /\ pusher \in PusherType /\ worker \in [Workers -> WorkerType]
    /\ collector \in {"on", "gone"} /\ epara \in Seq(Jobs)
    /\ runs \in [Jobs -> Nat] /\ failed \subseteq Jobs /\ quick \in BOOLEAN

(* TypeOK and its field form are the same.                                 *)
LEMMA TypesSame == TypeOK <=> TypesKept
  BY DEF TypeOK, TypesKept, ChanType, WorkerType, WorkerPcs, PusherType

(* Every step keeps the types and the two channels' capacities.            *)
LEMMA TypeStep ==
    ASSUME IInv, [Next]_vars
    PROVE  TypeOK'
<1> SUFFICES TypesKept'
  BY DEF TypeOK, TypesKept, ChanType, WorkerType, WorkerPcs, PusherType
<1> USE WaitJobAssumption
<1>0. /\ TypeOK /\ TypesKept /\ PhaseOK /\ StopOK /\ HeldOK /\ ErrorsOK
      /\ pusher.pc = "send" => pusher.job \in Jobs
  BY TypesSame DEF IInv, PhaseOK
<1>1. CASE PushCheck
  BY <1>0, <1>1, PusherEffects DEF TypesKept, PushCheck, PusherTo
<1>2. CASE PushGrow
  BY <1>0, <1>2, PusherEffects DEF TypesKept, PushGrow, PusherTo, Moves
<1>3. CASE PushSend
  <2>1. Len(Append(ch.buf, pusher.job)) <= NTask
    BY <1>0, <1>3, TypeFields, AppendProperties DEF PushSend
  <2> QED
    BY <1>0, <1>3, <2>1, PusherEffects DEF TypesKept, PushSend, PusherTo, Becomes
<1>4. CASE WaitClose
  BY <1>0, <1>4, PusherEffects DEF TypesKept, WaitClose, PusherTo, Becomes
<1>5. CASE WaitWorkers
  BY <1>0, <1>5, PusherEffects DEF TypesKept, WaitWorkers, PusherTo, Becomes
<1>6. CASE WaitCollector
  BY <1>0, <1>6, PusherEffects DEF TypesKept, WaitCollector, PusherTo
<1>7. CASE Collect
  <2>1. CASE errch.buf # << >> /\ epara' = Append(epara, Head(errch.buf)) /\ errch' = Pop(errch)
               /\ UNCHANGED collector
    <3>1. /\ Head(errch.buf) \in Jobs /\ Len(Tail(errch.buf)) <= NTask
      BY <1>0, <2>1, TypeFields, HeadTailProperties, LenProperties DEF TypesKept
    <3>2. errch' \in ChanType /\ errch'.buf = Tail(errch.buf)
      BY <1>0, <2>1, ChanMoves DEF TypesKept, Becomes
    <3>3. epara' \in Seq(Jobs)
      BY <1>0, <2>1, <3>1, AppendProperties DEF TypesKept
    <3> QED
      BY <1>0, <1>7, <2>1, <3>1, <3>2, <3>3 DEF TypesKept, Collect
  <2> QED
    BY <1>0, <1>7, <2>1 DEF TypesKept, Collect
<1>8. ASSUME NEW w \in Workers, Take(w) PROVE TypesKept'
  <2>1. ch.buf # << >> => Len(Tail(ch.buf)) <= NTask
    BY <1>0, TypeFields, HeadTailProperties, LenProperties DEF TypesKept
  <2> QED
    BY <1>0, <1>8, <2>1, WorkerEffects DEF TypesKept, Take, Moves, Becomes
<1>9. ASSUME NEW w \in Workers, CheckCancel(w) PROVE TypesKept'
  BY <1>0, <1>9, WorkerEffects DEF TypesKept, CheckCancel, Moves
<1>10. ASSUME NEW w \in Workers, Execute(w) PROVE TypesKept'
  <2>1. worker[w].job \in Jobs
    BY <1>0, <1>10 DEF HeldOK, Holds, Execute
  <2>2. runs' \in [Jobs -> Nat]
    BY <1>0, <1>10, <2>1 DEF TypesKept, Execute
  <2>3. worker' \in [Workers -> WorkerType] /\ failed' \subseteq Jobs
    BY <1>0, <1>10, <2>1, WorkerEffects DEF TypesKept, Moves
  <2>4. UNCHANGED <<quick, ch, errch, left, cancel, pusher, collector, epara>>
    BY <1>10 DEF Execute
  <2> QED
    BY <1>0, <2>2, <2>3, <2>4 DEF TypesKept
<1>11. ASSUME NEW w \in Workers, ReportError(w) PROVE TypesKept'
  <2>1. worker[w].job \in Jobs
    BY <1>0, <1>11 DEF ErrorsOK, Reports, ReportError, TypesKept
  <2>2. Len(Append(errch.buf, worker[w].job)) <= NTask
    BY <1>0, <1>11, <2>1, TypeFields, AppendProperties DEF ReportError
  <2> QED
    BY <1>0, <1>11, <2>1, <2>2, WorkerEffects DEF TypesKept, ReportError, Moves, Becomes
<1>12. ASSUME NEW w \in Workers, CancelAll(w) PROVE TypesKept'
  <2>1. w \in Workers \ Gone
    BY <1>12 DEF CancelAll, Gone
  <2>a. cancel \in Nat /\ cancel <= Cardinality(Gone)
    BY <1>0 DEF TypesKept, StopOK
  <2>b. Cardinality(Gone) \in 0 .. NTask
    BY <1>0, GoneCounts
  <2>c. Cardinality(Gone) + 1 <= NTask
    BY <1>0, <2>1, GoneCounts, Zenon
  <2>2. cancel + 1 \in 0 .. NTask
    BY <2>a, <2>b, <2>c
  <2> QED
    BY <1>0, <1>12, <2>2, WorkerEffects DEF TypesKept, CancelAll, Moves
<1>13. CASE UNCHANGED vars
  BY <1>0, <1>13 DEF TypesKept, vars
<1> QED
  BY <1>1, <1>2, <1>3, <1>4, <1>5, <1>6, <1>7, <1>8, <1>9, <1>10, <1>11, <1>12, <1>13
     DEF Next, Pusher, Worker
-----------------------------------------------------------------------------
(* What is in a queue after an element joined it, or its head left.        *)
LEMMA AppendIn ==
    ASSUME NEW S, NEW q \in Seq(S), NEW x \in S
    PROVE  /\ \A j : In(j, Append(q, x)) <=> In(j, q) \/ j = x
           /\ Distinct(q) /\ ~In(x, q) => Distinct(Append(q, x))
<1>1. /\ DOMAIN q = 1 .. Len(q) /\ Len(q) \in Nat
      /\ DOMAIN Append(q, x) = 1 .. Len(q) + 1
      /\ \A i \in 1 .. Len(q) : Append(q, x)[i] = q[i]
      /\ Append(q, x)[Len(q) + 1] = x
  BY AppendProperties, LenProperties
<1> QED
  BY <1>1 DEF In, Distinct

(* A queue whose head was taken.                                           *)
LEMMA TailIn ==
    ASSUME NEW S, NEW q \in Seq(S), q # << >>
    PROVE  /\ \A j : In(j, q) <=> In(j, Tail(q)) \/ j = Head(q)
           /\ Distinct(q) => Distinct(Tail(q)) /\ ~In(Head(q), Tail(q))
<1>1. /\ DOMAIN q = 1 .. Len(q) /\ Len(q) \in Nat \ {0} /\ Head(q) = q[1]
      /\ DOMAIN Tail(q) = 1 .. Len(q) - 1
      /\ \A i \in 1 .. Len(q) - 1 : Tail(q)[i] = q[i + 1]
  <2>1. Head(q) = q[1]
    BY EmptySeq
  <2> QED
    BY <2>1, EmptySeq, HeadTailProperties, LenProperties
<1>2. ASSUME NEW j, In(j, q) PROVE In(j, Tail(q)) \/ j = Head(q)
  <2>1. PICK i \in 1 .. Len(q) : q[i] = j
    BY <1>1, <1>2 DEF In
  <2>2. CASE i # 1
    <3>1. i - 1 \in 1 .. Len(q) - 1 /\ Tail(q)[i - 1] = j
      BY <1>1, <2>1, <2>2
    <3> QED
      BY <1>1, <3>1 DEF In
  <2> QED
    BY <1>1, <2>1, <2>2
<1>3. ASSUME NEW j, In(j, Tail(q)) \/ j = Head(q) PROVE In(j, q)
  BY <1>1, <1>3 DEF In
<1>4. ASSUME Distinct(q) PROVE Distinct(Tail(q))
  BY <1>1, <1>4 DEF Distinct
<1>5. ASSUME Distinct(q) PROVE ~In(Head(q), Tail(q))
  BY <1>1, <1>5 DEF Distinct, In
<1> QED
  BY <1>2, <1>3, <1>4, <1>5
-----------------------------------------------------------------------------
(* Jobs: what is pushed has not run, and a job taken leaves the channel.   *)
LEMMA QueueStep ==
    ASSUME IInv, [Next]_vars
    PROVE  QueueOK'
<1>0. /\ TypeOK /\ QueueOK /\ HeldOK /\ RunsOK /\ runs \in [Jobs -> Nat]
      /\ pusher.pc \in {"grow", "send"} => pusher.job \in Jobs
  BY DEF IInv, TypeOK, PhaseOK
<1> USE WaitJobAssumption, TypeFields DEF Jobs
<1>1. CASE PushCheck
  BY <1>0, <1>1, PusherEffects DEF QueueOK, PushCheck, PusherTo
<1>2. CASE PushGrow
  BY <1>0, <1>2, PusherEffects DEF QueueOK, PushGrow, PusherTo
<1>3. CASE PushSend
  <2>1. /\ ~In(pusher.job, ch.buf) /\ runs[pusher.job] = 0
        /\ Distinct(Append(ch.buf, pusher.job))
        /\ \A j : In(j, Append(ch.buf, pusher.job)) <=> In(j, ch.buf) \/ j = pusher.job
    BY <1>0, <1>3, AppendIn DEF QueueOK, RunsOK, PushSend
  <2>2. /\ ch'.buf = Append(ch.buf, pusher.job) /\ pusher'.job = pusher.job + 1
        /\ UNCHANGED runs
    BY <1>0, <1>3, PusherEffects DEF PushSend, PusherTo, Becomes
  <2>3. PICK k \in Jobs : k = pusher.job
    BY <1>0, <1>3 DEF PushSend
  <2>4. \A j \in Jobs : (In(j, ch.buf) => j < k /\ runs[j] = 0) /\ (j < k \/ j = k => j < k + 1)
    BY <1>0, <2>3 DEF QueueOK
  <2>5. \A j \in Jobs : In(j, ch'.buf) => (In(j, ch.buf) \/ j = k)
    BY <2>1, <2>2, <2>3
  <2>6. pusher'.job = k + 1 /\ runs' = runs /\ runs[k] = 0 /\ Distinct(ch'.buf)
    BY <2>1, <2>2, <2>3
  <2> QED
    BY <2>4, <2>5, <2>6 DEF QueueOK
<1>4. CASE WaitClose
  BY <1>0, <1>4, PusherEffects DEF QueueOK, WaitClose, PusherTo, Becomes
<1>5. CASE WaitWorkers
  BY <1>0, <1>5, PusherEffects DEF QueueOK, WaitWorkers, PusherTo
<1>6. CASE WaitCollector
  BY <1>0, <1>6, PusherEffects DEF QueueOK, WaitCollector, PusherTo
<1>7. CASE Collect
  BY <1>0, <1>7 DEF QueueOK, Collect
<1>8. ASSUME NEW w \in Workers, Take(w) PROVE QueueOK'
  <2>1. ch.buf # << >> =>
          /\ Distinct(ch.buf) => Distinct(Tail(ch.buf))
          /\ \A j : In(j, Tail(ch.buf)) => In(j, ch.buf)
    BY <1>0, TailIn
  <2> QED
    BY <1>0, <1>8, <2>1, WorkerEffects DEF QueueOK, Take, Becomes
<1>9. ASSUME NEW w \in Workers, Execute(w) PROVE QueueOK'
  <2>1. ~In(worker[w].job, ch.buf) /\ worker[w].job \in Jobs
    BY <1>0, <1>9 DEF HeldOK, Holds, Execute
  <2> QED
    BY <1>0, <1>9, <2>1 DEF QueueOK, Execute
<1>10. ASSUME NEW w \in Workers, CheckCancel(w) \/ ReportError(w) \/ CancelAll(w) PROVE QueueOK'
  BY <1>0, <1>10 DEF QueueOK, CheckCancel, ReportError, CancelAll
<1>11. CASE UNCHANGED vars
  BY <1>0, <1>11 DEF QueueOK, vars
<1> QED
  BY <1>1, <1>2, <1>3, <1>4, <1>5, <1>6, <1>7, <1>8, <1>9, <1>10, <1>11
     DEF Next, Pusher, Worker

(* A worker alone holds the job it took.                                   *)
LEMMA HeldStep ==
    ASSUME IInv, [Next]_vars
    PROVE  HeldOK'
<1>0. /\ TypeOK /\ QueueOK /\ HeldOK /\ RunsOK /\ runs \in [Jobs -> Nat]
      /\ pusher.pc \in {"grow", "send"} => pusher.job \in Jobs
  BY DEF IInv, TypeOK, PhaseOK
<1> USE WaitJobAssumption, TypeFields DEF Jobs
<1>1. CASE PushCheck
  BY <1>0, <1>1, PusherEffects DEF HeldOK, Holds, PushCheck, PusherTo
<1>2. CASE PushGrow
  BY <1>0, <1>2, PusherEffects DEF HeldOK, Holds, PushGrow, PusherTo, Moves
<1>3. CASE PushSend
  <2>1. ch.buf \in Seq(Jobs) /\ pusher.job \in Jobs
    BY <1>0, <1>3 DEF PushSend
  <2>2. \A j : In(j, Append(ch.buf, pusher.job)) <=> In(j, ch.buf) \/ j = pusher.job
    BY <2>1, AppendIn
  <2>3. /\ ch'.buf = Append(ch.buf, pusher.job) /\ pusher'.job = pusher.job + 1
        /\ UNCHANGED <<runs, worker>>
    BY <1>0, <1>3, PusherEffects DEF PushSend, PusherTo, Becomes
  <2> QED
    BY <1>0, <2>1, <2>2, <2>3, SMTT(20) DEF HeldOK, Holds
<1>4. CASE WaitClose
  BY <1>0, <1>4, PusherEffects DEF HeldOK, Holds, WaitClose, PusherTo, Becomes
<1>5. CASE WaitWorkers
  BY <1>0, <1>5, PusherEffects DEF HeldOK, Holds, WaitWorkers, PusherTo
<1>6. CASE WaitCollector
  BY <1>0, <1>6, PusherEffects DEF HeldOK, Holds, WaitCollector, PusherTo
<1>7. CASE Collect
  BY <1>0, <1>7 DEF HeldOK, Holds, Collect
<1>8. ASSUME NEW w \in Workers, Take(w) PROVE HeldOK'
  <2>1. ch.buf # << >> =>
          /\ \A j : In(j, Tail(ch.buf)) => In(j, ch.buf)
          /\ In(Head(ch.buf), ch.buf) /\ ~In(Head(ch.buf), Tail(ch.buf))
    BY <1>0, TailIn DEF QueueOK
  <2>2. UNCHANGED <<runs, pusher>>
    BY <1>8 DEF Take
  <2>3. CASE ch.buf # << >> /\ Moves(w, "got", Head(ch.buf)) /\ Head(ch.buf) \in Jobs
               /\ Becomes(ch', Tail(ch.buf), ch.closed)
    <3>1. \A v \in Workers : Holds(v)' =>
            \/ v = w /\ worker'[v].job = Head(ch.buf)
            \/ v # w /\ Holds(v) /\ worker'[v] = worker[v]
      BY <2>3 DEF Moves, Holds
    <3>2. ch'.buf = Tail(ch.buf) /\ Head(ch.buf) \in Jobs /\ Head(ch.buf) < pusher.job
          /\ runs[Head(ch.buf)] = 0
      BY <1>0, <2>1, <2>3 DEF QueueOK, Becomes
    <3>3. ASSUME NEW v \in Workers, Holds(v)'
          PROVE  /\ worker'[v].job \in Jobs /\ worker'[v].job < pusher'.job
                 /\ runs'[worker'[v].job] = 0 /\ ~In(worker'[v].job, ch'.buf)
      <4>1. CASE v = w
        BY <2>1, <2>2, <2>3, <3>1, <3>2, <3>3, <4>1
      <4>2. CASE v # w
        <5>1. Holds(v) /\ worker'[v] = worker[v]
          BY <3>1, <3>3, <4>2
        <5> QED
          BY <1>0, <2>1, <2>2, <2>3, <3>2, <5>1 DEF HeldOK
      <4> QED
        BY <4>1, <4>2
    <3>4. \A v \in Workers : v # w /\ Holds(v) => worker[v].job # Head(ch.buf)
      BY <1>0, <2>1, <2>3 DEF HeldOK
    <3> QED
      BY <1>0, <3>1, <3>3, <3>4 DEF HeldOK
  <2>4. CASE Moves(w, "gone", worker[w].job) /\ UNCHANGED ch
    BY <1>0, <2>2, <2>4 DEF HeldOK, Holds, Moves
  <2> QED
    BY <1>0, <1>8, <2>3, <2>4, WorkerEffects
<1>9. ASSUME NEW w \in Workers, Execute(w) PROVE HeldOK'
  <2>1. Holds(w) /\ worker[w].job \in Jobs
    BY <1>0, <1>9 DEF HeldOK, Holds, Execute
  <2>2. \A v \in Workers : Holds(v)' => v # w /\ Holds(v) /\ worker'[v] = worker[v]
    BY <1>0, <1>9, WorkerEffects DEF Moves, Holds
  <2>3. \A j \in Jobs : j # worker[w].job => runs'[j] = runs[j]
    BY <1>0, <1>9, <2>1 DEF Execute
  <2> QED
    BY <1>0, <1>9, <2>1, <2>2, <2>3 DEF HeldOK, Execute
<1>10. ASSUME NEW w \in Workers, CheckCancel(w) PROVE HeldOK'
  BY <1>0, <1>10, WorkerEffects DEF HeldOK, Holds, CheckCancel, Moves
<1>11. ASSUME NEW w \in Workers, ReportError(w) \/ CancelAll(w) PROVE HeldOK'
  <2>1. UNCHANGED <<runs, pusher, ch>> /\ ~Holds(w)
    BY <1>11 DEF ReportError, CancelAll, Holds
  <2>2. \A v \in Workers : Holds(v)' => Holds(v) /\ worker'[v] = worker[v]
    BY <1>0, <1>11, WorkerEffects DEF Moves, Holds
  <2> QED
    BY <1>0, <2>1, <2>2, SMTT(20) DEF HeldOK
<1>12. CASE UNCHANGED vars
  BY <1>0, <1>12 DEF HeldOK, Holds, vars
<1> QED
  BY <1>1, <1>2, <1>3, <1>4, <1>5, <1>6, <1>7, <1>8, <1>9, <1>10, <1>11, <1>12
     DEF Next, Pusher, Worker

(* Each job runs once, at most.                                            *)
LEMMA RunsStep ==
    ASSUME IInv, [Next]_vars
    PROVE  RunsOK'
<1>0. /\ TypeOK /\ QueueOK /\ HeldOK /\ RunsOK /\ runs \in [Jobs -> Nat] /\ failed \subseteq Jobs
      /\ pusher.pc \in {"grow", "send"} => pusher.job \in Jobs
  BY DEF IInv, TypeOK, PhaseOK
<1> USE WaitJobAssumption, TypeFields DEF Jobs
<1>1. CASE UNCHANGED <<runs, failed>> /\ pusher'.job \in 1 .. NJobs + 1 /\ pusher.job <= pusher'.job
  BY <1>0, <1>1 DEF RunsOK
<1>2. CASE Pusher
  <2>1. UNCHANGED <<runs, failed>>
    BY <1>2 DEF Pusher, PushCheck, PushGrow, PushSend, WaitClose, WaitWorkers, WaitCollector
  <2>2. \E pc : PusherTo(pc, pusher.job) \/ PusherTo(pc, pusher.job + 1)
    BY <1>0, <1>2, PusherEffects DEF Pusher
  <2>3. pusher'.job \in 1 .. NJobs + 1 /\ pusher.job <= pusher'.job
    BY <1>0, <2>2 DEF PusherTo, PusherType
  <2> QED
    BY <1>1, <2>1, <2>3
<1>3. ASSUME NEW w \in Workers, Execute(w) PROVE RunsOK'
  <2>1. /\ worker[w].job \in Jobs /\ worker[w].job < pusher.job /\ runs[worker[w].job] = 0
    BY <1>0, <1>3 DEF HeldOK, Holds, Execute
  <2>2. /\ runs'[worker[w].job] = 1 /\ \A j \in Jobs : j # worker[w].job => runs'[j] = runs[j]
        /\ UNCHANGED pusher /\ failed' \subseteq failed \cup {worker[w].job}
    BY <1>0, <1>3, <2>1 DEF Execute
  <2>3. ASSUME NEW j \in Jobs
        PROVE  runs'[j] \in {0, 1} /\ (pusher.job <= j => runs'[j] = 0)
    <3>1. CASE j = worker[w].job
      BY <1>0, <2>1, <2>2, <3>1, SMTT(20)
    <3>2. CASE j # worker[w].job
      BY <1>0, <2>2, <3>2 DEF RunsOK
    <3> QED
      BY <3>1, <3>2
  <2>4. \A j \in failed' : runs'[j] = 1
    BY <1>0, <2>1, <2>2 DEF RunsOK
  <2> QED
    BY <2>2, <2>3, <2>4 DEF RunsOK
<1>4. ASSUME NEW w \in Workers, Take(w) \/ CheckCancel(w) \/ ReportError(w) \/ CancelAll(w)
      PROVE  RunsOK'
  <2>1. UNCHANGED <<runs, failed, pusher>>
    BY <1>4 DEF Take, CheckCancel, ReportError, CancelAll
  <2> QED
    BY <1>0, <1>1, <2>1
<1>5. CASE Collect \/ UNCHANGED vars
  <2>1. UNCHANGED <<runs, failed, pusher>>
    BY <1>5 DEF Collect, vars
  <2> QED
    BY <1>0, <1>1, <2>1
<1> QED
  BY <1>2, <1>3, <1>4, <1>5 DEF Next, Worker

(* A job leaves the channel for a worker, and a worker by being run or     *)
(* because the pool is cancelled, as it then remains.                      *)
LEMMA NoneLostStep ==
    ASSUME IInv, [Next]_vars
    PROVE  NoneLost'
<1>0. /\ TypeOK /\ QueueOK /\ HeldOK /\ RunsOK /\ NoneLost /\ StopOK /\ runs \in [Jobs -> Nat]
      /\ cancel \in Nat
      /\ pusher.pc \in {"grow", "send"} => pusher.job \in Jobs
  BY DEF IInv, TypeOK, PhaseOK
<1> USE WaitJobAssumption, TypeFields DEF Jobs
<1>1. Cancelled => Cancelled'
  <2>1. UNCHANGED quick /\ (cancel' = cancel \/ cancel' = cancel + 1)
    BY DEF Next, Pusher, Worker, PushCheck, PushGrow, PushSend, WaitClose, WaitWorkers,
           WaitCollector, Collect, Take, CheckCancel, Execute, ReportError, CancelAll, vars
  <2> QED
    BY <1>0, <2>1 DEF Cancelled
<1> SUFFICES ASSUME NEW j \in Jobs, j < pusher'.job, runs'[j] = 0, ~Cancelled, ~Cancelled'
             PROVE  Waiting(j)'
  BY <1>1 DEF NoneLost
<1>2. CASE PushSend
  <2>1. ch.buf \in Seq(Jobs) /\ pusher.job \in Jobs
    BY <1>0, <1>2 DEF PushSend
  <2>2. In(j, Append(ch.buf, pusher.job)) <=> In(j, ch.buf) \/ j = pusher.job
    BY <2>1, AppendIn
  <2>3. /\ ch'.buf = Append(ch.buf, pusher.job) /\ pusher'.job = pusher.job + 1
        /\ UNCHANGED <<runs, worker>>
    BY <1>0, <1>2, PusherEffects DEF PushSend, PusherTo, Becomes
  <2>4. j < pusher.job => Waiting(j)
    BY <1>0, <2>3 DEF NoneLost
  <2> QED
    BY <2>1, <2>2, <2>3, <2>4 DEF Waiting, Holds
<1>3. CASE PushCheck \/ PushGrow \/ WaitClose \/ WaitWorkers \/ WaitCollector
  <2>1. pusher'.job = pusher.job /\ ch'.buf = ch.buf
    BY <1>0, <1>3, PusherEffects
       DEF PusherTo, Becomes, PushCheck, PushGrow, WaitWorkers, WaitCollector
  <2>2. UNCHANGED runs
    BY <1>3 DEF PushCheck, PushGrow, WaitClose, WaitWorkers, WaitCollector
  <2>3. \A w \in Workers : Holds(w) => Holds(w)' /\ worker'[w] = worker[w]
    <3>1. CASE PushGrow
      <4>1. left > 0 => worker[NTask - left + 1].pc = "off"
        BY <1>0 DEF StopOK, TypeOK, Workers
      <4> QED
        BY <1>0, <3>1, <4>1, PusherEffects DEF Moves, Holds
    <3>2. CASE UNCHANGED worker
      BY <3>2 DEF Holds
    <3> QED
      BY <1>3, <3>1, <3>2 DEF PushCheck, WaitClose, WaitWorkers, WaitCollector
  <2> QED
    BY <1>0, <2>1, <2>2, <2>3, ZenonT(30) DEF NoneLost, Waiting
<1>4. ASSUME NEW w \in Workers, Take(w) PROVE Waiting(j)'
  <2>1. UNCHANGED <<runs, pusher>> /\ ~Holds(w)
    BY <1>4 DEF Take, Holds
  <2>2. CASE ch.buf # << >> /\ Moves(w, "got", Head(ch.buf)) /\ Becomes(ch', Tail(ch.buf), ch.closed)
    <3>1. In(j, ch.buf) => In(j, Tail(ch.buf)) \/ j = Head(ch.buf)
      BY <1>0, <2>2, TailIn
    <3>2. Holds(w)' /\ worker'[w].job = Head(ch.buf)
          /\ \A v \in Workers : Holds(v) => Holds(v)' /\ worker'[v] = worker[v]
      BY <2>1, <2>2 DEF Moves, Holds
    <3> QED
      BY <1>0, <2>1, <2>2, <3>1, <3>2, ZenonT(30) DEF NoneLost, Waiting, Becomes
  <2>3. CASE Moves(w, "gone", worker[w].job) /\ UNCHANGED ch
    <3>1. \A v \in Workers : Holds(v) => Holds(v)' /\ worker'[v] = worker[v]
      BY <2>1, <2>3 DEF Moves, Holds
    <3> QED
      BY <1>0, <2>1, <2>3, <3>1 DEF NoneLost, Waiting
  <2> QED
    BY <1>0, <1>4, <2>2, <2>3, WorkerEffects
<1>5. ASSUME NEW w \in Workers, CheckCancel(w) \/ ReportError(w) \/ CancelAll(w)
      PROVE  Waiting(j)'
  <2>1. UNCHANGED <<runs, pusher, ch>>
    BY <1>5 DEF CheckCancel, ReportError, CancelAll
  <2>2. \A v \in Workers : Holds(v) => Holds(v)' /\ worker'[v].job = worker[v].job
    BY <1>0, <1>5, WorkerEffects DEF Moves, Holds, CheckCancel, ReportError, CancelAll
  <2> QED
    BY <1>0, <2>1, <2>2, ZenonT(30) DEF NoneLost, Waiting
<1>6. ASSUME NEW w \in Workers, Execute(w) PROVE Waiting(j)'
  <2>1. worker[w].job \in Jobs /\ worker[w].job # j /\ UNCHANGED <<pusher, ch>>
    BY <1>0, <1>6 DEF HeldOK, Holds, Execute
  <2>2. runs[j] = 0
    BY <1>0, <1>6, <2>1 DEF Execute
  <2>3. \A v \in Workers : v # w => worker'[v] = worker[v]
    BY <1>0, <1>6, WorkerEffects DEF Moves
  <2> QED
    BY <1>0, <2>1, <2>2, <2>3 DEF NoneLost, Waiting, Holds
<1>7. CASE Collect \/ UNCHANGED vars
  <2>1. UNCHANGED <<runs, pusher, ch, worker>>
    BY <1>7 DEF Collect, vars
  <2> QED
    BY <1>0, <2>1 DEF NoneLost, Waiting, Holds
<1> QED
  BY <1>2, <1>3, <1>4, <1>5, <1>6, <1>7 DEF Next, Pusher, Worker
-----------------------------------------------------------------------------
(* Errors: from the worker into the channel, and from there to epara.      *)
LEMMA ErrorsStep ==
    ASSUME IInv, [Next]_vars
    PROVE  ErrorsOK'
<1>0. /\ TypeOK /\ HeldOK /\ RunsOK /\ ErrorsOK /\ failed \subseteq Jobs /\ epara \in Seq(Jobs)
      /\ errch.buf \in Seq(Jobs) /\ runs \in [Jobs -> Nat]
      /\ pusher.pc \in {"grow", "send"} => pusher.job \in Jobs
  BY DEF IInv, TypeOK, PhaseOK
<1> USE WaitJobAssumption, TypeFields
<1>1. ASSUME UNCHANGED <<epara, failed>>, errch'.buf = errch.buf,
             \A w \in Workers : /\ Reports(w)' <=> Reports(w)
                                /\ Reports(w) => worker'[w] = worker[w]
      PROVE  ErrorsOK'
  BY <1>0, <1>1 DEF ErrorsOK
<1>2. CASE Pusher
  <2>1. UNCHANGED <<epara, failed>>
    BY <1>2 DEF Pusher, PushCheck, PushGrow, PushSend, WaitClose, WaitWorkers, WaitCollector
  <2>2. errch'.buf = errch.buf
    BY <1>0, <1>2, PusherEffects
       DEF Becomes, Pusher, PushCheck, PushGrow, PushSend, WaitClose, WaitCollector
  <2>3. \A w \in Workers : /\ Reports(w)' <=> Reports(w)
                           /\ Reports(w) => worker'[w] = worker[w]
    <3>1. CASE PushGrow
      <4>1. left > 0 => worker[NTask - left + 1].pc = "off"
        BY DEF IInv, StopOK, TypeOK, Workers
      <4> QED
        BY <1>0, <3>1, <4>1, PusherEffects DEF Moves, Reports
    <3>2. CASE UNCHANGED worker
      BY <3>2 DEF Reports
    <3> QED
      BY <1>2, <3>1, <3>2 DEF Pusher, PushCheck, PushSend, WaitClose, WaitWorkers, WaitCollector
  <2> QED
    BY <1>1, <2>1, <2>2, <2>3
<1>3. ASSUME NEW w \in Workers, Take(w) \/ CheckCancel(w) \/ CancelAll(w)
      PROVE  ErrorsOK'
  <2>1. UNCHANGED <<epara, failed, errch>> /\ ~Reports(w)
    BY <1>3 DEF Take, CheckCancel, CancelAll, Reports
  <2>2. \A v \in Workers : /\ Reports(v)' <=> Reports(v)
                           /\ Reports(v) => worker'[v] = worker[v]
    BY <1>0, <1>3, <2>1, WorkerEffects DEF Moves, Reports
  <2> QED
    BY <1>1, <2>1, <2>2
<1>4. ASSUME NEW w \in Workers, Execute(w) PROVE ErrorsOK'
  <2> DEFINE x == worker[w].job
  <2>1. /\ x \in Jobs /\ x \notin failed /\ ~Reports(w)
    BY <1>0, <1>4 DEF HeldOK, RunsOK, Holds, Execute, Reports
  <2>2. UNCHANGED <<epara, errch>>
    BY <1>4 DEF Execute
  <2>3. CASE Moves(w, "recv", x) /\ UNCHANGED failed
    <3>1. \A v \in Workers : /\ Reports(v)' <=> Reports(v)
                             /\ Reports(v) => worker'[v] = worker[v]
      BY <2>1, <2>3 DEF Moves, Reports
    <3> QED
      BY <1>1, <2>2, <2>3, <3>1
  <2>4. CASE Moves(w, "report", x) /\ failed' = failed \cup {x}
    <3>1. /\ Reports(w)' /\ worker'[w].job = x
          /\ \A v \in Workers \ {w} : (Reports(v)' <=> Reports(v)) /\ worker'[v] = worker[v]
      BY <2>4 DEF Moves, Reports
    <3>2. ~In(x, errch.buf) /\ ~In(x, epara)
      BY <1>0, <2>1 DEF ErrorsOK
    <3>3. \A v \in Workers : Reports(v) => worker[v].job # x
      BY <1>0, <2>1 DEF ErrorsOK
    <3>4. \A j \in failed' : \/ In(j, errch.buf) \/ In(j, epara)
                             \/ \E v \in Workers : Reports(v)' /\ worker'[v].job = j
      <4> TAKE j \in failed'
      <4>1. CASE j = x
        BY <3>1, <4>1
      <4>2. CASE j \in failed
        <5>1. CASE \E v \in Workers : Reports(v) /\ worker[v].job = j
          <6>1. PICK v \in Workers : Reports(v) /\ worker[v].job = j
            BY <5>1
          <6>2. v # w
            BY <2>1, <6>1
          <6> QED
            BY <3>1, <6>1, <6>2
        <5> QED
          BY <1>0, <4>2, <5>1 DEF ErrorsOK
      <4> QED
        BY <2>4, <4>1, <4>2
    <3>5. \A v \in Workers : Reports(v)' =>
            /\ worker'[v].job \in failed'
            /\ ~In(worker'[v].job, errch.buf) /\ ~In(worker'[v].job, epara)
      BY <1>0, <2>4, <3>1, <3>2 DEF ErrorsOK
    <3>6. ASSUME NEW v \in Workers, NEW u \in Workers, Reports(v)', Reports(u)',
                 worker'[v].job = worker'[u].job
          PROVE  v = u
      <4>1. ASSUME NEW y \in Workers \ {w}, Reports(y)' PROVE worker'[y].job # x
        BY <3>1, <3>3, <4>1
      <4>2. (v = w) <=> (u = w)
        BY <3>1, <3>6, <4>1
      <4>3. CASE v # w /\ u # w
        <5>1. Reports(v) /\ Reports(u) /\ worker[v].job = worker[u].job
          BY <3>1, <3>6, <4>3
        <5> QED
          BY <1>0, <5>1 DEF ErrorsOK
      <4> QED
        BY <4>2, <4>3
    <3>7. /\ Distinct(errch.buf) /\ Distinct(epara)
          /\ \A j \in Jobs : In(j, errch.buf) => j \in failed' /\ ~In(j, epara)
          /\ \A j \in Jobs : In(j, epara) => j \in failed'
      BY <1>0, <2>4 DEF ErrorsOK
    <3> QED
      BY <2>2, <3>4, <3>5, <3>6, <3>7 DEF ErrorsOK
  <2> QED
    BY <1>0, <1>4, <2>3, <2>4, WorkerEffects
<1>5. ASSUME NEW w \in Workers, ReportError(w) PROVE ErrorsOK'
  <2> DEFINE x == worker[w].job
  <2>1. /\ x \in Jobs /\ x \in failed /\ Reports(w) /\ ~In(x, errch.buf) /\ ~In(x, epara)
    BY <1>0, <1>5 DEF ErrorsOK, Reports, ReportError
  <2>2. UNCHANGED <<epara, failed>> /\ errch'.buf = Append(errch.buf, x)
    BY <1>0, <1>5, <2>1, WorkerEffects DEF ReportError, Becomes
  <2>3. /\ ~Reports(w)'
        /\ \A v \in Workers \ {w} : (Reports(v)' <=> Reports(v)) /\ worker'[v] = worker[v]
    BY <1>0, <1>5, WorkerEffects DEF Moves, Reports
  <2>4. /\ Distinct(errch.buf) => Distinct(Append(errch.buf, x))
        /\ \A j : In(j, Append(errch.buf, x)) <=> In(j, errch.buf) \/ j = x
    BY <1>0, <2>1, AppendIn
  <2>5. \A v \in Workers \ {w} : Reports(v) => worker[v].job # x
    BY <1>0, <2>1 DEF ErrorsOK
  <2>6. \A j \in failed : \/ In(j, errch'.buf) \/ In(j, epara)
                          \/ \E v \in Workers : Reports(v)' /\ worker'[v].job = j
    <3> TAKE j \in failed
    <3>1. CASE \E v \in Workers : Reports(v) /\ worker[v].job = j
      <4>1. PICK v \in Workers : Reports(v) /\ worker[v].job = j
        BY <3>1
      <4>2. CASE v = w
        BY <2>2, <2>4, <4>1, <4>2
      <4>3. CASE v # w
        BY <2>3, <4>1, <4>3
      <4> QED
        BY <4>2, <4>3
    <3> QED
      BY <1>0, <2>2, <2>4, <3>1 DEF ErrorsOK
  <2>7. \A v \in Workers : Reports(v)' =>
          /\ worker'[v].job \in failed
          /\ ~In(worker'[v].job, errch'.buf) /\ ~In(worker'[v].job, epara)
    <3> SUFFICES ASSUME NEW v \in Workers, Reports(v)'
                 PROVE  /\ worker'[v].job \in failed
                        /\ ~In(worker'[v].job, errch'.buf) /\ ~In(worker'[v].job, epara)
      OBVIOUS
    <3>1. /\ Reports(v) /\ worker'[v] = worker[v] /\ worker[v].job # x
      BY <2>3, <2>5
    <3>2. /\ worker[v].job \in failed
          /\ ~In(worker[v].job, errch.buf) /\ ~In(worker[v].job, epara)
      BY <1>0, <3>1 DEF ErrorsOK
    <3> QED
      BY <2>2, <2>4, <3>1, <3>2
  <2>8. \A v, u \in Workers : Reports(v)' /\ Reports(u)' /\ worker'[v].job = worker'[u].job => v = u
    BY <1>0, <2>3 DEF ErrorsOK
  <2>9. /\ Distinct(errch'.buf) /\ Distinct(epara)
        /\ \A j \in Jobs : In(j, errch'.buf) => j \in failed /\ ~In(j, epara)
        /\ \A j \in Jobs : In(j, epara) => j \in failed
    BY <1>0, <2>1, <2>2, <2>4 DEF ErrorsOK
  <2> QED
    BY <2>2, <2>6, <2>7, <2>8, <2>9 DEF ErrorsOK
<1>6. CASE Collect
  <2>1. UNCHANGED <<failed, worker>>
    BY <1>6 DEF Collect
  <2>2. CASE errch.buf # << >> /\ epara' = Append(epara, Head(errch.buf)) /\ errch' = Pop(errch)
    <3> DEFINE x == Head(errch.buf)
    <3>1. errch'.buf = Tail(errch.buf) /\ x \in Jobs
      BY <1>0, <2>2, ChanMoves, HeadTailProperties DEF Becomes
    <3>2. /\ \A j : In(j, errch.buf) <=> In(j, Tail(errch.buf)) \/ j = x
          /\ Distinct(Tail(errch.buf)) /\ ~In(x, Tail(errch.buf))
      BY <1>0, <2>2, TailIn DEF ErrorsOK
    <3>3. x \in failed /\ ~In(x, epara)
      BY <1>0, <3>1, <3>2 DEF ErrorsOK
    <3>4. /\ Distinct(Append(epara, x))
          /\ \A j : In(j, Append(epara, x)) <=> In(j, epara) \/ j = x
      BY <1>0, <3>1, <3>3, AppendIn DEF ErrorsOK
    <3> QED
      BY <1>0, <2>1, <2>2, <3>1, <3>2, <3>3, <3>4 DEF ErrorsOK, Reports
  <2>3. CASE UNCHANGED <<errch, epara>>
    BY <1>1, <2>1, <2>3 DEF Reports
  <2> QED
    BY <1>6, <2>2, <2>3 DEF Collect
<1>7. CASE UNCHANGED vars
  BY <1>1, <1>7 DEF vars, Reports
<1> QED
  BY <1>2, <1>3, <1>4, <1>5, <1>6, <1>7 DEF Next, Worker
-----------------------------------------------------------------------------
(* The order of the closes.                                                *)
LEMMA PhaseStep ==
    ASSUME IInv, [Next]_vars
    PROVE  PhaseOK'
<1>0. /\ TypeOK /\ PhaseOK /\ ch.closed \in BOOLEAN /\ errch.closed \in BOOLEAN
      /\ pusher.pc \in {"grow", "send"} => pusher.job \in Jobs
  BY TypeFields DEF IInv, PhaseOK
<1> USE WaitJobAssumption, TypeFields
<1>1. CASE PushCheck
  BY <1>0, <1>1, PusherEffects DEF PhaseOK, PushCheck, PusherTo, Stopped
<1>2. CASE PushGrow
  <2>1. UNCHANGED <<ch, errch, collector>> /\ PusherTo("send", pusher.job) /\ pusher.pc = "grow"
    BY <1>0, <1>2, PusherEffects DEF PushGrow
  <2> QED
    BY <1>0, <2>1 DEF PhaseOK, PusherTo
<1>3. CASE PushSend
  <2>1. UNCHANGED <<errch, collector, worker>> /\ PusherTo("check", pusher.job + 1)
        /\ ch'.closed = ch.closed /\ pusher.pc = "send"
    BY <1>0, <1>3, PusherEffects DEF PushSend, Becomes
  <2> QED
    BY <1>0, <2>1 DEF PhaseOK, PusherTo
<1>4. CASE WaitClose
  <2>1. UNCHANGED <<errch, collector, worker>> /\ PusherTo("wg", pusher.job)
        /\ ch'.closed = TRUE /\ pusher.pc = "check" /\ pusher.job = NJobs + 1
    BY <1>0, <1>4, PusherEffects DEF WaitClose, Becomes, Jobs
  <2> QED
    BY <1>0, <2>1 DEF PhaseOK, PusherTo
<1>5. CASE WaitWorkers
  <2>1. UNCHANGED <<ch, collector, worker>> /\ PusherTo("errwg", pusher.job)
        /\ errch'.closed = TRUE /\ errch'.buf = errch.buf /\ pusher.pc = "wg"
        /\ \A w \in Workers : Stopped(w)
    BY <1>0, <1>5, PusherEffects DEF WaitWorkers, Becomes, Stopped
  <2> QED
    BY <1>0, <2>1 DEF PhaseOK, PusherTo, Stopped
<1>6. CASE WaitCollector
  <2>1. UNCHANGED <<ch, errch, collector, worker>> /\ PusherTo("done", pusher.job)
        /\ pusher.pc = "errwg" /\ collector = "gone"
    BY <1>0, <1>6, PusherEffects DEF WaitCollector
  <2> QED
    BY <1>0, <2>1 DEF PhaseOK, PusherTo, Stopped
<1>7. CASE Collect
  <2>1. UNCHANGED <<ch, pusher, worker>> /\ errch'.closed = errch.closed /\ collector = "on"
    BY <1>0, <1>7, ChanMoves DEF Collect, Becomes
  <2>2. collector' = "gone" => errch.closed /\ errch'.buf = << >>
    BY <1>0, <1>7 DEF Collect, Drained
  <2> QED
    BY <1>0, <2>1, <2>2 DEF PhaseOK, Stopped
<1>8. ASSUME NEW w \in Workers, Worker(w) PROVE PhaseOK'
  <2>1. UNCHANGED <<pusher, collector>> /\ ~Stopped(w)
    BY <1>8 DEF Worker, Take, CheckCancel, Execute, ReportError, CancelAll, Stopped
  <2>2. ~errch.closed /\ collector # "gone"
    BY <1>0, <2>1 DEF PhaseOK
  <2>3. ch'.closed = ch.closed
    BY <1>0, <1>8, WorkerEffects
       DEF Worker, Take, CheckCancel, Execute, ReportError, CancelAll, Becomes
  <2>4. ReportError(w) => worker[w].job \in Jobs
    BY DEF IInv, ErrorsOK, Reports, ReportError, TypeOK
  <2>5. errch'.closed = errch.closed
    BY <1>0, <1>8, <2>4, WorkerEffects
       DEF Worker, Take, CheckCancel, Execute, ReportError, CancelAll, Becomes
  <2> QED
    BY <1>0, <2>1, <2>2, <2>3, <2>5 DEF PhaseOK
<1>9. CASE UNCHANGED vars
  BY <1>0, <1>9 DEF PhaseOK, vars, Stopped
<1> QED
  BY <1>1, <1>2, <1>3, <1>4, <1>5, <1>6, <1>7, <1>8, <1>9 DEF Next, Pusher

(* Why a worker stops.                                                     *)
LEMMA StopStep ==
    ASSUME IInv, [Next]_vars
    PROVE  StopOK'
<1>0. /\ TypeOK /\ PhaseOK /\ StopOK /\ left \in 0 .. NTask - 1 /\ cancel \in Nat
      /\ ch.closed \in BOOLEAN
      /\ pusher.pc \in {"grow", "send"} => pusher.job \in Jobs
  BY TypeFields DEF IInv, PhaseOK, TypeOK
<1>a. Workers = 1 .. NTask
  BY DEF Workers
<1> USE WaitJobAssumption, TypeFields
<1>1. ASSUME UNCHANGED <<quick, left, cancel>>, failed \subseteq failed',
             \A w \in Workers : worker'[w].pc = worker[w].pc,
             Drained(ch) => Drained(ch')
      PROVE  StopOK'
  <2>1. Gone' = Gone
    BY <1>1 DEF Gone
  <2>2. Cancelled' <=> Cancelled
    BY <1>1 DEF Cancelled
  <2>3. failed # {} => failed' # {}
    BY <1>1
  <2> QED
    BY <1>0, <1>1, <2>1, <2>2, <2>3 DEF StopOK
<1>2. CASE PushGrow
  <2>1. CASE UNCHANGED <<left, worker>>
    BY <1>1, <1>2, <2>1 DEF PushGrow
  <2>2. CASE left > 0 /\ left' = left - 1
             /\ Moves(NTask - left + 1, "recv", worker[NTask - left + 1].job)
    <3> DEFINE w == NTask - left + 1
    <3>1. w \in Workers /\ worker[w].pc = "off"
      BY <1>0, <1>a, <2>2 DEF StopOK
    <3>2. /\ worker'[w].pc = "recv" /\ \A v \in Workers \ {w} : worker'[v] = worker[v]
      BY <2>2 DEF Moves
    <3>3. Gone' = Gone
      BY <3>1, <3>2 DEF Gone
    <3>4. UNCHANGED <<quick, ch, cancel, failed>>
      BY <1>2 DEF PushGrow
    <3>5. \A v \in Workers : worker'[v].pc = "off" <=> v > NTask - left'
      <4>1. PICK m \in Nat : m = left /\ left' = m - 1 /\ w = NTask - m + 1
        BY <1>0, <2>2
      <4>2. \A v \in Workers : worker[v].pc = "off" <=> v > NTask - m
        BY <1>0, <4>1 DEF StopOK
      <4>3. \A v \in Workers : v # w => (v > NTask - m <=> v > NTask - (m - 1))
        BY <1>a, <4>1
      <4>4. ~(w > NTask - (m - 1)) /\ worker'[w].pc # "off"
        BY <3>2, <4>1
      <4> HIDE DEF w
      <4> QED
        BY <3>2, <4>1, <4>2, <4>3, <4>4
    <3>6. /\ \A v \in Workers : worker'[v].pc = "gone" => worker[v].pc = "gone"
          /\ \A v \in Workers : worker'[v].pc = "cancel" => worker[v].pc = "cancel"
      BY <3>1, <3>2
    <3> QED
      BY <1>0, <3>3, <3>4, <3>5, <3>6 DEF StopOK, Cancelled
  <2> QED
    BY <1>0, <1>2, <2>1, <2>2, PusherEffects
<1>3. CASE PushCheck \/ PushSend \/ WaitClose \/ WaitWorkers \/ WaitCollector
  <2>1. UNCHANGED <<quick, left, cancel, failed, worker>>
    BY <1>3 DEF PushCheck, PushSend, WaitClose, WaitWorkers, WaitCollector
  <2>2. Drained(ch) => Drained(ch')
    <3>1. CASE PushSend
      BY <1>0, <3>1 DEF PhaseOK, PushSend, Drained
    <3>2. CASE WaitClose
      BY <1>0, <3>2, PusherEffects DEF Drained, Becomes
    <3> QED
      BY <1>3, <3>1, <3>2 DEF PushCheck, WaitWorkers, WaitCollector
  <2> QED
    BY <1>1, <2>1, <2>2
<1>4. CASE Collect \/ UNCHANGED vars
  BY <1>1, <1>4 DEF Collect, vars

(* A worker that moves to a pc that says nothing special.                  *)
<1>5. ASSUME NEW w \in Workers, NEW pc \in {"recv", "got", "run", "report"}, NEW job,
             Moves(w, pc, job), worker[w].pc \notin {"off", "gone"},
             UNCHANGED <<quick, left, cancel>>, failed \subseteq failed',
             Drained(ch) => Drained(ch')
      PROVE  StopOK'
  <2>1. /\ worker'[w].pc = pc /\ \A v \in Workers \ {w} : worker'[v] = worker[v]
    BY <1>5 DEF Moves
  <2>2. Gone' = Gone
    BY <1>5, <2>1 DEF Gone
  <2>3. /\ \A v \in Workers : worker'[v].pc = "off" <=> worker[v].pc = "off"
        /\ \A v \in Workers : worker'[v].pc = "gone" => worker[v].pc = "gone"
        /\ \A v \in Workers : worker'[v].pc = "cancel" => worker[v].pc = "cancel"
    BY <1>5, <2>1
  <2>4. failed # {} => failed' # {}
    BY <1>5
  <2> QED
    BY <1>0, <1>5, <2>2, <2>3, <2>4 DEF StopOK, Cancelled

(* A worker that goes, for one of the two reasons.                         *)
<1>6. ASSUME NEW w \in Workers, Moves(w, "gone", worker[w].job),
             worker[w].pc \notin {"off", "gone"},
             UNCHANGED <<quick, ch, left, failed>>,
             \/ cancel' = cancel /\ (Cancelled \/ Drained(ch))
             \/ cancel' = cancel + 1 /\ worker[w].pc = "cancel"
      PROVE  StopOK'
  <2>1. /\ worker'[w].pc = "gone" /\ \A v \in Workers \ {w} : worker'[v] = worker[v]
    BY <1>6 DEF Moves
  <2>2. Gone' = Gone \cup {w} /\ w \in Workers \ Gone
    BY <1>6, <2>1 DEF Gone
  <2>3. Cardinality(Gone \cup {w}) = Cardinality(Gone) + 1
    BY <1>0, <2>2, GoneCounts, Zenon
  <2>4. Cardinality(Gone) \in Nat
    BY <1>0, GoneCounts
  <2>5. cancel <= Cardinality(Gone)
    BY <1>0 DEF StopOK
  <2>6. cancel' <= Cardinality(Gone')
    BY <1>0, <1>6, <2>2, <2>3, <2>4, <2>5
  <2>7. /\ \A v \in Workers : worker'[v].pc = "off" <=> worker[v].pc = "off"
        /\ \A v \in Workers : worker'[v].pc = "gone" => worker[v].pc = "gone" \/ v = w
        /\ \A v \in Workers : worker'[v].pc = "cancel" => worker[v].pc = "cancel"
    BY <1>6, <2>1
  <2>8. /\ Cancelled => Cancelled'
        /\ Cancelled' \/ Drained(ch)
    BY <1>0, <1>6 DEF Cancelled, StopOK
  <2>9. cancel' # 0 => failed # {}
    BY <1>0, <1>6 DEF StopOK
  <2> QED
    BY <1>0, <1>6, <2>6, <2>7, <2>8, <2>9 DEF StopOK
<1>7. ASSUME NEW w \in Workers, Take(w) PROVE StopOK'
  <2>1. UNCHANGED <<quick, left, cancel, failed>> /\ worker[w].pc = "recv"
    BY <1>7 DEF Take
  <2>2. CASE ch.buf # << >> /\ Moves(w, "got", Head(ch.buf))
    BY <1>5, <2>1, <2>2 DEF Drained
  <2>3. CASE Drained(ch) /\ Moves(w, "gone", worker[w].job) /\ UNCHANGED ch
    BY <1>6, <2>1, <2>3
  <2> QED
    BY <1>0, <1>7, <2>2, <2>3, WorkerEffects
<1>8. ASSUME NEW w \in Workers, CheckCancel(w) PROVE StopOK'
  <2>1. UNCHANGED <<quick, ch, left, cancel, failed>> /\ worker[w].pc = "got"
    BY <1>8 DEF CheckCancel
  <2> QED
    BY <1>0, <1>5, <1>6, <1>8, <2>1, WorkerEffects
<1>9. ASSUME NEW w \in Workers, Execute(w) PROVE StopOK'
  <2>1. UNCHANGED <<quick, ch, left, cancel>> /\ worker[w].pc = "run"
    BY <1>9 DEF Execute
  <2>2. failed \subseteq failed'
    BY <1>0, <1>9, WorkerEffects
  <2> QED
    BY <1>0, <1>5, <1>9, <2>1, <2>2, WorkerEffects
<1>10. ASSUME NEW w \in Workers, ReportError(w) PROVE StopOK'
  <2>1. UNCHANGED <<quick, ch, left, cancel, failed>> /\ worker[w].pc = "report"
    BY <1>10 DEF ReportError
  <2>2. CASE ~quick /\ Moves(w, "recv", worker[w].job)
    BY <1>5, <2>1, <2>2
  <2>3. CASE quick /\ Moves(w, "cancel", worker[w].job)
    <3>1. /\ worker'[w].pc = "cancel" /\ \A v \in Workers \ {w} : worker'[v] = worker[v]
      BY <2>3 DEF Moves
    <3>2. Gone' = Gone
      BY <2>1, <3>1 DEF Gone
    <3>3. /\ \A v \in Workers : worker'[v].pc = "off" <=> worker[v].pc = "off"
          /\ \A v \in Workers : worker'[v].pc = "gone" => worker[v].pc = "gone"
          /\ \A v \in Workers : worker'[v].pc = "cancel" => worker[v].pc = "cancel" \/ v = w
      BY <2>1, <3>1
    <3>4. failed # {}
      BY <2>1 DEF IInv, ErrorsOK, Reports
    <3> QED
      BY <1>0, <2>1, <2>3, <3>2, <3>3, <3>4 DEF StopOK, Cancelled
  <2> QED
    BY <1>0, <1>10, <2>2, <2>3, WorkerEffects
<1>11. ASSUME NEW w \in Workers, CancelAll(w) PROVE StopOK'
  <2>1. UNCHANGED <<quick, ch, left, failed>> /\ worker[w].pc = "cancel" /\ cancel' = cancel + 1
    BY <1>11 DEF CancelAll
  <2> QED
    BY <1>0, <1>6, <1>11, <2>1, WorkerEffects
<1> QED
  BY <1>2, <1>3, <1>4, <1>7, <1>8, <1>9, <1>10, <1>11 DEF Next, Pusher, Worker
-----------------------------------------------------------------------------
(* A pool just created satisfies the invariant.                            *)
LEMMA InvInit == Init => IInv
<1> SUFFICES ASSUME Init PROVE IInv
  OBVIOUS
<1> USE WaitJobAssumption DEF Init
<1>1. /\ worker \in [Workers -> WorkerType]
      /\ \A w \in Workers : worker[w].pc = IF w = 1 THEN "recv" ELSE "off"
  BY DEF WorkerType, WorkerPcs
<1>2. TypesKept
  BY <1>1 DEF TypesKept, ChanType, PusherType
<1>3. TypeOK
  BY <1>2, TypesSame
<1>4. \A w \in Workers : /\ worker[w].pc \in {"recv", "off"}
                         /\ worker[w].pc = "off" <=> w > NTask - left
  <2>1. NTask - left = 1
    OBVIOUS
  <2>2. \A w \in Workers : w \in Nat \ {0}
    BY DEF Workers
  <2>3. \A w \in Workers : w # 1 <=> w > NTask - left
    BY <2>1, <2>2
  <2> HIDE DEF Init
  <2> QED
    BY <1>1, <2>3
<1>5. \A j : ~In(j, << >>)
  BY DEF In
<1>6. Distinct(<< >>)
  BY DEF Distinct
<1>7. QueueOK /\ HeldOK
  BY <1>4, <1>5, <1>6 DEF QueueOK, HeldOK, Holds
<1>8. RunsOK /\ NoneLost
  BY DEF RunsOK, NoneLost, Jobs
<1>9. ErrorsOK
  BY <1>4, <1>5, <1>6 DEF ErrorsOK, Reports
<1>10. PhaseOK
  BY DEF PhaseOK
<1>11. StopOK
  <2>1. 0 <= Cardinality(Gone)
    BY <1>3, GoneCounts
  <2> QED
    BY <1>4, <2>1 DEF StopOK
<1> QED
  BY <1>3, <1>7, <1>8, <1>9, <1>10, <1>11 DEF IInv

(* Every step keeps the invariant.                                         *)
LEMMA Inductive == IInv /\ [Next]_vars => IInv'
<1> SUFFICES ASSUME IInv, [Next]_vars PROVE IInv'
  OBVIOUS
<1> QED
  BY TypeStep, QueueStep, HeldStep, RunsStep, NoneLostStep, ErrorsStep, PhaseStep, StopStep DEF IInv

(* The invariant holds for any number of jobs and workers.                 *)
THEOREM Invariant == Spec => []IInv
  BY InvInit, Inductive, PTL DEF Spec

(* Every variable keeps its type; no channel exceeds its capacity, no      *)
(* more than ntask workers are started, none cancels twice.                *)
THEOREM Typing == Spec => []TypeOK
<1>1. IInv => TypeOK
  BY DEF IInv
<1> QED
  BY <1>1, Invariant, PTL
-----------------------------------------------------------------------------
(* The invariant places each error.                                        *)
LEMMA ErrorsPlaced == IInv => ErrorsConserved
<1> SUFFICES ASSUME IInv PROVE ErrorsConserved
  OBVIOUS
<1> DEFINE held == {worker[w].job : w \in {v \in Workers : worker[v].pc = "report"}}
           sent == errch.buf \o epara
<1>0. /\ ErrorsOK /\ errch.buf \in Seq(Jobs) /\ epara \in Seq(Jobs) /\ failed \subseteq Jobs
  BY TypeFields DEF IInv, TypeOK
<1>1. /\ Len(errch.buf) \in Nat /\ Len(epara) \in Nat
      /\ DOMAIN errch.buf = 1 .. Len(errch.buf) /\ DOMAIN epara = 1 .. Len(epara)
      /\ DOMAIN sent = 1 .. Len(errch.buf) + Len(epara)
      /\ \A i \in 1 .. Len(errch.buf) + Len(epara) :
            sent[i] = IF i <= Len(errch.buf) THEN errch.buf[i] ELSE epara[i - Len(errch.buf)]
  BY <1>0, ConcatProperties, LenProperties
<1>2. \A j : In(j, sent) <=> In(j, errch.buf) \/ In(j, epara)
  <2>1. ASSUME NEW j, In(j, sent) PROVE In(j, errch.buf) \/ In(j, epara)
    <3>1. PICK i \in DOMAIN sent : sent[i] = j
      BY <2>1 DEF In
    <3>2. i > Len(errch.buf) => i - Len(errch.buf) \in 1 .. Len(epara)
      BY <1>1
    <3>3. i <= Len(errch.buf) => i \in 1 .. Len(errch.buf)
      BY <1>1
    <3>4. i \in Nat
      BY <1>1
    <3> HIDE DEF sent
    <3> QED
      BY <1>1, <3>1, <3>2, <3>3, <3>4 DEF In
  <2>2. ASSUME NEW j, In(j, errch.buf) PROVE In(j, sent)
    <3>1. PICK i \in 1 .. Len(errch.buf) : errch.buf[i] = j
      BY <1>1, <2>2 DEF In
    <3>2. i \in DOMAIN sent /\ sent[i] = j
      BY <1>1, <3>1
    <3> QED
      BY <3>2 DEF In
  <2>3. ASSUME NEW j, In(j, epara) PROVE In(j, sent)
    <3>1. PICK i \in 1 .. Len(epara) : epara[i] = j
      BY <1>1, <2>3 DEF In
    <3>2. i + Len(errch.buf) \in 1 .. Len(errch.buf) + Len(epara)
      BY <1>1
    <3>3. sent[i + Len(errch.buf)] = epara[i + Len(errch.buf) - Len(errch.buf)]
      BY <1>1, <3>2
    <3>4. i + Len(errch.buf) - Len(errch.buf) = i
      BY <1>1
    <3> QED
      BY <1>1, <3>1, <3>2, <3>3, <3>4 DEF In
  <2> QED
    BY <2>1, <2>2, <2>3
<1>3. \A j : j \in Range1(sent) <=> In(j, sent)
  BY DEF Range1, In
<1>4. \A j : j \in held <=> \E w \in Workers : Reports(w) /\ worker[w].job = j
  BY DEF Reports
<1> HIDE DEF sent, held
<1>5. \A j \in Jobs : (In(j, errch.buf) => j \in failed) /\ (In(j, epara) => j \in failed)
  BY <1>0 DEF ErrorsOK
<1>6. \A j : In(j, errch.buf) \/ In(j, epara) => j \in Jobs
  BY <1>0, <1>1 DEF In
<1>7. failed = held \cup Range1(sent)
  <2>1. ASSUME NEW j \in failed PROVE j \in held \cup Range1(sent)
    BY <1>0, <1>2, <1>3, <1>4 DEF ErrorsOK
  <2>2. ASSUME NEW j \in held PROVE j \in failed
    BY <1>0, <1>4 DEF ErrorsOK
  <2>3. ASSUME NEW j \in Range1(sent) PROVE j \in failed
    BY <1>2, <1>3, <1>5, <1>6
  <2> QED
    BY <2>1, <2>2, <2>3
<1>8. held \cap Range1(sent) = {}
  BY <1>0, <1>2, <1>3, <1>4 DEF ErrorsOK
<1>9. \A i, j \in DOMAIN sent : sent[i] = sent[j] => i = j
  <2> SUFFICES ASSUME NEW i \in DOMAIN sent, NEW j \in DOMAIN sent, sent[i] = sent[j]
               PROVE  i = j
    OBVIOUS
  <2> DEFINE n == Len(errch.buf)
  <2>1. i \in Nat /\ j \in Nat /\ n \in Nat
    BY <1>1
  <2>2. CASE i <= n /\ j <= n
    BY <1>0, <1>1, <2>2 DEF ErrorsOK, Distinct
  <2>3. CASE i > n /\ j > n
    <3>1. i - n \in 1 .. Len(epara) /\ j - n \in 1 .. Len(epara)
      BY <1>1, <2>3
    <3>2. epara[i - n] = epara[j - n]
      BY <1>1, <2>3, SMTT(20)
    <3>3. i - n = j - n
      BY <1>0, <1>1, <3>1, <3>2 DEF ErrorsOK, Distinct
    <3> QED
      BY <2>1, <3>3
  <2>4. ASSUME NEW a \in DOMAIN sent, NEW b \in DOMAIN sent, a <= n, b > n, sent[a] = sent[b]
        PROVE  FALSE
    <3>1. a \in 1 .. n /\ b - n \in 1 .. Len(epara) /\ errch.buf[a] = epara[b - n]
      BY <1>1, <2>4, SMTT(20)
    <3>2. In(errch.buf[a], errch.buf) /\ In(errch.buf[a], epara)
      BY <1>1, <3>1 DEF In
    <3> QED
      BY <1>0, <1>6, <3>2 DEF ErrorsOK
  <2> QED
    BY <2>1, <2>2, <2>3, <2>4
<1> QED
  BY <1>7, <1>8, <1>9 DEF ErrorsConserved, held, sent

(* The property itself: from fn's return to Wait's, an error is with its   *)
(* worker, in the error channel or in err_para, once.                      *)
THEOREM ErrorsKept == Spec => []ErrorsConserved
  BY ErrorsPlaced, Invariant, PTL
-----------------------------------------------------------------------------
(* The refinement.                                                         *)
standing == [j \in Jobs |-> Status(j)]

(* The abstract status of a job.                                           *)
LEMMA StatusOf ==
    ASSUME IInv
    PROVE  /\ standing \in [Jobs -> {"todo", "ok", "failed"}]
           /\ \A j \in Jobs : /\ standing[j] = "todo" <=> runs[j] = 0
                              /\ standing[j] = "failed" <=> j \in failed
           /\ {j \in Jobs : standing[j] = "failed"} = failed
<1>1. RunsOK /\ failed \subseteq Jobs
  BY DEF IInv, TypeOK
<1>2. ASSUME NEW j \in Jobs
      PROVE  Status(j) = IF runs[j] = 0 THEN "todo" ELSE IF j \in failed THEN "failed" ELSE "ok"
  <2>1. CASE runs[j] = 0
    BY <2>1 DEF Status
  <2>2. CASE runs[j] = 1
    BY <2>2 DEF Status
  <2> QED
    BY <1>1, <2>1, <2>2 DEF RunsOK
<1> QED
  BY <1>1, <1>2 DEF standing, RunsOK

(* When the collector has gone, err_para holds every error raised.         *)
LEMMA AllCollected ==
    ASSUME IInv, collector = "gone"
    PROVE  Range1(epara) = failed
<1>1. /\ ErrorsOK /\ epara \in Seq(Jobs) /\ errch.buf = << >>
      /\ \A w \in Workers : ~Reports(w)
  BY DEF IInv, TypeOK, PhaseOK, Stopped, Reports
<1>2. \A j : In(j, epara) <=> j \in Range1(epara)
  BY DEF In, Range1
<1>3. \A j : In(j, epara) => j \in Jobs
  BY <1>1, LenProperties DEF In
<1>4. \A j : ~In(j, errch.buf)
  BY <1>1 DEF In
<1> QED
  BY <1>1, <1>2, <1>3, <1>4 DEF ErrorsOK

(* When the error channel is closed, the first worker has gone: either     *)
(* there was a cancel, or the job channel had been emptied.                *)
LEMMA LeftOutOnCancel ==
    ASSUME IInv, errch.closed, NEW j \in Jobs, runs[j] = 0
    PROVE  quick /\ failed # {}
<1>1. /\ PhaseOK /\ StopOK /\ NoneLost /\ TypeOK /\ left \in 0 .. NTask - 1
  BY DEF IInv, TypeOK
<1> USE WaitJobAssumption
<1>2. j < pusher.job
  BY <1>1 DEF PhaseOK, Jobs
<1>3. \A w \in Workers : ~Holds(w)
  BY <1>1 DEF PhaseOK, Stopped, Holds
<1>4. 1 \in Workers /\ worker[1].pc = "gone"
  <2>1. 1 \in Workers /\ ~(1 > NTask - left)
    BY <1>1 DEF Workers
  <2>2. worker[1].pc # "off"
    BY <1>1, <2>1 DEF StopOK
  <2> QED
    BY <1>1, <2>1, <2>2 DEF PhaseOK, Stopped
<1>5. Cancelled \/ Drained(ch)
  BY <1>1, <1>4 DEF StopOK
<1>6. Drained(ch) => Cancelled
  BY <1>1, <1>2, <1>3 DEF NoneLost, Waiting, Drained, In
<1> QED
  BY <1>1, <1>5, <1>6 DEF StopOK, Cancelled

(* A step of the pool is a step of JobPool or changes nothing there.       *)
LEMMA PoolStep == IInv /\ IInv' /\ [Next]_vars => [Pool!PoolNext]_(Pool!poolVars)
<1> SUFFICES ASSUME IInv, IInv', [Next]_vars PROVE [Pool!PoolNext]_(Pool!poolVars)
  OBVIOUS
<1> USE WaitJobAssumption, TypeFields
<1> DEFINE rep == IF pusher.pc = "done" THEN Range1(epara) ELSE {}
<1>0. /\ TypeOK /\ HeldOK /\ PhaseOK /\ runs \in [Jobs -> Nat] /\ failed \subseteq Jobs
      /\ pusher.pc \in {"grow", "send"} => pusher.job \in Jobs
  BY DEF IInv, TypeOK, PhaseOK
<1>a. Pool!Failed = failed /\ Pool!poolVars = <<quick, standing, pusher.pc = "done", rep>>
  BY StatusOf DEF Pool!Failed, Pool!poolVars, standing
<1>1. ASSUME UNCHANGED <<quick, runs, failed>>, pusher'.pc = "done" <=> pusher.pc = "done",
             pusher.pc = "done" => epara' = epara
      PROVE  UNCHANGED Pool!poolVars
  <2>1. standing' = standing
    BY <1>1 DEF standing, Status
  <2>2. rep' = rep
    BY <1>1
  <2>3. (pusher.pc = "done")' = (pusher.pc = "done")
    BY <1>1
  <2> QED
    BY <1>1, <2>1, <2>2, <2>3 DEF Pool!poolVars, standing
<1>2. CASE PushCheck \/ PushGrow \/ PushSend \/ WaitClose \/ WaitWorkers
  <2>1. UNCHANGED <<quick, runs, failed>> /\ pusher.pc # "done"
    BY <1>2 DEF PushCheck, PushGrow, PushSend, WaitClose, WaitWorkers
  <2>2. pusher'.pc # "done"
    BY <1>0, <1>2, PusherEffects DEF PusherTo
  <2> QED
    BY <1>1, <2>1, <2>2
<1>3. CASE WaitCollector
  <2>1. /\ pusher.pc = "errwg" /\ collector = "gone" /\ pusher'.pc = "done"
        /\ UNCHANGED <<quick, runs, failed, epara>>
    BY <1>0, <1>3, PusherEffects DEF WaitCollector, PusherTo
  <2>2. standing' = standing
    BY <2>1 DEF standing, Status
  <2>3. rep' = failed
    BY <2>1, AllCollected
  <2>4. (\E j \in Jobs : standing[j] = "todo") => quick /\ failed # {}
    BY <1>0, <2>1, StatusOf, LeftOutOnCancel DEF PhaseOK
  <2>5. Pool!WaitReturns
    BY <1>a, <2>1, <2>2, <2>3, <2>4 DEF Pool!WaitReturns, standing
  <2> QED
    BY <2>5 DEF Pool!PoolNext
<1>4. ASSUME NEW w \in Workers, Execute(w) PROVE Pool!PoolNext
  <2> DEFINE j == worker[w].job
  <2>1. /\ j \in Jobs /\ runs[j] = 0 /\ UNCHANGED <<quick, pusher, epara>>
        /\ runs' = [runs EXCEPT ![j] = runs[j] + 1] /\ worker[w].pc = "run"
    BY <1>0, <1>4 DEF HeldOK, Holds, Execute
  <2>2. pusher.pc # "done"
    BY <1>0, <2>1 DEF PhaseOK, Stopped
  <2>3. failed' = failed \/ failed' = failed \cup {j}
    BY <1>0, <1>4, WorkerEffects
  <2>4. /\ standing[j] = "todo" /\ standing \in [Jobs -> {"todo", "ok", "failed"}]
        /\ standing' \in [Jobs -> {"todo", "ok", "failed"}]
    BY <2>1, StatusOf DEF standing, Status, IInv
  <2>5. \A i \in Jobs : i # j => standing'[i] = standing[i]
    BY <1>0, <2>1, <2>3 DEF standing, Status
  <2>6. standing'[j] # "todo"
    BY <1>0, <2>1 DEF standing, Status
  <2>7. standing' = [standing EXCEPT ![j] = standing'[j]] /\ standing'[j] \in {"ok", "failed"}
    BY <2>1, <2>4, <2>5, <2>6
  <2>8. rep' = rep /\ (pusher.pc = "done")' = (pusher.pc = "done")
    BY <2>1
  <2>9. Pool!Run(j)
    BY <2>1, <2>2, <2>4, <2>7, <2>8 DEF Pool!Run, standing
  <2> QED
    BY <2>1, <2>9 DEF Pool!PoolNext
<1>5. ASSUME NEW w \in Workers, Take(w) \/ CheckCancel(w) \/ ReportError(w) \/ CancelAll(w)
      PROVE  UNCHANGED Pool!poolVars
  <2>1. UNCHANGED <<quick, runs, failed, pusher, epara>>
    BY <1>5 DEF Take, CheckCancel, ReportError, CancelAll
  <2> QED
    BY <1>1, <2>1
<1>6. CASE Collect
  <2>1. UNCHANGED <<quick, runs, failed, pusher>> /\ collector = "on"
    BY <1>6 DEF Collect
  <2>2. pusher.pc # "done"
    BY <1>0, <2>1 DEF PhaseOK
  <2> QED
    BY <1>1, <2>1, <2>2
<1>7. CASE UNCHANGED vars
  BY <1>1, <1>7 DEF vars
<1> QED
  BY <1>2, <1>3, <1>4, <1>5, <1>6, <1>7 DEF Next, Pusher, Worker

(* WaitJob implements the safety part of JobPool: each job is run at most  *)
(* once, Wait returns the errors of exactly the jobs that failed, and a    *)
(* job is left out only by a quick cancel after an error.                  *)
THEOREM PoolImplemented == Spec => Pool!PoolInit /\ [][Pool!PoolNext]_(Pool!poolVars)
<1>1. Init => Pool!PoolInit
  BY DEF Init, Pool!PoolInit, Status
<1> QED
  BY <1>1, PoolStep, Invariant, PTL DEF Spec

-----------------------------------------------------------------------------
(* STATS.  A set of naturals has a least element; a set with 0 and the     *)
(* successors of its members holds them all.                               *)
LEMMA LeastNat == ASSUME NEW T \in SUBSET Nat, T # {} PROVE \E x \in T : \A y \in T : x <= y
<1>1. PICK R : R = OpToRel(<, Nat) OBVIOUS
<1>2. IsWellFoundedOn(R, Nat) BY <1>1, NatLessThanWellFounded
<1>3. PICK x \in T : \A y \in T : <<y, x>> \notin R BY <1>2, WFMin
<1>4. \A y, z \in Nat : y < z => <<y, z>> \in R BY <1>1 DEF OpToRel
<1>5. ASSUME NEW y \in T PROVE x <= y
  <2>1. x \in Nat /\ y \in Nat /\ <<y, x>> \notin R BY <1>3
  <2>2. ~(y < x) BY <1>4, <2>1
  <2> QED BY <2>1, <2>2
<1> QED BY <1>5

LEMMA SetInduction ==
    ASSUME NEW T, 0 \in T, \A n \in Nat : n \in T => n + 1 \in T
    PROVE  Nat \subseteq T
<1>1. CASE \E n \in Nat : n \notin T
  <2>1. PICK x \in Nat \ T : \A y \in Nat \ T : x <= y BY <1>1, LeastNat
  <2>2. x # 0 OBVIOUS
  <2>3. x - 1 \in Nat /\ x - 1 \in T BY <2>1, <2>2
  <2>4. x \in T BY <2>3
  <2> QED BY <2>4
<1> QED BY <1>1

(* The sum of v over T, with no order of its own: what every subset of T   *)
(* adds up to, whichever element is taken off first.                       *)
Adds(f, T, v) == /\ f \in [SUBSET T -> Int] /\ f[{}] = 0
                 /\ \A S \in SUBSET T : \A x \in S : f[S] = v[x] + f[S \ {x}]
IsSum(n, T, v) == \E f : Adds(f, T, v) /\ n = f[T]

LEMMA SumNone == ASSUME NEW v PROVE IsSum(0, {}, v)
<1>1. PICK f : f = [S \in SUBSET {} |-> 0] OBVIOUS
<1>2. Adds(f, {}, v) /\ f[{}] = 0 BY <1>1 DEF Adds
<1> QED BY <1>2 DEF IsSum

LEMMA SumOneMore ==
    ASSUME NEW T, NEW x, x \notin T, NEW v, \A y \in T \cup {x} : v[y] \in Int,
           NEW n, IsSum(n, T, v)
    PROVE  IsSum(n + v[x], T \cup {x}, v)
<1>1. PICK f : Adds(f, T, v) /\ n = f[T] BY DEF IsSum
<1>2. PICK g : g = [S \in SUBSET (T \cup {x}) |-> IF x \in S THEN v[x] + f[S \ {x}] ELSE f[S]]
  OBVIOUS
<1>3. \A S \in SUBSET T : f[S] \in Int BY <1>1 DEF Adds
<1>4. ASSUME NEW S \in SUBSET (T \cup {x}), NEW y \in S PROVE g[S] = v[y] + g[S \ {y}]
  <2>1. CASE y = x
    <3>1. g[S] = v[x] + f[S \ {x}] BY <1>2, <2>1
    <3>2. S \ {x} \in SUBSET T OBVIOUS
    <3>3. g[S \ {x}] = f[S \ {x}] BY <1>2, <3>2
    <3> QED BY <2>1, <3>1, <3>3
  <2>2. CASE y # x /\ x \in S
    <3>1. g[S] = v[x] + f[S \ {x}] BY <1>2, <2>2
    <3>2. S \ {x} \in SUBSET T /\ y \in S \ {x} BY <2>2
    <3>3. f[S \ {x}] = v[y] + f[(S \ {x}) \ {y}] BY <1>1, <3>2 DEF Adds
    <3>4. S \ {y} \in SUBSET (T \cup {x}) /\ x \in S \ {y} BY <2>2
    <3>5. g[S \ {y}] = v[x] + f[(S \ {y}) \ {x}] BY <1>2, <3>4
    <3>6. (S \ {y}) \ {x} = (S \ {x}) \ {y} /\ (S \ {x}) \ {y} \in SUBSET T BY <3>2
    <3>7. PICK a, b, c : a = v[x] /\ b = v[y] /\ c = f[(S \ {x}) \ {y}] OBVIOUS
    <3>8. a \in Int /\ b \in Int /\ c \in Int BY <1>3, <3>2, <3>6, <3>7
    <3>9. g[S] = a + (b + c) /\ g[S \ {y}] = a + c BY <3>1, <3>3, <3>5, <3>6, <3>7
    <3> QED BY <3>7, <3>8, <3>9
  <2>3. CASE x \notin S
    <3>1. S \in SUBSET T /\ S \ {y} \in SUBSET T BY <2>3
    <3>2. g[S] = f[S] /\ g[S \ {y}] = f[S \ {y}] BY <1>2, <2>3, <3>1
    <3>3. f[S] = v[y] + f[S \ {y}] BY <1>1, <3>1 DEF Adds
    <3> QED BY <3>2, <3>3
  <2> QED BY <2>1, <2>2, <2>3
<1>5. g \in [SUBSET (T \cup {x}) -> Int]
  <2>1. ASSUME NEW S \in SUBSET (T \cup {x}) PROVE g[S] \in Int
    <3>1. CASE x \in S
      <4>1. S \ {x} \in SUBSET T OBVIOUS
      <4> QED BY <1>2, <1>3, <3>1, <4>1
    <3>2. CASE x \notin S
      <4>1. S \in SUBSET T BY <3>2
      <4> QED BY <1>2, <1>3, <3>2, <4>1
    <3> QED BY <3>1, <3>2
  <2> QED BY <1>2, <2>1
<1>6. g[{}] = 0
  <2>1. {} \in SUBSET (T \cup {x}) /\ x \notin {} OBVIOUS
  <2>2. g[{}] = f[{}] BY <1>2, <2>1
  <2> QED BY <1>1, <2>2 DEF Adds
<1>7. g[T \cup {x}] = n + v[x]
  <2>1. T \cup {x} \in SUBSET (T \cup {x}) /\ x \in T \cup {x} /\ (T \cup {x}) \ {x} = T OBVIOUS
  <2>2. g[T \cup {x}] = v[x] + f[T] BY <1>2, <2>1
  <2> QED BY <1>1, <1>3, <2>2
<1>8. Adds(g, T \cup {x}, v) BY <1>4, <1>5, <1>6 DEF Adds
<1> QED BY <1>7, <1>8 DEF IsSum

(* The fold of TotalsExact is that sum: it takes the elements off in one   *)
(* order, and solves its recursion as the sum does.                        *)
Chosen(S) == CHOOSE x \in S : TRUE
TakesOff(f, T) ==
    f = [S \in SUBSET T |-> IF S = {} THEN 0 ELSE caller[Chosen(S)].val + f[S \ {Chosen(S)}]]

LEMMA FoldSolves == ASSUME NEW T, \E f : TakesOff(f, T)
    PROVE \E f : TakesOff(f, T) /\ MapThenSumSet(LAMBDA c : caller[c].val, T) = f[T]
<1> DEFINE fold == CHOOSE f : TakesOff(f, T)
<1>1. TakesOff(fold, T) BY Zenon
<1>2. MapThenSumSet(LAMBDA c : caller[c].val, T) = fold[T]
  BY DEF MapThenSumSet, MapThenFoldSet, TakesOff, Chosen
<1> HIDE DEF fold
<1> QED BY <1>1, <1>2

LEMMA FoldIsSum ==
    ASSUME NEW T, IsFiniteSet(T), NEW v, \A c \in T : v[c] = caller[c].val, NEW n, IsSum(n, T, v)
    PROVE  MapThenSumSet(LAMBDA c : caller[c].val, T) = n
<1>1. PICK f : Adds(f, T, v) /\ n = f[T] BY DEF IsSum
<1>2. ASSUME NEW S \in SUBSET T, S # {} PROVE Chosen(S) \in S /\ S \ {Chosen(S)} \in SUBSET T
  BY <1>2 DEF Chosen
<1>3. TakesOff(f, T)
  <2>1. f = [S \in SUBSET T |-> f[S]] BY <1>1 DEF Adds
  <2>2. ASSUME NEW S \in SUBSET T
        PROVE  f[S] = IF S = {} THEN 0 ELSE caller[Chosen(S)].val + f[S \ {Chosen(S)}]
    <3>1. CASE S = {} BY <1>1, <3>1 DEF Adds
    <3>2. CASE S # {}
      <4>1. PICK x : x = Chosen(S) OBVIOUS
      <4>2. x \in S BY <1>2, <3>2, <4>1
      <4>3. f[S] = v[x] + f[S \ {x}] BY <1>1, <4>2 DEF Adds
      <4>4. v[x] = caller[x].val BY <4>2
      <4> QED BY <3>2, <4>1, <4>3, <4>4
    <3> QED BY <3>1, <3>2
  <2> QED BY <2>1, <2>2 DEF TakesOff
<1>4. PICK g : TakesOff(g, T) /\ MapThenSumSet(LAMBDA c : caller[c].val, T) = g[T]
  BY <1>3, FoldSolves
<1> DEFINE Bad == {S \in SUBSET T : f[S] # g[S]}
           Sizes == {Cardinality(S) : S \in Bad}
<1>5. CASE Bad # {}
  <2>1. \A S \in SUBSET T : IsFiniteSet(S) /\ Cardinality(S) \in Nat BY FS_Subset, FS_CardinalityType
  <2>2. Sizes \in SUBSET Nat /\ Sizes # {} BY <1>5, <2>1
  <2>3. PICK m \in Sizes : \A k \in Sizes : m <= k
    <3> HIDE DEF Sizes
    <3> QED BY <2>2, LeastNat
  <2>4. PICK S \in Bad : m = Cardinality(S) OBVIOUS
  <2>5. f[S] # g[S] BY <2>4
  <2>6. S # {}
    <3>1. f[{}] = 0 BY <1>1 DEF Adds
    <3>2. g[{}] = 0 BY <1>4 DEF TakesOff
    <3> QED BY <2>5, <3>1, <3>2
  <2>7. PICK x : x = Chosen(S) OBVIOUS
  <2>8. x \in S /\ S \ {x} \in SUBSET T BY <1>2, <2>6, <2>7
  <2>9. Cardinality(S \ {x}) = m - 1 BY <2>1, <2>4, <2>8, FS_RemoveElement
  <2>10. S \ {x} \notin Bad
    <3>1. CASE S \ {x} \in Bad
      <4>1. m - 1 \in Sizes BY <2>9, <3>1
      <4>2. m \in Nat /\ m <= m - 1 BY <2>2, <2>3, <4>1
      <4> QED BY <4>2
    <3> QED BY <3>1
  <2>11. f[S \ {x}] = g[S \ {x}] BY <2>8, <2>10
  <2>12. f[S] = caller[x].val + f[S \ {x}] BY <1>3, <2>6, <2>7 DEF TakesOff
  <2>13. g[S] = caller[x].val + g[S \ {x}] BY <1>4, <2>6, <2>7 DEF TakesOff
  <2> QED BY <2>5, <2>11, <2>12, <2>13
<1>6. CASE Bad = {}
  <2>1. f[T] = g[T] BY <1>6
  <2> QED BY <1>1, <1>4, <2>1
<1> QED BY <1>5, <1>6

-----------------------------------------------------------------------------
(* A counter of kind k with the total n, when the calls U have had hold of *)
(* it and those of B are back; v is what the calls were given.             *)
Exact(k, n, U, B, v) ==
    /\ U # {}
    /\ k = "set" => \E c \in U : n = v[c]
    /\ k = "min" => (\E c \in U : n = v[c]) /\ \A c \in B : n <= v[c]
    /\ k = "max" => (\E c \in U : n = v[c]) /\ \A c \in B : n >= v[c]
    /\ k = "chg" => IsSum(n, B, v)

LEMMA ExactUsed ==
    ASSUME NEW k, NEW n, NEW U, NEW B, NEW v, Exact(k, n, U, B, v), NEW W, U \subseteq W
    PROVE  Exact(k, n, W, B, v)
  BY DEF Exact

LEMMA ExactNew == ASSUME NEW k, NEW x, NEW v, v[x] \in Int PROVE Exact(k, v[x], {x}, {x}, v)
<1>1. IsSum(0 + v[x], {} \cup {x}, v)
  <2>1. IsSum(0, {}, v) BY SumNone
  <2> HIDE DEF IsSum
  <2> QED BY <2>1, SumOneMore
<1>2. {} \cup {x} = {x} /\ 0 + v[x] = v[x] OBVIOUS
<1>3. IsSum(v[x], {x}, v) BY <1>1, <1>2
<1> QED BY <1>3 DEF Exact

LEMMA ExactSet ==
    ASSUME NEW n, NEW U, NEW B, NEW v, NEW x \in U
    PROVE  Exact("set", v[x], U, B, v)
  BY DEF Exact

LEMMA ExactAdded ==
    ASSUME NEW n, NEW U, NEW B, NEW v, Exact("chg", n, U, B, v), NEW x, x \notin B,
           \A y \in B \cup {x} : v[y] \in Int
    PROVE  Exact("chg", n + v[x], U, B \cup {x}, v)
<1>1. IsSum(n + v[x], B \cup {x}, v) BY SumOneMore DEF Exact
<1> QED BY <1>1 DEF Exact

LEMMA ExactKept ==
    ASSUME NEW k \in {"min", "max"}, NEW n, NEW U, NEW B, NEW v, Exact(k, n, U, B, v), NEW x,
           IF k = "min" THEN n <= v[x] ELSE n >= v[x]
    PROVE  Exact(k, n, U, B \cup {x}, v)
  BY DEF Exact

LEMMA ExactSwapped ==
    ASSUME NEW k \in {"min", "max"}, NEW n \in Int, NEW U, NEW B, NEW v, Exact(k, n, U, B, v),
           NEW x \in U, \A y \in B \cup {x} : v[y] \in Int,
           IF k = "min" THEN n > v[x] ELSE n < v[x]
    PROVE  Exact(k, v[x], U, B \cup {x}, v)
  BY DEF Exact

(* What is exact once every call is back.                                  *)
LEMMA ExactEnds ==
    ASSUME NEW k, NEW n \in Int, NEW U, NEW v, Exact(k, n, U, U, v), \A y \in U : v[y] \in Int,
           NEW vals, vals = {v[c] : c \in U}
    PROVE  /\ k = "set" => n \in vals
           /\ k = "min" => n = Min(vals)
           /\ k = "max" => n = Max(vals)
<1>1. ASSUME k = "min" PROVE n = Min(vals)
  <2>1. n \in vals /\ \A y \in vals : n <= y BY <1>1 DEF Exact
  <2>2. \A m \in vals : m \in Int BY DEF Exact
  <2>3. \A m \in vals : (\A y \in vals : m <= y) => m = n BY <2>1, <2>2
  <2> QED BY <2>1, <2>3 DEF Min
<1>2. ASSUME k = "max" PROVE n = Max(vals)
  <2>1. n \in vals /\ \A y \in vals : n >= y BY <1>2 DEF Exact
  <2>2. \A m \in vals : m \in Int BY DEF Exact
  <2>3. \A m \in vals : (\A y \in vals : m >= y) => m = n BY <2>1, <2>2
  <2> QED BY <2>1, <2>3 DEF Max
<1>3. k = "set" => n \in vals BY DEF Exact
<1> QED BY <1>1, <1>2, <1>3

-----------------------------------------------------------------------------
(* The calls that have had hold of a counter, those of them that are back, *)
(* and what all of them were given.                                        *)
Users(s) == {c \in Callers : caller[c].stat = s}
Back(s) == {c \in Users(s) : caller[c].pc = "back"}
Given == [c \in Callers |-> caller[c].val]

CallerRec == [pc : {"out", "load", "read", "write", "total", "swap", "back"}, val : Int,
              stat : Nat, read : Int]

PerfRec == [val : Int, total : Int]

StatType ==
    /\ kind \in {"set", "chg", "min", "max"}
    /\ perfs \in Seq(PerfRec) /\ current \in 0 .. Len(perfs)
    /\ caller \in [Callers -> CallerRec]
    /\ printer \in [pc : {"out", "range", "clear"}, stat : Nat]
    /\ printer.pc = "clear" => printer.stat \in 1 .. Len(perfs)

(* A call has hold of a counter that was made, from its load on; about to  *)
(* swap it read a total that its value improves on.                        *)
CallOK(c) ==
    /\ caller[c].stat \in 0 .. Len(perfs)
    /\ caller[c].pc \in {"out", "load"} => caller[c].stat = 0
    /\ caller[c].pc \in {"read", "write", "total", "swap"} => caller[c].stat # 0
    /\ caller[c].pc = "swap" =>
         /\ kind \in {"min", "max"}
         /\ IF kind = "min" THEN caller[c].read > caller[c].val ELSE caller[c].read < caller[c].val

TotalOK(s) == Exact(kind, perfs[s].total, Users(s), Back(s), Given)

StatInv == /\ StatType
           /\ \A c \in Callers : CallOK(c)
           /\ \A s \in 1 .. Len(perfs) : TotalOK(s)

LEMMA StatInitInv == ASSUME StatAssumption, StatInit PROVE StatInv
<1>1. perfs = << >> /\ Len(perfs) = 0 /\ perfs \in Seq(PerfRec)
      /\ current = 0 /\ kind \in {"set", "chg", "min", "max"}
  BY DEF StatInit
<1>2. PICK val \in [Callers -> Deltas] :
         caller = [c \in Callers |-> [pc |-> "out", val |-> val[c], stat |-> 0, read |-> 0]]
  BY DEF StatInit
<1>3. caller \in [Callers -> CallerRec]
  <2>1. ASSUME NEW c \in Callers
        PROVE  [pc |-> "out", val |-> val[c], stat |-> 0, read |-> 0] \in CallerRec
    <3>1. val[c] \in Int BY DEF StatAssumption
    <3> QED BY <3>1 DEF CallerRec
  <2> QED BY <1>2, <2>1
<1>4. printer = [pc |-> "out", stat |-> 0] BY DEF StatInit
<1>5. \A c \in Callers : CallOK(c) BY <1>1, <1>2 DEF CallOK
<1> QED BY <1>1, <1>3, <1>4, <1>5 DEF StatInv, StatType

(* A step of one call that gets it to pc with stat and read.               *)
Goes(c, pc, stat, read) ==
    caller' = [caller EXCEPT ![c].pc = pc, ![c].stat = stat, ![c].read = read]

LEMMA GoesTypes ==
    ASSUME StatInv, NEW c \in Callers, NEW pc, NEW stat \in Nat, NEW read \in Int,
           pc \in {"out", "load", "read", "write", "total", "swap", "back"}, Goes(c, pc, stat, read)
    PROVE  /\ caller' \in [Callers -> CallerRec]
           /\ caller'[c].pc = pc /\ caller'[c].stat = stat /\ caller'[c].read = read
           /\ caller'[c].val = caller[c].val
           /\ \A d \in Callers \ {c} : caller'[d] = caller[d]
           /\ Given' = Given
<1>1. PICK r : r = caller[c] OBVIOUS
<1>2. r \in CallerRec /\ caller \in [Callers -> CallerRec] BY <1>1 DEF StatInv, StatType
<1>3. PICK q : q = [r EXCEPT !.pc = pc, !.stat = stat, !.read = read] OBVIOUS
<1>4. q \in CallerRec /\ q.pc = pc /\ q.stat = stat /\ q.read = read /\ q.val = r.val
  BY <1>2, <1>3 DEF CallerRec
<1>5. caller' = [caller EXCEPT ![c] = q] BY <1>1, <1>2, <1>3 DEF Goes
<1>6. /\ caller' \in [Callers -> CallerRec] /\ caller'[c] = q
      /\ \A d \in Callers \ {c} : caller'[d] = caller[d]
  BY <1>2, <1>4, <1>5
<1>7. Given' = Given BY <1>1, <1>4, <1>6 DEF Given
<1> QED BY <1>1, <1>4, <1>6, <1>7

LEMMA GoesOn ==
    ASSUME StatInv, NEW c \in Callers, NEW pc \in {"load", "read", "write", "total", "swap", "back"},
           NEW stat \in Nat, NEW read \in Int, Goes(c, pc, stat, read)
    PROVE  /\ caller'[c].pc = pc /\ caller'[c].stat = stat /\ caller'[c].read = read
           /\ caller'[c].val = caller[c].val
<1>1. pc \in {"out", "load", "read", "write", "total", "swap", "back"} OBVIOUS
<1> QED BY <1>1, GoesTypes

(* A step of a call within its way: it does not come back with a counter,  *)
(* and lets go of none.                                                    *)
LEMMA StepWithin ==
    ASSUME StatInv, NEW c \in Callers, NEW pc, NEW stat \in 0 .. Len(perfs), NEW read \in Int,
           pc \in {"load", "read", "write", "total", "swap", "back"}, Goes(c, pc, stat, read),
           caller[c].pc # "back", caller[c].stat = 0 \/ stat = caller[c].stat,
           pc = "back" => stat = 0,
           kind' = kind, Len(perfs') = Len(perfs), perfs' \in Seq(PerfRec),
           \A s \in 1 .. Len(perfs) : perfs'[s].total = perfs[s].total,
           current' = current, printer' = printer, CallOK(c)'
    PROVE  StatInv'
<1>1. Len(perfs) \in Nat /\ stat \in Nat BY DEF StatInv, StatType
<1>2. /\ caller' \in [Callers -> CallerRec]
      /\ caller'[c].pc = pc /\ caller'[c].stat = stat
      /\ \A d \in Callers \ {c} : caller'[d] = caller[d]
      /\ Given' = Given
  BY <1>1, GoesTypes
<1>3. StatType' BY <1>2 DEF StatInv, StatType
<1>4. ASSUME NEW d \in Callers PROVE CallOK(d)'
  <2>1. CASE d = c BY <2>1
  <2>2. CASE d # c
    <3>1. CallOK(d) /\ caller'[d] = caller[d] BY <1>2, <2>2 DEF StatInv
    <3> QED BY <3>1 DEF CallOK
  <2> QED BY <2>1, <2>2
<1>5. ASSUME NEW s \in 1 .. Len(perfs) PROVE TotalOK(s)'
  <2>1. PICK U, B, W, C : U = Users(s) /\ B = Back(s) /\ W = Users(s)' /\ C = Back(s)' OBVIOUS
  <2>2. U \subseteq W
    <3>1. ASSUME NEW d \in Callers, caller[d].stat = s PROVE caller'[d].stat = s
      <4>1. CASE d = c BY <1>2, <3>1, <4>1
      <4>2. CASE d # c BY <1>2, <3>1, <4>2
      <4> QED BY <4>1, <4>2
    <3> QED BY <2>1, <3>1 DEF Users
  <2>3. C = B
    <3>1. ASSUME NEW d \in Callers
          PROVE  (caller'[d].stat = s /\ caller'[d].pc = "back")
                    <=> (caller[d].stat = s /\ caller[d].pc = "back")
      <4>1. CASE d = c BY <1>1, <1>2, <4>1
      <4>2. CASE d # c BY <1>2, <4>2
      <4> QED BY <4>1, <4>2
    <3> QED BY <2>1, <3>1 DEF Back, Users
  <2>4. Exact(kind, perfs[s].total, U, B, Given) BY <2>1 DEF StatInv, TotalOK
  <2>5. Exact(kind, perfs[s].total, W, C, Given) BY <2>2, <2>3, <2>4, ExactUsed
  <2> QED BY <1>2, <2>1, <2>5 DEF TotalOK
<1> QED BY <1>3, <1>4, <1>5 DEF StatInv

(* A call comes back with its counter, which has the total n now.          *)
LEMMA StepBack ==
    ASSUME StatInv, NEW c \in Callers, NEW t \in 1 .. Len(perfs), NEW n, caller[c].stat = t,
           NEW read \in Int, Goes(c, "back", t, read), kind' = kind,
           Exact(kind, n, Users(t), Back(t) \cup {c}, Given),
           Len(perfs') = Len(perfs), perfs' \in Seq(PerfRec),
           perfs'[t].total = n,
           \A s \in 1 .. Len(perfs) : s # t => perfs'[s].total = perfs[s].total,
           current' = current, printer' = printer
    PROVE  StatInv'
<1>1. Len(perfs) \in Nat /\ t \in Nat BY DEF StatInv, StatType
<1>2. /\ caller' \in [Callers -> CallerRec]
      /\ caller'[c].pc = "back" /\ caller'[c].stat = t
      /\ \A d \in Callers \ {c} : caller'[d] = caller[d]
      /\ Given' = Given
  BY <1>1, GoesTypes, ZenonT(30)
<1>3. StatType' BY <1>2 DEF StatInv, StatType
<1>4. ASSUME NEW d \in Callers PROVE CallOK(d)'
  <2>1. CASE d = c BY <1>2, <2>1 DEF CallOK
  <2>2. CASE d # c
    <3>1. CallOK(d) /\ caller'[d] = caller[d] BY <1>2, <2>2 DEF StatInv
    <3> QED BY <3>1 DEF CallOK
  <2> QED BY <2>1, <2>2
<1>5. \A s : Users(s)' = Users(s)
  <2>1. \A d \in Callers : caller'[d].stat = caller[d].stat BY <1>2
  <2> QED BY <2>1 DEF Users
<1>6. ASSUME NEW s \in 1 .. Len(perfs) PROVE TotalOK(s)'
  <2>1. PICK U, B, C : U = Users(s) /\ B = Back(s) /\ C = Back(s)' OBVIOUS
  <2>2. CASE s = t
    <3>1. C = B \cup {c}
      <4>1. \A d \in Callers : caller'[d].pc = "back" <=> (caller[d].pc = "back" \/ d = c) BY <1>2
      <4>2. c \in Users(s) BY <2>2 DEF Users
      <4>3. C = {d \in U : caller'[d].pc = "back"} BY <1>5, <2>1 DEF Back
      <4>4. U \subseteq Callers /\ c \in U BY <2>1, <4>2 DEF Users
      <4>5. B = {d \in U : caller[d].pc = "back"} BY <2>1 DEF Back
      <4> QED BY <4>1, <4>3, <4>4, <4>5
    <3>2. Exact(kind, n, U, C, Given) BY <2>1, <2>2, <3>1
    <3> QED BY <1>2, <1>5, <2>1, <2>2, <3>2 DEF TotalOK
  <2>3. CASE s # t
    <3>1. C = B
      <4>1. \A d \in Users(s) : caller'[d] = caller[d] BY <1>2, <2>3 DEF Users
      <4> QED BY <1>5, <2>1, <4>1 DEF Back
    <3>2. Exact(kind, perfs[s].total, U, B, Given) BY <2>1 DEF StatInv, TotalOK
    <3> QED BY <1>2, <1>5, <2>1, <2>3, <3>1, <3>2 DEF TotalOK
  <2> QED BY <2>2, <2>3
<1> QED BY <1>3, <1>4, <1>6 DEF StatInv

(* A call finds no counter and makes one.                                  *)
LEMMA StepNew ==
    ASSUME StatInv, NEW c \in Callers, NEW p \in PerfRec, p.total = caller[c].val,
           NEW new, new = Append(perfs, p), perfs' = new, current' = Len(new), kind' = kind,
           printer' = printer,
           caller[c].stat = 0, Goes(c, "back", Len(new), caller[c].read)
    PROVE  StatInv'
<1>0. perfs \in Seq(PerfRec) /\ Len(perfs) \in Nat BY DEF StatInv, StatType
<1>1. /\ new \in Seq(PerfRec) /\ Len(new) = Len(perfs) + 1 /\ Len(new) \in Nat
      /\ new[Len(new)] = p /\ \A s \in 1 .. Len(perfs) : new[s] = perfs[s]
  BY <1>0
<1>2. caller[c].read \in Int BY DEF StatInv, StatType, CallerRec
<1>3. /\ caller' \in [Callers -> CallerRec]
      /\ caller'[c].pc = "back" /\ caller'[c].stat = Len(new)
      /\ \A d \in Callers \ {c} : caller'[d] = caller[d]
      /\ Given' = Given
  <2>1. PICK read \in Int : read = caller[c].read BY <1>2
  <2>2. PICK m \in Nat : m = Len(new) BY <1>1
  <2>3. Goes(c, "back", m, read) BY <2>1, <2>2
  <2>4. /\ caller' \in [Callers -> CallerRec]
        /\ caller'[c].pc = "back" /\ caller'[c].stat = m
        /\ \A d \in Callers \ {c} : caller'[d] = caller[d]
        /\ Given' = Given
    BY <2>3, GoesTypes
  <2> QED BY <2>2, <2>4
<1>4. StatType'
  <2>1. printer.pc = "clear" => printer.stat \in 1 .. Len(new)
    BY <1>0, <1>1 DEF StatInv, StatType
  <2> QED BY <1>1, <1>3, <2>1 DEF StatInv, StatType
<1>5. \A d \in Callers : caller[d].stat \in 0 .. Len(perfs) BY DEF StatInv, CallOK
<1>6. ASSUME NEW d \in Callers PROVE CallOK(d)'
  <2>1. CASE d = c BY <1>1, <1>3, <2>1 DEF CallOK
  <2>2. CASE d # c
    <3>1. CallOK(d) /\ caller'[d] = caller[d] BY <1>3, <2>2 DEF StatInv
    <3> QED BY <1>0, <1>1, <3>1 DEF CallOK
  <2> QED BY <2>1, <2>2
<1>7. ASSUME NEW s \in 1 .. Len(perfs) PROVE TotalOK(s)'
  <2>1. ASSUME NEW d \in Callers PROVE caller'[d].stat = s <=> caller[d].stat = s
    <3>1. CASE d = c
      <4>1. PICK m : m = Len(new) OBVIOUS
      <4>2. m # s /\ s # 0 BY <1>0, <1>1, <4>1
      <4>3. caller'[d].stat = m /\ caller[d].stat = 0 BY <1>3, <3>1, <4>1
      <4> QED BY <4>2, <4>3
    <3>2. CASE d # c BY <1>3, <3>2
    <3> QED BY <3>1, <3>2
  <2>2. Users(s)' = Users(s) BY <2>1 DEF Users
  <2>3. \A d \in Users(s) : caller'[d] = caller[d] BY <1>3 DEF Users
  <2>4. Back(s)' = Back(s) BY <2>2, <2>3 DEF Back
  <2>5. TotalOK(s) /\ perfs'[s] = perfs[s] BY <1>1 DEF StatInv
  <2> QED BY <1>3, <2>2, <2>4, <2>5 DEF TotalOK
<1>8. ASSUME NEW s, s = Len(new) PROVE TotalOK(s)'
  <2>1. \A d \in Callers : caller'[d].stat = s <=> d = c BY <1>0, <1>1, <1>3, <1>5, <1>8
  <2>2. Users(s)' = {c} BY <2>1 DEF Users
  <2>3. Back(s)' = {c} BY <1>3, <2>2 DEF Back
  <2>4. Given[c] = caller[c].val /\ caller[c].val \in Int BY DEF Given, StatInv, StatType, CallerRec
  <2>5. Exact(kind, Given[c], {c}, {c}, Given) BY <2>4, ExactNew
  <2>6. perfs'[s].total = Given[c] BY <1>1, <1>8, <2>4
  <2> QED BY <1>3, <2>2, <2>3, <2>5, <2>6 DEF TotalOK
<1>9. \A s \in 1 .. Len(perfs') : s \in 1 .. Len(perfs) \/ s = Len(new) BY <1>0, <1>1
<1> QED BY <1>4, <1>6, <1>7, <1>8, <1>9 DEF StatInv

(* What no call does leaves the totals and the calls alone.                *)
LEMMA StepAside ==
    ASSUME StatInv, caller' = caller, kind' = kind, Len(perfs') = Len(perfs),
           perfs' \in Seq(PerfRec),
           \A s \in 1 .. Len(perfs) : perfs'[s].total = perfs[s].total,
           current' \in 0 .. Len(perfs), printer' \in [pc : {"out", "range", "clear"}, stat : Nat],
           printer'.pc = "clear" => printer'.stat \in 1 .. Len(perfs)
    PROVE  StatInv'
<1>1. StatType' BY DEF StatInv, StatType
<1>2. \A c \in Callers : CallOK(c)' BY DEF StatInv, CallOK
<1>3. Given' = Given /\ \A s : Users(s)' = Users(s) BY DEF Given, Users
<1>4. \A s : Back(s)' = Back(s) BY <1>3 DEF Back
<1>5. \A s \in 1 .. Len(perfs) : TotalOK(s)' BY <1>3, <1>4 DEF StatInv, TotalOK
<1> QED BY <1>1, <1>2, <1>5 DEF StatInv

-----------------------------------------------------------------------------
(* The forms of the actions.                                               *)
LEMMA GoesTo ==
    ASSUME StatInv, NEW c \in Callers, NEW pc
    PROVE  /\ To(c, pc) => Goes(c, pc, caller[c].stat, caller[c].read)
           /\ \A s : caller' = [caller EXCEPT ![c].pc = pc, ![c].stat = s]
                       => Goes(c, pc, s, caller[c].read)
           /\ \A r : caller' = [caller EXCEPT ![c].pc = pc, ![c].read = r]
                       => Goes(c, pc, caller[c].stat, r)
<1>1. PICK q : q = caller[c] OBVIOUS
<1>2. q \in CallerRec /\ caller \in [Callers -> CallerRec] BY <1>1 DEF StatInv, StatType
<1>3. /\ [q EXCEPT !.pc = pc] = [q EXCEPT !.pc = pc, !.stat = q.stat, !.read = q.read]
      /\ \A s : [q EXCEPT !.pc = pc, !.stat = s]
                   = [q EXCEPT !.pc = pc, !.stat = s, !.read = q.read]
      /\ \A r : [q EXCEPT !.pc = pc, !.read = r]
                   = [q EXCEPT !.pc = pc, !.stat = q.stat, !.read = r]
  BY <1>2 DEF CallerRec
<1>4. To(c, pc) => Goes(c, pc, caller[c].stat, caller[c].read)
  BY <1>1, <1>2, <1>3 DEF To, Goes
<1>5. ASSUME NEW s, caller' = [caller EXCEPT ![c].pc = pc, ![c].stat = s]
      PROVE  Goes(c, pc, s, caller[c].read)
  BY <1>1, <1>2, <1>3, <1>5 DEF Goes
<1>6. ASSUME NEW r, caller' = [caller EXCEPT ![c].pc = pc, ![c].read = r]
      PROVE  Goes(c, pc, caller[c].stat, r)
  BY <1>1, <1>2, <1>3, <1>6 DEF Goes
<1> QED BY <1>4, <1>5, <1>6

LEMMA PerfSet ==
    ASSUME StatType, NEW t \in 1 .. Len(perfs), NEW x \in Int
    PROVE  /\ perfs' = [perfs EXCEPT ![t].val = x] =>
                /\ Len(perfs') = Len(perfs) /\ perfs' \in Seq(PerfRec)
                /\ \A s \in 1 .. Len(perfs) : perfs'[s].total = perfs[s].total
           /\ perfs' = [perfs EXCEPT ![t].total = x] =>
                /\ Len(perfs') = Len(perfs) /\ perfs' \in Seq(PerfRec)
                /\ perfs'[t].total = x
                /\ \A s \in 1 .. Len(perfs) : s # t => perfs'[s].total = perfs[s].total
<1>1. perfs \in Seq(PerfRec) BY DEF StatType
<1>2. PICK p : p = perfs[t] OBVIOUS
<1>3. p \in PerfRec BY <1>1, <1>2
<1>4. PICK q, r : q = [p EXCEPT !.val = x] /\ r = [p EXCEPT !.total = x] OBVIOUS
<1>5. /\ q \in PerfRec /\ q.total = p.total
      /\ r \in PerfRec /\ r.total = x
  BY <1>3, <1>4 DEF PerfRec
<1>6. /\ [perfs EXCEPT ![t].val = x] = [perfs EXCEPT ![t] = q]
      /\ [perfs EXCEPT ![t].total = x] = [perfs EXCEPT ![t] = r]
  BY <1>2, <1>4
<1>7. ASSUME perfs' = [perfs EXCEPT ![t].val = x]
      PROVE  /\ Len(perfs') = Len(perfs) /\ perfs' \in Seq(PerfRec)
             /\ \A s \in 1 .. Len(perfs) : perfs'[s].total = perfs[s].total
  <2>1. perfs' = [perfs EXCEPT ![t] = q] BY <1>6, <1>7
  <2>2. PICK seq : seq = [perfs EXCEPT ![t] = q] OBVIOUS
  <2>3. /\ Len(seq) = Len(perfs) /\ seq \in Seq(PerfRec)
        /\ seq[t] = q /\ \A s \in 1 .. Len(perfs) : s # t => seq[s] = perfs[s]
    BY <1>1, <1>5, <2>2
  <2> QED BY <1>2, <1>5, <2>1, <2>2, <2>3
<1>8. ASSUME perfs' = [perfs EXCEPT ![t].total = x]
      PROVE  /\ Len(perfs') = Len(perfs) /\ perfs' \in Seq(PerfRec)
             /\ perfs'[t].total = x
             /\ \A s \in 1 .. Len(perfs) : s # t => perfs'[s].total = perfs[s].total
  <2>1. perfs' = [perfs EXCEPT ![t] = r] BY <1>6, <1>8
  <2>2. PICK seq : seq = [perfs EXCEPT ![t] = r] OBVIOUS
  <2>3. /\ Len(seq) = Len(perfs) /\ seq \in Seq(PerfRec)
        /\ seq[t] = r /\ \A s \in 1 .. Len(perfs) : s # t => seq[s] = perfs[s]
    BY <1>1, <1>5, <2>2
  <2> QED BY <1>5, <2>1, <2>2, <2>3
<1> QED BY <1>7, <1>8

(* A call that has not come back, with the counter it has hold of.         *)
LEMMA AtCall ==
    ASSUME StatInv, NEW c \in Callers
    PROVE  /\ caller[c].val \in Int /\ caller[c].read \in Int
           /\ caller[c].stat \in 0 .. Len(perfs) /\ caller[c].stat \in Nat
           /\ caller[c].pc \in {"out", "load"} => caller[c].stat = 0
           /\ caller[c].pc \in {"read", "write", "total", "swap"} =>
                /\ caller[c].stat \in 1 .. Len(perfs)
                /\ perfs[caller[c].stat].val \in Int /\ perfs[caller[c].stat].total \in Int
                /\ c \in Users(caller[c].stat) /\ c \notin Back(caller[c].stat)
                /\ Exact(kind, perfs[caller[c].stat].total, Users(caller[c].stat),
                         Back(caller[c].stat), Given)
           /\ Given[c] = caller[c].val
           /\ \A d \in Callers : Given[d] \in Int
<1>1. StatType /\ CallOK(c) BY DEF StatInv
<1>2. PICK q : q = caller[c] OBVIOUS
<1>3. q \in CallerRec BY <1>1, <1>2 DEF StatType
<1>4. q.val \in Int /\ q.read \in Int /\ q.stat \in Nat BY <1>3 DEF CallerRec
<1>5. Given[c] = caller[c].val BY DEF Given
<1>6. \A d \in Callers : Given[d] \in Int BY <1>1 DEF Given, StatType, CallerRec
<1>7. ASSUME caller[c].pc \in {"read", "write", "total", "swap"}
      PROVE  /\ caller[c].stat \in 1 .. Len(perfs)
             /\ perfs[caller[c].stat].val \in Int /\ perfs[caller[c].stat].total \in Int
             /\ c \in Users(caller[c].stat) /\ c \notin Back(caller[c].stat)
             /\ Exact(kind, perfs[caller[c].stat].total, Users(caller[c].stat),
                      Back(caller[c].stat), Given)
  <2>1. PICK t : t = caller[c].stat OBVIOUS
  <2>2. t \in 1 .. Len(perfs) BY <1>1, <1>2, <1>4, <1>7, <2>1 DEF CallOK
  <2>3. perfs[t].val \in Int /\ perfs[t].total \in Int
    <3>1. perfs \in Seq(PerfRec) BY <1>1 DEF StatType
    <3>2. perfs[t] \in PerfRec BY <2>2, <3>1
    <3> QED BY <3>2 DEF PerfRec
  <2>4. c \in Users(t) /\ c \notin Back(t) BY <1>7, <2>1 DEF Users, Back
  <2>5. Exact(kind, perfs[t].total, Users(t), Back(t), Given) BY <2>2 DEF StatInv, TotalOK
  <2> QED BY <2>1, <2>2, <2>3, <2>4, <2>5
<1> QED BY <1>1, <1>2, <1>4, <1>5, <1>6, <1>7 DEF CallOK

LEMMA EnterInv == ASSUME StatInv, NEW c \in Callers, Enter(c) PROVE StatInv'
<1>1. At(c, "out") /\ kind' = kind /\ perfs' = perfs /\ current' = current /\ printer' = printer
  BY DEF Enter
<1>2. PICK read \in Int : read = caller[c].read BY AtCall
<1>3. caller[c].stat = 0 /\ 0 \in 0 .. Len(perfs) /\ caller[c].pc # "back"
  BY <1>1, AtCall DEF At, StatInv, StatType
<1>4. PICK pc \in {"load", "back"} : To(c, pc) BY DEF Enter
<1>5. Goes(c, pc, 0, read) BY <1>2, <1>3, <1>4, GoesTo
<1>6. caller'[c].pc = pc /\ caller'[c].stat = 0 BY <1>2, <1>5, GoesOn
<1>7. CallOK(c)' BY <1>1, <1>3, <1>6 DEF CallOK
<1>8. /\ perfs' \in Seq(PerfRec) /\ Len(perfs') = Len(perfs)
      /\ \A s \in 1 .. Len(perfs) : perfs'[s].total = perfs[s].total
  BY <1>1 DEF StatInv, StatType
<1> QED BY <1>1, <1>2, <1>3, <1>5, <1>7, <1>8, StepWithin

LEMMA LoadInv == ASSUME StatInv, NEW c \in Callers, LoadOrStore(c) PROVE StatInv'
<1>1. At(c, "load") /\ kind' = kind /\ printer' = printer BY DEF LoadOrStore
<1>2. PICK read \in Int : read = caller[c].read BY AtCall
<1>3. caller[c].stat = 0 /\ caller[c].pc # "back" BY <1>1, AtCall DEF At
<1>4. CASE current = 0
  <2>1. PICK v \in Int : v = caller[c].val BY AtCall
  <2>2. PICK p : p = [val |-> v, total |-> v] OBVIOUS
  <2>3. p \in PerfRec /\ p.total = caller[c].val BY <2>1, <2>2 DEF PerfRec
  <2>4. PICK new : new = Append(perfs, p) OBVIOUS
  <2>5. perfs' = new /\ current' = Len(new)
    BY <1>4, <2>1, <2>2, <2>4 DEF LoadOrStore
  <2>6. caller' = [caller EXCEPT ![c].pc = "back", ![c].stat = Len(new)]
    BY <1>4, <2>5 DEF LoadOrStore
  <2>7. Goes(c, "back", Len(new), caller[c].read) BY <2>6, GoesTo
  <2> QED BY <1>1, <1>3, <2>3, <2>4, <2>5, <2>7, StepNew
<1>5. CASE current # 0
  <2>1. perfs' = perfs /\ current' = current BY <1>5 DEF LoadOrStore
  <2>2. PICK pc \in {"write", "read"} : caller' = [caller EXCEPT ![c].pc = pc, ![c].stat = current]
    BY <1>5 DEF LoadOrStore
  <2>3. PICK t : t = current OBVIOUS
  <2>4. t \in 0 .. Len(perfs) /\ t \in Nat /\ t # 0 BY <1>5, <2>3 DEF StatInv, StatType
  <2>5. Goes(c, pc, t, read) BY <1>2, <2>2, <2>3, GoesTo
  <2>6. caller'[c].pc = pc /\ caller'[c].stat = t BY <2>4, <2>5, GoesOn
  <2>7. CallOK(c)' BY <2>1, <2>4, <2>6 DEF CallOK
  <2>8. /\ perfs' \in Seq(PerfRec) /\ Len(perfs') = Len(perfs)
        /\ \A s \in 1 .. Len(perfs) : perfs'[s].total = perfs[s].total
    BY <2>1 DEF StatInv, StatType
  <2> QED BY <1>1, <1>3, <2>1, <2>4, <2>5, <2>7, <2>8, StepWithin
<1> QED BY <1>4, <1>5

LEMMA ReadValInv == ASSUME StatInv, NEW c \in Callers, ReadVal(c) PROVE StatInv'
<1>1. /\ At(c, "read") /\ kind' = kind /\ perfs' = perfs /\ current' = current
      /\ printer' = printer
  BY DEF ReadVal
<1>2. PICK t : t = caller[c].stat OBVIOUS
<1>3. t \in 1 .. Len(perfs) /\ t \in 0 .. Len(perfs) /\ t \in Nat /\ perfs[t].val \in Int
  BY <1>1, <1>2, AtCall DEF At
<1>4. PICK read \in Int : read = perfs[t].val BY <1>3
<1>5. PICK pc \in {"total", "write"} : caller' = [caller EXCEPT ![c].pc = pc, ![c].read = read]
  BY <1>2, <1>4 DEF ReadVal, Pp
<1>6. Goes(c, pc, t, read) BY <1>2, <1>5, GoesTo
<1>7. caller'[c].pc = pc /\ caller'[c].stat = t
  <2>1. t \in Nat /\ pc \in {"load", "read", "write", "total", "swap", "back"} BY <1>3
  <2> QED BY <1>6, <2>1, GoesOn
<1>8. CallOK(c)' BY <1>1, <1>3, <1>7 DEF CallOK
<1>9. /\ perfs' \in Seq(PerfRec) /\ Len(perfs') = Len(perfs)
      /\ \A s \in 1 .. Len(perfs) : perfs'[s].total = perfs[s].total
  BY <1>1 DEF StatInv, StatType
<1>10. caller[c].pc # "back" BY <1>1 DEF At
<1> QED BY <1>1, <1>2, <1>3, <1>6, <1>8, <1>9, <1>10, StepWithin

LEMMA WriteValInv == ASSUME StatInv, NEW c \in Callers, WriteVal(c) PROVE StatInv'
<1>1. At(c, "write") /\ kind' = kind /\ current' = current /\ printer' = printer
  BY DEF WriteVal
<1>2. PICK t : t = caller[c].stat OBVIOUS
<1>3. t \in 1 .. Len(perfs) /\ t \in 0 .. Len(perfs) /\ t \in Nat
  BY <1>1, <1>2, AtCall DEF At
<1>4. PICK read \in Int : read = caller[c].read BY AtCall
<1>5. PICK x : x = IF kind = "chg" THEN caller[c].read + caller[c].val ELSE caller[c].val OBVIOUS
<1>6. x \in Int
  <2>1. caller[c].read \in Int /\ caller[c].val \in Int BY AtCall
  <2> QED BY <1>5, <2>1
<1>7. perfs' = [perfs EXCEPT ![t].val = x] /\ To(c, "total") BY <1>2, <1>5 DEF WriteVal
<1>8. /\ perfs' \in Seq(PerfRec) /\ Len(perfs') = Len(perfs)
      /\ \A s \in 1 .. Len(perfs) : perfs'[s].total = perfs[s].total
  BY <1>3, <1>6, <1>7, PerfSet DEF StatInv
<1>9. Goes(c, "total", t, read) BY <1>2, <1>4, <1>7, GoesTo
<1>10. caller'[c].pc = "total" /\ caller'[c].stat = t BY <1>3, <1>9, GoesOn
<1>11. CallOK(c)' BY <1>3, <1>8, <1>10 DEF CallOK
<1>12. caller[c].pc # "back" BY <1>1 DEF At
<1> QED BY <1>1, <1>2, <1>3, <1>8, <1>9, <1>11, <1>12, StepWithin

LEMMA WriteTotalInv == ASSUME StatInv, NEW c \in Callers, WriteTotal(c) PROVE StatInv'
<1>1. /\ At(c, "total") /\ kind' = kind /\ current' = current /\ printer' = printer
      /\ kind \in {"set", "chg"} /\ To(c, "back")
  BY DEF WriteTotal
<1>2. PICK t, v, U, B, n : /\ t = caller[c].stat /\ v = Given /\ U = Users(t) /\ B = Back(t)
                           /\ n = perfs[t].total
  OBVIOUS
<1>3. /\ t \in 1 .. Len(perfs) /\ n \in Int /\ Exact(kind, n, U, B, v) /\ c \in U /\ c \notin B
      /\ v[c] = caller[c].val /\ v[c] \in Int /\ \A d \in Callers : v[d] \in Int
  BY <1>1, <1>2, AtCall DEF At
<1>4. B \subseteq Callers BY <1>2 DEF Back, Users
<1>5. PICK read \in Int : read = caller[c].read /\ Goes(c, "back", t, read)
  BY <1>1, <1>2, AtCall, GoesTo
<1>6. PICK m : m = IF kind = "chg" THEN n + v[c] ELSE v[c] OBVIOUS
<1>7. m \in Int BY <1>3, <1>6
<1>8. perfs' = [perfs EXCEPT ![t].total = m] BY <1>2, <1>3, <1>6 DEF WriteTotal
<1>9. /\ Len(perfs') = Len(perfs) /\ perfs' \in Seq(PerfRec) /\ perfs'[t].total = m
      /\ \A s \in 1 .. Len(perfs) : s # t => perfs'[s].total = perfs[s].total
  BY <1>3, <1>7, <1>8, PerfSet DEF StatInv
<1>10. Exact(kind, m, U, B \cup {c}, v)
  <2>1. CASE kind = "chg"
    <3>1. Exact("chg", n, U, B, v) /\ \A d \in B \cup {c} : v[d] \in Int BY <1>3, <1>4, <2>1
    <3>2. Exact("chg", n + v[c], U, B \cup {c}, v) BY <1>3, <3>1, ExactAdded
    <3> QED BY <1>6, <2>1, <3>2
  <2>2. CASE kind = "set" BY <1>3, <1>6, <2>2, ExactSet
  <2> QED BY <1>1, <2>1, <2>2
<1> QED BY <1>1, <1>2, <1>3, <1>5, <1>9, <1>10, StepBack

LEMMA LoadTotalInv == ASSUME StatInv, NEW c \in Callers, LoadTotal(c) PROVE StatInv'
<1>1. /\ At(c, "total") /\ kind' = kind /\ current' = current /\ printer' = printer
      /\ kind \in {"min", "max"} /\ perfs' = perfs
  BY DEF LoadTotal
<1>2. PICK t, v, U, B, n : /\ t = caller[c].stat /\ v = Given /\ U = Users(t) /\ B = Back(t)
                           /\ n = perfs[t].total
  OBVIOUS
<1>3. /\ t \in 1 .. Len(perfs) /\ n \in Int /\ Exact(kind, n, U, B, v)
      /\ v[c] = caller[c].val /\ v[c] \in Int
  BY <1>1, <1>2, AtCall DEF At
<1>4. PICK keeps \in BOOLEAN : keeps <=> IF kind = "min" THEN n =< v[c] ELSE n >= v[c] OBVIOUS
<1>5. caller' = [caller EXCEPT ![c].pc = IF keeps THEN "back" ELSE "swap", ![c].read = n]
  BY <1>2, <1>3, <1>4 DEF LoadTotal, Pp
<1>6. /\ perfs' \in Seq(PerfRec) /\ Len(perfs') = Len(perfs)
      /\ \A s \in 1 .. Len(perfs) : perfs'[s].total = perfs[s].total
  BY <1>1 DEF StatInv, StatType
<1>7. t \in 0 .. Len(perfs) /\ t \in Nat BY <1>3
<1>8. caller[c].pc # "back" BY <1>1 DEF At
<1>9. CASE ~keeps
  <2>1. Goes(c, "swap", t, n) BY <1>2, <1>5, <1>9, GoesTo
  <2>2. /\ caller'[c].pc = "swap" /\ caller'[c].stat = t /\ caller'[c].read = n
        /\ caller'[c].val = v[c]
    <3>1. PICK read \in Int : read = n BY <1>3
    <3>2. Goes(c, "swap", t, read) BY <2>1, <3>1
    <3>3. /\ caller'[c].pc = "swap" /\ caller'[c].stat = t /\ caller'[c].read = read
          /\ caller'[c].val = caller[c].val
      BY <1>7, <3>2, GoesOn
    <3> QED BY <1>3, <3>1, <3>3
  <2>3. IF kind = "min" THEN n > v[c] ELSE n < v[c] BY <1>3, <1>4, <1>9
  <2>4. CallOK(c)' BY <1>1, <1>3, <1>7, <2>2, <2>3 DEF CallOK
  <2> QED BY <1>1, <1>2, <1>3, <1>6, <1>7, <1>8, <2>1, <2>4, StepWithin
<1>10. CASE keeps
  <2>1. Goes(c, "back", t, n) BY <1>2, <1>5, <1>10, GoesTo
  <2>2. Exact(kind, n, U, B \cup {c}, v) BY <1>1, <1>3, <1>4, <1>10, ExactKept
  <2> QED BY <1>1, <1>2, <1>3, <1>6, <2>1, <2>2, StepBack
<1> QED BY <1>9, <1>10

LEMMA SwapInv == ASSUME StatInv, NEW c \in Callers, Swap(c) PROVE StatInv'
<1>1. At(c, "swap") /\ kind' = kind /\ current' = current /\ printer' = printer
  BY DEF Swap
<1>2. PICK t, v, U, B, n : /\ t = caller[c].stat /\ v = Given /\ U = Users(t) /\ B = Back(t)
                           /\ n = perfs[t].total
  OBVIOUS
<1>3. /\ t \in 1 .. Len(perfs) /\ n \in Int /\ Exact(kind, n, U, B, v) /\ c \in U
      /\ v[c] = caller[c].val /\ v[c] \in Int /\ \A d \in Callers : v[d] \in Int
  BY <1>1, <1>2, AtCall DEF At
<1>4. B \subseteq Callers BY <1>2 DEF Back, Users
<1>5. /\ kind \in {"min", "max"}
      /\ IF kind = "min" THEN caller[c].read > v[c] ELSE caller[c].read < v[c]
  BY <1>1, <1>3 DEF StatInv, CallOK, At
<1>6. CASE n = caller[c].read
  <2>1. PICK m \in Int : m = v[c] BY <1>3
  <2>2. perfs' = [perfs EXCEPT ![t].total = m] /\ To(c, "back")
    BY <1>2, <1>3, <1>6, <2>1 DEF Swap, Pp
  <2>3. /\ Len(perfs') = Len(perfs) /\ perfs' \in Seq(PerfRec) /\ perfs'[t].total = m
        /\ \A s \in 1 .. Len(perfs) : s # t => perfs'[s].total = perfs[s].total
    BY <1>3, <2>2, PerfSet DEF StatInv
  <2>4. PICK read \in Int : read = caller[c].read /\ Goes(c, "back", t, read)
    BY <1>2, <2>2, AtCall, GoesTo
  <2>5. IF kind = "min" THEN n > v[c] ELSE n < v[c] BY <1>5, <1>6
  <2>6. \A d \in B \cup {c} : v[d] \in Int BY <1>3, <1>4
  <2>7. Exact(kind, m, U, B \cup {c}, v) BY <1>3, <1>5, <2>1, <2>5, <2>6, ExactSwapped
  <2> QED BY <1>1, <1>2, <1>3, <2>3, <2>4, <2>7, StepBack
<1>7. CASE n # caller[c].read
  <2>1. PICK read \in Int : read = caller[c].read BY AtCall
  <2>2. perfs' = perfs /\ To(c, "total") BY <1>2, <1>7 DEF Swap, Pp
  <2>3. Goes(c, "total", t, read) BY <1>2, <2>1, <2>2, GoesTo
  <2>4. t \in 0 .. Len(perfs) /\ t \in Nat BY <1>3
  <2>5. caller'[c].pc = "total" /\ caller'[c].stat = t BY <2>3, <2>4, GoesOn
  <2>6. CallOK(c)' BY <1>3, <2>2, <2>4, <2>5 DEF CallOK
  <2>7. /\ perfs' \in Seq(PerfRec) /\ Len(perfs') = Len(perfs)
        /\ \A s \in 1 .. Len(perfs) : perfs'[s].total = perfs[s].total
    BY <2>2 DEF StatInv, StatType
  <2>8. caller[c].pc # "back" BY <1>1 DEF At
  <2> QED BY <1>1, <1>2, <2>3, <2>4, <2>6, <2>7, <2>8, StepWithin
<1> QED BY <1>6, <1>7

(* The invariant of the counters.  What it adds to TotalsExact: which      *)
(* calls a total already counts, those that are back, and that a call      *)
(* about to swap read a total which its value improves on.                 *)
THEOREM StatInvariant == StatSpec => []StatInv
<1>1. StatInit => StatInv BY StatAssumption, StatInitInv
<1>2. ASSUME StatInv, [StatNext]_statVars PROVE StatInv'
  <2>1. ASSUME NEW c \in Callers,
               \/ Enter(c) \/ LoadOrStore(c) \/ ReadVal(c) \/ WriteVal(c)
               \/ WriteTotal(c) \/ LoadTotal(c) \/ Swap(c)
        PROVE  StatInv'
    BY <1>2, <2>1, EnterInv, LoadInv, ReadValInv, WriteValInv, WriteTotalInv, LoadTotalInv, SwapInv
  <2>2. ASSUME perfs' = perfs, kind' = kind, caller' = caller,
               current' \in 0 .. Len(perfs),
               printer' \in [pc : {"out", "range", "clear"}, stat : Nat],
               printer'.pc = "clear" => printer'.stat \in 1 .. Len(perfs)
        PROVE  StatInv'
    <3>1. /\ perfs' \in Seq(PerfRec) /\ Len(perfs') = Len(perfs)
          /\ \A s \in 1 .. Len(perfs) : perfs'[s].total = perfs[s].total
      BY <1>2, <2>2 DEF StatInv, StatType
    <3> QED BY <1>2, <2>2, <3>1, StepAside
  <2>3. StatType BY <1>2 DEF StatInv
  <2>4. /\ current \in 0 .. Len(perfs) /\ Len(perfs) \in Nat
        /\ printer \in [pc : {"out", "range", "clear"}, stat : Nat]
        /\ printer.pc = "clear" => printer.stat \in 1 .. Len(perfs)
    BY <2>3 DEF StatType
  <2>5. CASE StatClear
    <3>1. /\ current' = 0 /\ perfs' = perfs /\ kind' = kind /\ caller' = caller
          /\ printer' = printer
      BY <2>5 DEF StatClear
    <3> QED BY <2>2, <2>4, <3>1
  <2>6. CASE LogFlag
    <3>1. /\ printer' = [printer EXCEPT !.pc = "range"] /\ perfs' = perfs /\ kind' = kind
          /\ caller' = caller /\ current' = current
      BY <2>6 DEF LogFlag
    <3>2. PICK p : p = [printer EXCEPT !.pc = "range"] OBVIOUS
    <3>3. p \in [pc : {"out", "range", "clear"}, stat : Nat] /\ p.pc = "range" BY <2>4, <3>2
    <3> QED BY <2>2, <2>4, <3>1, <3>2, <3>3
  <2>7. CASE LogRange
    <3>1. perfs' = perfs /\ kind' = kind /\ caller' = caller /\ current' = current
      BY <2>7 DEF LogRange
    <3>2. PICK p : p = [printer EXCEPT !.pc = "out"] OBVIOUS
    <3>3. p \in [pc : {"out", "range", "clear"}, stat : Nat] /\ p.pc = "out" BY <2>4, <3>2
    <3>4. CASE printer' = p BY <2>2, <2>4, <3>1, <3>3, <3>4
    <3>5. CASE printer' = [pc |-> "clear", stat |-> current] /\ current # 0
      <4>1. PICK q, t : q = [pc |-> "clear", stat |-> t] /\ t = current OBVIOUS
      <4>2. t \in 1 .. Len(perfs) /\ t \in Nat BY <2>4, <3>5, <4>1
      <4>3. q \in [pc : {"out", "range", "clear"}, stat : Nat] /\ q.stat = t BY <4>1, <4>2
      <4> QED BY <2>2, <2>4, <3>1, <3>5, <4>1, <4>2, <4>3
    <3> QED BY <2>7, <3>2, <3>4, <3>5 DEF LogRange
  <2>8. CASE LogClear
    <3>1. /\ perfs' = [perfs EXCEPT ![printer.stat].val = 0] /\ kind' = kind /\ caller' = caller
          /\ current' = current /\ printer.pc = "clear"
          /\ printer' = [printer EXCEPT !.pc = "out"]
      BY <2>8 DEF LogClear
    <3>2. PICK t : t = printer.stat OBVIOUS
    <3>3. /\ perfs' \in Seq(PerfRec) /\ Len(perfs') = Len(perfs)
          /\ \A s \in 1 .. Len(perfs) : perfs'[s].total = perfs[s].total
      <4>1. t \in 1 .. Len(perfs) /\ 0 \in Int BY <2>4, <3>1, <3>2
      <4>2. PICK zero \in Int : zero = 0 OBVIOUS
      <4>3. perfs' = [perfs EXCEPT ![t].val = zero] BY <3>1, <3>2, <4>2
      <4> QED BY <2>3, <4>1, <4>3, PerfSet
    <3>4. PICK p : p = [printer EXCEPT !.pc = "out"] OBVIOUS
    <3>5. p \in [pc : {"out", "range", "clear"}, stat : Nat] /\ p.pc = "out" BY <2>4, <3>4
    <3> QED BY <1>2, <2>4, <3>1, <3>3, <3>4, <3>5, StepAside
  <2>9. CASE UNCHANGED statVars
    <3>1. perfs' = perfs /\ kind' = kind /\ caller' = caller /\ current' = current
          /\ printer' = printer
      BY <2>9 DEF statVars
    <3> QED BY <2>2, <2>4, <3>1
  <2> QED BY <1>2, <2>1, <2>5, <2>6, <2>7, <2>8, <2>9 DEF StatNext
<1> QED BY <1>1, <1>2, PTL DEF StatSpec

(* Once the calls are back every total is exact, for any number of calls   *)
(* with any values, whatever the printer and StatClear do meanwhile.       *)
THEOREM TotalsAreExact == StatSpec => []TotalsExact
<1>1. ASSUME StatInv PROVE TotalsExact
  <2> SUFFICES ASSUME \A c \in Callers : caller[c].pc \in {"out", "back"},
                      NEW s \in DOMAIN perfs
               PROVE  LET users == {c \in Callers : caller[c].stat = s}
                          vals == {caller[c].val : c \in users}
                      IN /\ users # {}
                         /\ CASE kind = "chg" ->
                                   perfs[s].total = MapThenSumSet(LAMBDA c : caller[c].val, users)
                              [] kind = "min" -> perfs[s].total = Min(vals)
                              [] kind = "max" -> perfs[s].total = Max(vals)
                              [] kind = "set" -> perfs[s].total \in vals
    BY DEF TotalsExact
  <2>1. PICK k, n, U, v : k = kind /\ n = perfs[s].total /\ U = Users(s) /\ v = Given OBVIOUS
  <2>2. perfs \in Seq(PerfRec) /\ kind \in {"set", "chg", "min", "max"}
    BY <1>1 DEF StatInv, StatType
  <2>3. s \in 1 .. Len(perfs) /\ s # 0 /\ n \in Int
    <3>1. s \in 1 .. Len(perfs) /\ s # 0 BY <2>2
    <3>2. perfs[s] \in PerfRec BY <2>2, <3>1
    <3> QED BY <2>1, <3>1, <3>2 DEF PerfRec
  <2>4. Back(s) = U
    <3>1. ASSUME NEW c \in Callers, caller[c].stat = s PROVE caller[c].pc = "back"
      <4>1. caller[c].pc # "out" BY <1>1, <2>3, <3>1, AtCall
      <4> QED BY <4>1
    <3> QED BY <2>1, <3>1 DEF Back, Users
  <2>5. Exact(k, n, U, U, v) BY <1>1, <2>1, <2>3, <2>4 DEF StatInv, TotalOK
  <2>6. U \subseteq Callers BY <2>1 DEF Users
  <2>7. \A c \in U : v[c] = caller[c].val /\ v[c] \in Int BY <1>1, <2>1, <2>6, AtCall
  <2>8. PICK vals : vals = {v[c] : c \in U} OBVIOUS
  <2>9. /\ k = "set" => n \in vals
        /\ k = "min" => n = Min(vals)
        /\ k = "max" => n = Max(vals)
    <3>1. n \in Int /\ \A y \in U : v[y] \in Int BY <2>3, <2>7
    <3> QED BY <2>5, <2>8, <3>1, ExactEnds
  <2>10. k = "chg" => n = MapThenSumSet(LAMBDA c : caller[c].val, U)
    <3>1. IsFiniteSet(U) BY <2>6, StatAssumption, FS_Subset
    <3>2. k = "chg" => IsSum(n, U, v) BY <2>5 DEF Exact
    <3>3. \A c \in U : v[c] = caller[c].val BY <2>7
    <3> QED BY <3>1, <3>2, <3>3, FoldIsSum
  <2>11. U = {c \in Callers : caller[c].stat = s} BY <2>1 DEF Users
  <2>12. vals = {caller[c].val : c \in U} BY <2>7, <2>8
  <2>13. U # {} BY <2>5 DEF Exact
  <2>14. CASE kind = "chg" BY <2>1, <2>10, <2>11, <2>13, <2>14
  <2>15. CASE kind = "min" BY <2>1, <2>9, <2>11, <2>12, <2>13, <2>15
  <2>16. CASE kind = "max" BY <2>1, <2>9, <2>11, <2>12, <2>13, <2>16
  <2>17. CASE kind = "set" BY <2>1, <2>9, <2>11, <2>12, <2>13, <2>17
  <2> QED BY <2>2, <2>14, <2>15, <2>16, <2>17
<1> QED BY <1>1, StatInvariant, PTL

-----------------------------------------------------------------------------
(* CONFIG.                                                                 *)
(* What the map m holds for a key, and for a session, once the first p of  *)
(* the files fs are taken in: the value of the last that has it, and the   *)
(* session of the first.                                                   *)
Has(c, key) == c # Unreadable /\ key[1] \in DOMAIN c /\ key[2] \in DOMAIN c[key[1]]
KeyFrom(fs, p, key) == {f \in FileNames : f <= p /\ Has(fs[f], key)}
KeyAt(fs, m, p, key) ==
    IF KeyFrom(fs, p, key) = {} THEN key \notin DOMAIN m
    ELSE \E f \in KeyFrom(fs, p, key) :
            /\ \A g \in KeyFrom(fs, p, key) : g <= f
            /\ key \in DOMAIN m /\ m[key] = fs[f][key[1]][key[2]]

HasSess(c, s) == c # Unreadable /\ s \in DOMAIN c /\ Encodes(c[s])
SessionFrom(fs, p, s) == {f \in FileNames : f <= p /\ HasSess(fs[f], s)}
SessionAt(fs, m, p, s) ==
    IF SessionFrom(fs, p, s) = {} THEN s \notin DOMAIN m
    ELSE \E f \in SessionFrom(fs, p, s) :
            /\ \A g \in SessionFrom(fs, p, s) : f <= g
            /\ s \in DOMAIN m /\ m[s] = fs[f][s]

LEMMA KeyNone == ASSUME NEW fs, NEW key PROVE KeyAt(fs, NoEntry, 0, key)
  BY DEF KeyAt, KeyFrom, FileNames, NoEntry

LEMMA KeySkips ==
    ASSUME NEW fs, NEW m, NEW p \in Nat, NEW key, KeyAt(fs, m, p, key), ~Has(fs[p + 1], key)
    PROVE  KeyAt(fs, m, p + 1, key)
<1>1. KeyFrom(fs, p + 1, key) = KeyFrom(fs, p, key)
  <2>1. \A f \in FileNames : f <= p + 1 <=> f <= p \/ f = p + 1
    BY ConfigAssumption DEF FileNames
  <2> QED BY <2>1 DEF KeyFrom
<1> QED BY <1>1 DEF KeyAt

LEMMA KeyHere ==
    ASSUME NEW fs, NEW m, NEW p \in FileNames, NEW key, Has(fs[p], key),
           key \in DOMAIN m, m[key] = fs[p][key[1]][key[2]]
    PROVE  KeyAt(fs, m, p, key)
<1>1. p \in KeyFrom(fs, p, key) BY ConfigAssumption DEF KeyFrom, FileNames
<1>2. \A g \in KeyFrom(fs, p, key) : g <= p BY DEF KeyFrom
<1> QED BY <1>1, <1>2 DEF KeyAt

LEMMA KeyElse ==
    ASSUME NEW fs, NEW m, NEW q, NEW p, NEW key, KeyAt(fs, m, p, key),
           key \in DOMAIN q <=> key \in DOMAIN m, key \in DOMAIN m => q[key] = m[key]
    PROVE  KeyAt(fs, q, p, key)
  BY DEF KeyAt

LEMMA SessionNone == ASSUME NEW fs, NEW s PROVE SessionAt(fs, NoEntry, 0, s)
  BY DEF SessionAt, SessionFrom, FileNames, NoEntry

LEMMA SessionSkips ==
    ASSUME NEW fs, NEW m, NEW p \in Nat, NEW s, SessionAt(fs, m, p, s), ~HasSess(fs[p + 1], s)
    PROVE  SessionAt(fs, m, p + 1, s)
<1>1. SessionFrom(fs, p + 1, s) = SessionFrom(fs, p, s)
  <2>1. \A f \in FileNames : f <= p + 1 <=> f <= p \/ f = p + 1
    BY ConfigAssumption DEF FileNames
  <2> QED BY <2>1 DEF SessionFrom
<1> QED BY <1>1 DEF SessionAt

LEMMA SessionStored ==
    ASSUME NEW fs, NEW m, NEW q, NEW p \in FileNames, NEW s, SessionAt(fs, m, p - 1, s),
           HasSess(fs[p], s), q = IF s \in DOMAIN m THEN m ELSE Put(m, s, fs[p][s])
    PROVE  SessionAt(fs, q, p, s)
<1>1. p \in Nat /\ p >= 1 BY ConfigAssumption DEF FileNames
<1>2. \A f \in FileNames : (f <= p <=> f <= p - 1 \/ f = p) /\ f \in Nat
  BY ConfigAssumption DEF FileNames
<1>3. SessionFrom(fs, p, s) = SessionFrom(fs, p - 1, s) \cup {p} BY <1>1, <1>2 DEF SessionFrom
<1>4. CASE SessionFrom(fs, p - 1, s) = {}
  <2>1. s \notin DOMAIN m BY <1>4 DEF SessionAt
  <2>2. s \in DOMAIN q /\ q[s] = fs[p][s] BY <2>1 DEF Put
  <2>3. SessionFrom(fs, p, s) = {p} BY <1>3, <1>4
  <2> QED BY <1>1, <2>2, <2>3 DEF SessionAt
<1>5. CASE SessionFrom(fs, p - 1, s) # {}
  <2>1. PICK f \in SessionFrom(fs, p - 1, s) :
           /\ \A g \in SessionFrom(fs, p - 1, s) : f <= g
           /\ s \in DOMAIN m /\ m[s] = fs[f][s]
    BY <1>5 DEF SessionAt
  <2>2. q = m BY <2>1
  <2>3. f \in Nat /\ f <= p BY <1>1, <1>2 DEF SessionFrom
  <2> QED BY <1>3, <2>1, <2>2, <2>3 DEF SessionAt
<1> QED BY <1>4, <1>5

LEMMA SessionElse ==
    ASSUME NEW fs, NEW m, NEW q, NEW p, NEW s, SessionAt(fs, m, p, s),
           s \in DOMAIN q <=> s \in DOMAIN m, s \in DOMAIN m => q[s] = m[s]
    PROVE  SessionAt(fs, q, p, s)
  BY DEF SessionAt

-----------------------------------------------------------------------------
(* How many files the loader has taken in, for a key and for a session.    *)
Keys == Sessions \X Names
Within == {"session", "names"}
KeyDone(l, key) ==
    IF l.pc \in {"notify", "callback", "idle"} THEN NFiles
    ELSE IF l.pc = "decode" \/ key[1] \in l.todo THEN l.file - 1
    ELSE IF l.pc = "names" /\ key[1] = l.sess /\ key[2] \in l.names THEN l.file - 1
    ELSE l.file

SessionDone(l, s) ==
    IF l.pc \in {"notify", "callback", "idle"} THEN NFiles
    ELSE IF l.pc = "empty cfgs" THEN 0
    ELSE IF l.pc = "decode" \/ s \in l.todo THEN l.file - 1
    ELSE l.file

AppSteps == [kind : {"get"}] \cup [kind : {"value"}, key : Keys, v : OwnValues]
            \cup [kind : {"session"}, sess : Sessions, doc : [Fields -> OwnValues]]

LoaderOK(l) ==
    /\ DOMAIN l = {"pc", "first", "file", "doc", "todo", "sess", "names"}
    /\ l.pc \in {"empty sss", "empty cfgs", "decode", "session", "names", "notify", "callback",
                 "idle"}
    /\ l.pc = "decode" => l.file \in 1 .. NFiles + 1
    /\ l.pc \in Within => l.file \in FileNames /\ IsFile(l.doc) /\ l.todo \subseteq DOMAIN l.doc
    /\ l.pc = "names" => l.sess \in DOMAIN l.doc \ l.todo /\ l.names \subseteq DOMAIN l.doc[l.sess]

FilesOK == /\ DOMAIN files = FileNames
           /\ \A f \in FileNames : files[f] = Unreadable \/ IsFile(files[f])
CfgsOK == \A key \in DOMAIN cfgs : cfgs[key] \in Value /\ key = <<key[1], key[2]>>
AppOK == /\ app \in [pc : {"out", "in", "crashed"}, todo : Seq(AppSteps)]
         /\ app.pc = "in" => app.todo # << >>
OwnOK == DOMAIN own = {"keys", "sessions"}

(* Once a signal has followed every change and been taken up, the load it  *)
(* began reads what the files hold.                                        *)
Settled == ~pending /\ ~edited
DocOK == Settled /\ loader.pc \in Within =>
            files[loader.file] # Unreadable /\ loader.doc = files[loader.file]
CfgsAt == Settled /\ loader.pc \notin {"empty sss", "empty cfgs"} =>
            \A key \in Keys \ own.keys : KeyAt(files, cfgs, KeyDone(loader, key), key)
SssAt == Settled /\ loader.pc # "empty sss" =>
            \A s \in Sessions \ own.sessions : SessionAt(files, sss, SessionDone(loader, s), s)

ConfigInv == /\ FilesOK /\ CfgsOK /\ AppOK /\ OwnOK /\ LoaderOK(loader)
             /\ pending \in BOOLEAN /\ edited \in BOOLEAN
             /\ DocOK /\ CfgsAt /\ SssAt

LEMMA ConfigInitInv == ASSUME ConfigInit PROVE ConfigInv
<1>1. FilesOK BY ConfigAssumption DEF ConfigInit, FilesOK
<1>2. CfgsOK BY DEF ConfigInit, CfgsOK, NoEntry
<1>3. AppOK
  <2>1. PICK nil : nil = << >> OBVIOUS
  <2>2. nil \in Seq(AppSteps) BY <2>1
  <2> QED BY <2>1, <2>2 DEF ConfigInit, AppOK
<1>4. OwnOK BY DEF ConfigInit, OwnOK
<1>5. LoaderOK(loader) BY DEF ConfigInit, LoaderOK, Within
<1>6. loader.pc = "empty sss" /\ pending \in BOOLEAN /\ edited \in BOOLEAN BY DEF ConfigInit
<1> QED BY <1>1, <1>2, <1>3, <1>4, <1>5, <1>6 DEF ConfigInv, DocOK, CfgsAt, SssAt, Within

(* The steps of the loader: what happens to the goroutine of the program.  *)
LEMMA AppKept == ASSUME AppOK, Overwritten \/ app' = app PROVE AppOK'
<1>1. PICK a : a = app OBVIOUS
<1>2. PICK c : c = [a EXCEPT !.pc = "crashed"] OBVIOUS
<1>3. c \in [pc : {"out", "in", "crashed"}, todo : Seq(AppSteps)] /\ c.pc = "crashed"
  BY <1>1, <1>2 DEF AppOK
<1>4. app' = a \/ app' = c BY <1>1, <1>2 DEF Overwritten
<1> QED BY <1>1, <1>3, <1>4 DEF AppOK

LEMMA EmptySssInv == ASSUME ConfigInv, EmptySss PROVE ConfigInv'
<1>1. PICK l : l = loader OBVIOUS
<1>2. PICK k : k = [l EXCEPT !.pc = "empty cfgs"] OBVIOUS
<1>3. LoaderOK(l) BY <1>1 DEF ConfigInv
<1>4. LoaderOK(k) /\ k.pc = "empty cfgs" BY <1>2, <1>3 DEF LoaderOK, Within
<1>5. /\ loader' = k /\ sss' = NoEntry /\ own' = [own EXCEPT !.sessions = {}]
      /\ cfgs' = cfgs /\ files' = files /\ pending' = pending /\ edited' = edited
  BY <1>1, <1>2 DEF EmptySss
<1>6. AppOK' BY AppKept DEF ConfigInv, EmptySss
<1>7. OwnOK' BY <1>5 DEF ConfigInv, OwnOK
<1>8. FilesOK' /\ CfgsOK' BY <1>5 DEF ConfigInv, FilesOK, CfgsOK
<1>9. DocOK' /\ CfgsAt' BY <1>4, <1>5 DEF DocOK, CfgsAt, Within
<1>10. SssAt'
  <2>1. \A s : SessionDone(k, s) = 0 BY <1>4 DEF SessionDone
  <2>2. \A s : SessionAt(files', sss', 0, s) BY <1>5, SessionNone
  <2> QED BY <1>5, <2>1, <2>2 DEF SssAt
<1> QED BY <1>4, <1>5, <1>6, <1>7, <1>8, <1>9, <1>10 DEF ConfigInv

LEMMA EmptyCfgsInv == ASSUME ConfigInv, EmptyCfgs PROVE ConfigInv'
<1>1. PICK l : l = loader OBVIOUS
<1>2. PICK k : k = [l EXCEPT !.pc = "decode", !.file = 1] OBVIOUS
<1>3. LoaderOK(l) /\ l.pc = "empty cfgs" BY <1>1 DEF ConfigInv, EmptyCfgs
<1>4. LoaderOK(k) /\ k.pc = "decode" /\ k.file = 1
  <2>1. /\ DOMAIN k = DOMAIN l /\ k.pc = "decode" /\ k.file = 1
    BY <1>2, <1>3 DEF LoaderOK
  <2>2. 1 \in 1 .. NFiles + 1 BY ConfigAssumption
  <2> QED BY <1>3, <2>1, <2>2 DEF LoaderOK, Within
<1>5. /\ loader' = k /\ cfgs' = NoEntry /\ own' = [own EXCEPT !.keys = {}]
      /\ sss' = sss /\ files' = files /\ pending' = pending /\ edited' = edited
  BY <1>1, <1>2 DEF EmptyCfgs
<1>6. AppOK' BY AppKept DEF ConfigInv, EmptyCfgs
<1>7. OwnOK' /\ own'.sessions = own.sessions BY <1>5 DEF ConfigInv, OwnOK
<1>8. FilesOK' /\ CfgsOK' BY <1>5 DEF ConfigInv, FilesOK, CfgsOK, NoEntry
<1>9. DocOK' BY <1>4, <1>5 DEF DocOK, Within
<1>10. SssAt'
  <2>1. \A s : SessionDone(k, s) = 0 /\ SessionDone(l, s) = 0
    <3>1. \A s : SessionDone(l, s) = 0 BY <1>3 DEF SessionDone
    <3>2. \A s : SessionDone(k, s) = k.file - 1 BY <1>4 DEF SessionDone
    <3> QED BY <1>4, <3>1, <3>2
  <2>2. Settled' => \A s \in Sessions \ own.sessions : SessionAt(files, sss, 0, s)
    BY <1>1, <1>3, <1>5, <2>1 DEF ConfigInv, SssAt, Settled
  <2> QED BY <1>5, <1>7, <2>1, <2>2 DEF SssAt, Settled
<1>11. CfgsAt'
  <2>1. \A key : KeyDone(k, key) = 0 BY <1>4 DEF KeyDone
  <2>2. \A key : KeyAt(files', cfgs', 0, key) BY <1>5, KeyNone
  <2> QED BY <1>5, <2>1, <2>2 DEF CfgsAt
<1> QED BY <1>4, <1>5, <1>6, <1>7, <1>8, <1>9, <1>10, <1>11 DEF ConfigInv

(* A step that only takes the loader further.                              *)
LEMMA LoaderMoves ==
    ASSUME ConfigInv, app' = app, files' = files, sss' = sss, cfgs' = cfgs, own' = own,
           pending' = pending, edited' = edited, NEW k, loader' = k, LoaderOK(k),
           loader.pc \notin {"empty sss", "empty cfgs"},
           Settled /\ k.pc \in Within => files[k.file] # Unreadable /\ k.doc = files[k.file],
           Settled => \A key \in Keys :
              KeyAt(files, cfgs, KeyDone(loader, key), key)
                => KeyAt(files, cfgs, KeyDone(k, key), key),
           Settled => \A s \in Sessions :
              SessionAt(files, sss, SessionDone(loader, s), s)
                => SessionAt(files, sss, SessionDone(k, s), s)
    PROVE  ConfigInv'
<1>1. FilesOK' /\ CfgsOK' /\ OwnOK' BY DEF ConfigInv, FilesOK, CfgsOK, OwnOK
<1>2. AppOK' BY AppKept DEF ConfigInv
<1>3. DocOK' BY DEF DocOK, Settled
<1>4. CfgsAt' BY DEF ConfigInv, CfgsAt, Settled
<1>5. SssAt' BY DEF ConfigInv, SssAt, Settled
<1> QED BY <1>1, <1>2, <1>3, <1>4, <1>5 DEF ConfigInv

LEMMA DecodeInv == ASSUME ConfigInv, Decode PROVE ConfigInv'
<1>1. PICK l, fs : l = loader /\ fs = files OBVIOUS
<1>2. LoaderOK(l) /\ l.pc = "decode" BY <1>1 DEF ConfigInv, Decode
<1>3. PICK i \in 1 .. NFiles + 1 : i = l.file BY <1>2 DEF LoaderOK
<1>4. /\ app' = app /\ files' = files /\ sss' = sss /\ cfgs' = cfgs /\ own' = own
      /\ pending' = pending /\ edited' = edited
  BY DEF Decode
<1>5. NFiles \in Nat BY ConfigAssumption
<1>6. (\A key : KeyDone(l, key) = i - 1) /\ (\A s : SessionDone(l, s) = i - 1)
  BY <1>2, <1>3 DEF KeyDone, SessionDone
<1>7. CASE i > NFiles
  <2>1. PICK pc \in {"notify", "callback"} : loader' = [l EXCEPT !.pc = pc]
    BY <1>1, <1>3, <1>7 DEF Decode
  <2>2. PICK k : k = [l EXCEPT !.pc = pc] OBVIOUS
  <2>3. LoaderOK(k) /\ k.pc = pc BY <1>2, <2>2 DEF LoaderOK, Within
  <2>4. i - 1 = NFiles BY <1>5, <1>7
  <2>5. \A key : KeyDone(k, key) = KeyDone(l, key) BY <1>6, <2>3, <2>4 DEF KeyDone
  <2>6. \A s : SessionDone(k, s) = SessionDone(l, s) BY <1>6, <2>3, <2>4 DEF SessionDone
  <2>7. k.pc \notin Within BY <2>3 DEF Within
  <2> QED BY <1>1, <1>2, <1>4, <2>1, <2>2, <2>3, <2>5, <2>6, <2>7, LoaderMoves
<1>8. CASE ~(i > NFiles)
  <2>0. i \in FileNames /\ i \in Nat /\ i - 1 \in Nat /\ (i - 1) + 1 = i BY <1>5, <1>8 DEF FileNames
  <2>1. CASE fs[i] = Unreadable
    <3>1. PICK k : k = [l EXCEPT !.file = i + 1] OBVIOUS
    <3>2. loader' = k BY <1>1, <1>3, <1>8, <2>1, <3>1 DEF Decode
    <3>3. DOMAIN k = DOMAIN l /\ k.pc = "decode" /\ k.file = i + 1 BY <1>2, <3>1 DEF LoaderOK
    <3>4. i + 1 \in 1 .. NFiles + 1 BY <1>5, <1>8
    <3>5. LoaderOK(k) BY <1>2, <3>3, <3>4 DEF LoaderOK, Within
    <3>6. (\A key : KeyDone(k, key) = i) /\ (\A s : SessionDone(k, s) = i)
      <4>1. (\A key : KeyDone(k, key) = k.file - 1) /\ (\A s : SessionDone(k, s) = k.file - 1)
        BY <3>3 DEF KeyDone, SessionDone
      <4>2. k.file - 1 = i BY <2>0, <3>3
      <4> QED BY <4>1, <4>2
    <3>7. ASSUME NEW key, KeyAt(fs, cfgs, i - 1, key) PROVE KeyAt(fs, cfgs, i, key)
      <4>1. ~Has(fs[(i - 1) + 1], key) BY <2>0, <2>1 DEF Has
      <4>2. KeyAt(fs, cfgs, (i - 1) + 1, key) BY <2>0, <3>7, <4>1, KeySkips
      <4> QED BY <2>0, <4>2
    <3>8. ASSUME NEW s, SessionAt(fs, sss, i - 1, s) PROVE SessionAt(fs, sss, i, s)
      <4>1. ~HasSess(fs[(i - 1) + 1], s) BY <2>0, <2>1 DEF HasSess
      <4>2. SessionAt(fs, sss, (i - 1) + 1, s) BY <2>0, <3>8, <4>1, SessionSkips
      <4> QED BY <2>0, <4>2
    <3>9. k.pc \notin Within BY <3>3 DEF Within
    <3>10. \A key : KeyAt(files, cfgs, KeyDone(loader, key), key)
                     => KeyAt(files, cfgs, KeyDone(k, key), key)
      BY <1>1, <1>6, <3>6, <3>7
    <3>11. \A s : SessionAt(files, sss, SessionDone(loader, s), s)
                     => SessionAt(files, sss, SessionDone(k, s), s)
      BY <1>1, <1>6, <3>6, <3>8
    <3> QED BY <1>1, <1>2, <1>4, <3>2, <3>5, <3>9, <3>10, <3>11, LoaderMoves
  <2>2. CASE fs[i] # Unreadable
    <3>1. PICK doc, todo : doc = fs[i] /\ todo = DOMAIN fs[i] OBVIOUS
    <3>2. PICK k : k = [l EXCEPT !.pc = "session", !.doc = doc, !.todo = todo] OBVIOUS
    <3>3. loader' = k BY <1>1, <1>3, <1>8, <2>2, <3>1, <3>2 DEF Decode
    <3>4. /\ DOMAIN k = DOMAIN l /\ k.pc = "session" /\ k.file = i /\ k.doc = doc
          /\ k.todo = todo
      BY <1>2, <1>3, <3>2 DEF LoaderOK
    <3>5. IsFile(doc) BY <1>1, <2>0, <2>2, <3>1 DEF ConfigInv, FilesOK
    <3>6. LoaderOK(k) BY <1>2, <2>0, <3>1, <3>4, <3>5 DEF LoaderOK, Within
    <3>7. ASSUME NEW key, KeyAt(fs, cfgs, i - 1, key) PROVE KeyAt(fs, cfgs, KeyDone(k, key), key)
      <4>1. CASE key[1] \in todo
        <5>1. KeyDone(k, key) = k.file - 1 BY <3>4, <4>1 DEF KeyDone
        <5> QED BY <3>4, <3>7, <5>1
      <4>2. CASE key[1] \notin todo
        <5>1. KeyDone(k, key) = i BY <3>4, <4>2 DEF KeyDone
        <5>2. ~Has(fs[(i - 1) + 1], key) BY <2>0, <3>1, <4>2 DEF Has
        <5>3. KeyAt(fs, cfgs, (i - 1) + 1, key) BY <2>0, <3>7, <5>2, KeySkips
        <5> QED BY <2>0, <5>1, <5>3
      <4> QED BY <4>1, <4>2
    <3>8. ASSUME NEW s, SessionAt(fs, sss, i - 1, s) PROVE SessionAt(fs, sss, SessionDone(k, s), s)
      <4>1. CASE s \in todo
        <5>1. SessionDone(k, s) = k.file - 1 BY <3>4, <4>1 DEF SessionDone
        <5> QED BY <3>4, <3>8, <5>1
      <4>2. CASE s \notin todo
        <5>1. SessionDone(k, s) = i BY <3>4, <4>2 DEF SessionDone
        <5>2. ~HasSess(fs[(i - 1) + 1], s) BY <2>0, <3>1, <4>2 DEF HasSess
        <5>3. SessionAt(fs, sss, (i - 1) + 1, s) BY <2>0, <3>8, <5>2, SessionSkips
        <5> QED BY <2>0, <5>1, <5>3
      <4> QED BY <4>1, <4>2
    <3>9. files[k.file] # Unreadable /\ k.doc = files[k.file] BY <1>1, <2>2, <3>1, <3>4
    <3>10. \A key : KeyAt(files, cfgs, KeyDone(loader, key), key)
                     => KeyAt(files, cfgs, KeyDone(k, key), key)
      BY <1>1, <1>6, <3>7
    <3>11. \A s : SessionAt(files, sss, SessionDone(loader, s), s)
                     => SessionAt(files, sss, SessionDone(k, s), s)
      BY <1>1, <1>6, <3>8
    <3> QED BY <1>1, <1>2, <1>4, <3>3, <3>6, <3>9, <3>10, <3>11, LoaderMoves
  <2> QED BY <2>1, <2>2
<1> QED BY <1>7, <1>8

LEMMA StoreSessionInv == ASSUME ConfigInv, StoreSession PROVE ConfigInv'
<1>1. PICK l, fs : l = loader /\ fs = files OBVIOUS
<1>2. LoaderOK(l) /\ l.pc = "session" BY <1>1 DEF ConfigInv, StoreSession
<1>3. PICK i \in FileNames : i = l.file BY <1>2 DEF LoaderOK, Within
<1>4. /\ app' = app /\ files' = files /\ cfgs' = cfgs /\ own' = own
      /\ pending' = pending /\ edited' = edited
  BY DEF StoreSession
<1>5. PICK doc, todo : doc = l.doc /\ todo = l.todo OBVIOUS
<1>6. IsFile(doc) /\ todo \subseteq DOMAIN doc BY <1>2, <1>5 DEF LoaderOK, Within
<1>7. i \in Nat /\ i - 1 \in Nat /\ (i - 1) + 1 = i /\ i + 1 \in 1 .. NFiles + 1
      /\ (i + 1) - 1 = i
  BY <1>3, ConfigAssumption DEF FileNames
<1>8. Settled => fs[i] # Unreadable /\ doc = fs[i]
  BY <1>1, <1>2, <1>3, <1>5 DEF ConfigInv, DocOK, Within
<1>9. CASE todo = {} /\ loader' = [l EXCEPT !.pc = "decode", !.file = i + 1] /\ sss' = sss
  <2>1. PICK k : k = [l EXCEPT !.pc = "decode", !.file = i + 1] OBVIOUS
  <2>2. DOMAIN k = DOMAIN l /\ k.pc = "decode" /\ k.file = i + 1 BY <1>2, <2>1 DEF LoaderOK
  <2>3. LoaderOK(k) BY <1>2, <1>7, <2>2 DEF LoaderOK, Within
  <2>4. \A key : KeyDone(k, key) = KeyDone(l, key)
    <3>1. \A key : KeyDone(k, key) = k.file - 1 BY <2>2 DEF KeyDone
    <3>2. \A key : KeyDone(l, key) = i BY <1>2, <1>3, <1>5, <1>9 DEF KeyDone
    <3> QED BY <1>7, <2>2, <3>1, <3>2
  <2>5. \A s : SessionDone(k, s) = SessionDone(l, s)
    <3>1. \A s : SessionDone(k, s) = k.file - 1 BY <2>2 DEF SessionDone
    <3>2. \A s : SessionDone(l, s) = i BY <1>2, <1>3, <1>5, <1>9 DEF SessionDone
    <3> QED BY <1>7, <2>2, <3>1, <3>2
  <2>6. k.pc \notin Within BY <2>2 DEF Within
  <2> QED BY <1>1, <1>2, <1>4, <1>9, <2>1, <2>3, <2>4, <2>5, <2>6, LoaderMoves
<1>10. ASSUME NEW s \in todo,
              sss' = IF s \in DOMAIN sss \/ ~Encodes(doc[s]) THEN sss ELSE Put(sss, s, doc[s]),
              loader' = [l EXCEPT !.pc = "names", !.sess = s, !.todo = todo \ {s},
                                  !.names = DOMAIN doc[s]]
       PROVE  ConfigInv'
  <2>1. PICK todo2, names : todo2 = todo \ {s} /\ names = DOMAIN doc[s] OBVIOUS
  <2>2. PICK k : k = [l EXCEPT !.pc = "names", !.sess = s, !.todo = todo2, !.names = names]
    OBVIOUS
  <2>3. loader' = k BY <1>10, <2>1, <2>2
  <2>4. /\ DOMAIN k = DOMAIN l /\ k.pc = "names" /\ k.file = i /\ k.doc = doc
        /\ k.todo = todo2 /\ k.sess = s /\ k.names = names
    BY <1>2, <1>3, <1>5, <2>2 DEF LoaderOK
  <2>5. LoaderOK(k) BY <1>2, <1>6, <2>1, <2>4 DEF LoaderOK, Within
  <2>6. ASSUME NEW key, Settled, KeyAt(fs, cfgs, KeyDone(l, key), key)
        PROVE  KeyAt(fs, cfgs, KeyDone(k, key), key)
    <3>1. CASE key[1] \in todo2 \/ (key[1] = s /\ key[2] \in names)
      <4>1. key[1] \in todo BY <2>1, <3>1
      <4>2. KeyDone(l, key) = l.file - 1 BY <1>2, <1>5, <4>1 DEF KeyDone
      <4>3. KeyDone(k, key) = k.file - 1 BY <2>4, <3>1 DEF KeyDone
      <4> QED BY <1>3, <2>4, <2>6, <4>2, <4>3
    <3>2. CASE key[1] \notin todo
      <4>1. KeyDone(l, key) = l.file BY <1>2, <1>5, <3>2 DEF KeyDone
      <4>2. KeyDone(k, key) = k.file BY <1>10, <2>1, <2>4, <3>2 DEF KeyDone
      <4> QED BY <1>3, <2>4, <2>6, <4>1, <4>2
    <3>3. CASE key[1] = s /\ key[2] \notin names
      <4>1. KeyDone(l, key) = l.file - 1 BY <1>2, <1>5, <3>3 DEF KeyDone
      <4>2. KeyDone(k, key) = k.file BY <2>1, <2>4, <3>3 DEF KeyDone
      <4>3. ~Has(fs[(i - 1) + 1], key) BY <1>7, <1>8, <2>1, <2>6, <3>3 DEF Has
      <4>4. KeyAt(fs, cfgs, (i - 1) + 1, key) BY <1>3, <1>7, <2>6, <4>1, <4>3, KeySkips
      <4> QED BY <1>7, <2>4, <4>2, <4>4
    <3> QED BY <2>1, <3>1, <3>2, <3>3
  <2>7. PICK q : q = IF s \in DOMAIN sss \/ ~Encodes(doc[s]) THEN sss ELSE Put(sss, s, doc[s])
    OBVIOUS
  <2>8. ASSUME NEW t, Settled, SessionAt(fs, sss, SessionDone(l, t), t)
        PROVE  SessionAt(fs, q, SessionDone(k, t), t)
    <3>1. CASE t = s
      <4>1. SessionDone(l, t) = l.file - 1 BY <1>2, <1>5, <3>1 DEF SessionDone
      <4>2. SessionDone(k, t) = k.file BY <2>1, <2>4, <3>1 DEF SessionDone
      <4>3. SessionAt(fs, sss, i - 1, s) BY <1>3, <2>8, <3>1, <4>1
      <4>4. CASE Encodes(doc[s])
        <5>1. HasSess(fs[i], s) BY <1>6, <1>8, <2>8, <4>4 DEF HasSess
        <5>2. q = IF s \in DOMAIN sss THEN sss ELSE Put(sss, s, fs[i][s])
          BY <1>8, <2>7, <2>8, <4>4
        <5>3. SessionAt(fs, q, i, s) BY <4>3, <5>1, <5>2, SessionStored
        <5> QED BY <2>4, <3>1, <4>2, <5>3
      <4>5. CASE ~Encodes(doc[s])
        <5>1. ~HasSess(fs[(i - 1) + 1], s) BY <1>7, <1>8, <2>8, <4>5 DEF HasSess
        <5>2. SessionAt(fs, sss, (i - 1) + 1, s) BY <1>7, <4>3, <5>1, SessionSkips
        <5>3. q = sss BY <2>7, <4>5
        <5> QED BY <1>7, <2>4, <3>1, <4>2, <5>2, <5>3
      <4> QED BY <4>4, <4>5
    <3>2. CASE t # s
      <4>1. SessionDone(k, t) = SessionDone(l, t)
        <5>1. t \in todo2 <=> t \in todo BY <2>1, <3>2
        <5> QED BY <1>2, <1>3, <1>5, <2>4, <5>1 DEF SessionDone
      <4>2. (t \in DOMAIN q <=> t \in DOMAIN sss) /\ (t \in DOMAIN sss => q[t] = sss[t])
        BY <2>7, <3>2 DEF Put
      <4> QED BY <2>8, <4>1, <4>2, SessionElse
    <3> QED BY <3>1, <3>2
  <2>9. FilesOK' /\ CfgsOK' /\ OwnOK' BY <1>4 DEF ConfigInv, FilesOK, CfgsOK, OwnOK
  <2>10. AppOK' BY <1>4, AppKept DEF ConfigInv
  <2>11. DocOK' BY <1>1, <1>4, <1>8, <2>3, <2>4 DEF DocOK, Settled
  <2>12. CfgsAt' BY <1>1, <1>2, <1>4, <2>3, <2>6 DEF ConfigInv, CfgsAt, Settled
  <2>13. SssAt'
    <3>1. sss' = q BY <1>10, <2>7
    <3> QED BY <1>1, <1>2, <1>4, <2>3, <2>8, <3>1 DEF ConfigInv, SssAt, Settled
  <2> QED BY <1>4, <2>3, <2>5, <2>9, <2>10, <2>11, <2>12, <2>13 DEF ConfigInv
<1> QED BY <1>1, <1>3, <1>5, <1>9, <1>10 DEF StoreSession

LEMMA StoreValueInv == ASSUME ConfigInv, StoreValue PROVE ConfigInv'
<1>1. PICK l, fs : l = loader /\ fs = files OBVIOUS
<1>2. LoaderOK(l) /\ l.pc = "names" BY <1>1 DEF ConfigInv, StoreValue
<1>3. PICK i \in FileNames : i = l.file BY <1>2 DEF LoaderOK, Within
<1>4. /\ app' = app /\ files' = files /\ sss' = sss /\ own' = own
      /\ pending' = pending /\ edited' = edited
  BY DEF StoreValue
<1>5. PICK doc, sess, names : doc = l.doc /\ sess = l.sess /\ names = l.names OBVIOUS
<1>6. IsFile(doc) /\ sess \in DOMAIN doc /\ sess \notin l.todo /\ names \subseteq DOMAIN doc[sess]
  BY <1>2, <1>5 DEF LoaderOK, Within
<1>7. Settled => fs[i] # Unreadable /\ doc = fs[i]
  BY <1>1, <1>2, <1>3, <1>5 DEF ConfigInv, DocOK, Within
<1>8. CASE names = {} /\ loader' = [l EXCEPT !.pc = "session"] /\ cfgs' = cfgs
  <2>1. PICK k : k = [l EXCEPT !.pc = "session"] OBVIOUS
  <2>2. /\ DOMAIN k = DOMAIN l /\ k.pc = "session" /\ k.file = i /\ k.todo = l.todo
        /\ k.doc = doc
    BY <1>2, <1>3, <1>5, <2>1 DEF LoaderOK
  <2>3. LoaderOK(k) BY <1>2, <1>3, <1>5, <2>2 DEF LoaderOK, Within
  <2>4. \A key : KeyDone(k, key) = KeyDone(l, key)
    BY <1>2, <1>3, <1>5, <1>8, <2>2 DEF KeyDone
  <2>5. \A s : SessionDone(k, s) = SessionDone(l, s) BY <1>2, <1>3, <2>2 DEF SessionDone
  <2>6. Settled => files[k.file] # Unreadable /\ k.doc = files[k.file] BY <1>1, <1>7, <2>2
  <2> QED BY <1>1, <1>2, <1>4, <1>8, <2>1, <2>3, <2>4, <2>5, <2>6, LoaderMoves
<1>9. ASSUME NEW n \in names, cfgs' = Put(cfgs, <<sess, n>>, doc[sess][n]),
             loader' = [l EXCEPT !.names = names \ {n}]
      PROVE  ConfigInv'
  <2>1. PICK rest : rest = names \ {n} OBVIOUS
  <2>2. PICK k : k = [l EXCEPT !.names = rest] OBVIOUS
  <2>3. loader' = k BY <1>9, <2>1, <2>2
  <2>4. /\ DOMAIN k = DOMAIN l /\ k.pc = "names" /\ k.file = i /\ k.doc = doc
        /\ k.todo = l.todo /\ k.sess = sess /\ k.names = rest
    BY <1>2, <1>3, <1>5, <2>2 DEF LoaderOK
  <2>5. LoaderOK(k)
    <3>1. rest \subseteq DOMAIN doc[sess] BY <1>6, <2>1
    <3>2. k.todo \subseteq DOMAIN k.doc BY <1>2, <1>5, <2>4 DEF LoaderOK, Within
    <3> QED BY <1>2, <1>6, <2>4, <3>1, <3>2 DEF LoaderOK, Within
  <2>6. PICK here, v : here = <<sess, n>> /\ v = doc[sess][n] OBVIOUS
  <2>7. here[1] = sess /\ here[2] = n /\ here = <<here[1], here[2]>> BY <2>6
  <2>8. PICK q : q = Put(cfgs, here, v) OBVIOUS
  <2>9. cfgs' = q BY <1>9, <2>6, <2>8
  <2>10. /\ DOMAIN q = DOMAIN cfgs \cup {here} /\ q[here] = v
         /\ \A key \in DOMAIN cfgs : key # here => q[key] = cfgs[key]
    BY <2>8 DEF Put
  <2>11. v \in Value BY <1>6, <2>6 DEF IsFile
  <2>12. CfgsOK' BY <2>7, <2>9, <2>10, <2>11 DEF ConfigInv, CfgsOK
  <2>13. ASSUME NEW key \in Keys, Settled, KeyAt(fs, cfgs, KeyDone(l, key), key)
         PROVE  KeyAt(fs, q, KeyDone(k, key), key)
    <3>1. CASE key = here
      <4>1. KeyDone(k, key) = k.file
        <5>1. key[1] \notin l.todo /\ key[2] \notin rest BY <1>6, <2>1, <2>7, <3>1
        <5> QED BY <2>4, <5>1 DEF KeyDone
      <4>2. n \in DOMAIN doc[sess] BY <1>6
      <4>3. Has(fs[i], key) BY <1>6, <1>7, <2>7, <2>13, <3>1, <4>2 DEF Has
      <4>4. key \in DOMAIN q /\ q[key] = fs[i][key[1]][key[2]]
        BY <1>7, <2>6, <2>7, <2>10, <2>13, <3>1
      <4> QED BY <2>4, <4>1, <4>3, <4>4, KeyHere
    <3>2. CASE key # here
      <4>1. key[1] # sess \/ key[2] # n BY <2>6, <3>2 DEF Keys
      <4>2. key[1] = sess => (key[2] \in rest <=> key[2] \in names) BY <2>1, <4>1
      <4>3. KeyDone(k, key) = KeyDone(l, key)
        BY <1>2, <1>3, <1>5, <2>4, <4>2 DEF KeyDone
      <4>4. (key \in DOMAIN q <=> key \in DOMAIN cfgs) /\ (key \in DOMAIN cfgs => q[key] = cfgs[key])
        BY <2>10, <3>2
      <4> QED BY <2>13, <4>3, <4>4, KeyElse
    <3> QED BY <3>1, <3>2
  <2>14. FilesOK' /\ OwnOK' BY <1>4 DEF ConfigInv, FilesOK, OwnOK
  <2>15. AppOK' BY <1>4, AppKept DEF ConfigInv
  <2>16. DocOK' BY <1>1, <1>4, <1>7, <2>3, <2>4 DEF DocOK, Settled
  <2>17. CfgsAt' BY <1>1, <1>2, <1>4, <2>3, <2>9, <2>13 DEF ConfigInv, CfgsAt, Settled
  <2>18. SssAt'
    <3>1. \A s : SessionDone(k, s) = SessionDone(l, s) BY <1>2, <1>3, <2>4 DEF SessionDone
    <3> QED BY <1>1, <1>2, <1>4, <2>3, <3>1 DEF ConfigInv, SssAt, Settled
  <2> QED BY <1>4, <2>3, <2>5, <2>12, <2>14, <2>15, <2>16, <2>17, <2>18 DEF ConfigInv
<1> QED BY <1>1, <1>5, <1>8, <1>9 DEF StoreValue

LEMMA AtRestInv == ASSUME ConfigInv, Notify \/ Callback PROVE ConfigInv'
<1>1. PICK l : l = loader OBVIOUS
<1>2. LoaderOK(l) /\ l.pc \in {"notify", "callback"} BY <1>1 DEF ConfigInv, Notify, Callback
<1>3. /\ app' = app /\ files' = files /\ sss' = sss /\ cfgs' = cfgs /\ own' = own
      /\ pending' = pending /\ edited' = edited
  BY DEF Notify, Callback
<1>4. PICK first : loader' = [l EXCEPT !.pc = "idle", !.first = first]
  <2>1. CASE Notify BY <1>1, <2>1 DEF Notify
  <2>2. CASE Callback
    <3>1. PICK k : k = [l EXCEPT !.pc = "idle"] OBVIOUS
    <3>2. PICK first : first = l.first OBVIOUS
    <3>3. k = [l EXCEPT !.pc = "idle", !.first = first] BY <1>2, <3>1, <3>2 DEF LoaderOK
    <3> QED BY <1>1, <2>2, <3>1, <3>3 DEF Callback
  <2> QED BY <2>1, <2>2
<1>5. PICK k : k = [l EXCEPT !.pc = "idle", !.first = first] OBVIOUS
<1>6. DOMAIN k = DOMAIN l /\ k.pc = "idle" BY <1>2, <1>5 DEF LoaderOK
<1>7. LoaderOK(k) /\ k.pc \notin Within BY <1>2, <1>6 DEF LoaderOK, Within
<1>8. \A key : KeyDone(k, key) = KeyDone(l, key) BY <1>2, <1>6 DEF KeyDone
<1>9. \A s : SessionDone(k, s) = SessionDone(l, s) BY <1>2, <1>6 DEF SessionDone
<1> QED BY <1>1, <1>2, <1>3, <1>4, <1>5, <1>7, <1>8, <1>9, LoaderMoves

LEMMA ReceiveHupInv == ASSUME ConfigInv, ReceiveHup PROVE ConfigInv'
<1>1. PICK l : l = loader OBVIOUS
<1>2. PICK k : k = [l EXCEPT !.pc = "empty sss"] OBVIOUS
<1>3. LoaderOK(l) BY <1>1 DEF ConfigInv
<1>4. LoaderOK(k) /\ k.pc = "empty sss" BY <1>2, <1>3 DEF LoaderOK, Within
<1>5. /\ loader' = k /\ pending' = FALSE /\ app' = app /\ files' = files /\ sss' = sss
      /\ cfgs' = cfgs /\ own' = own /\ edited' = edited
  BY <1>1, <1>2 DEF ReceiveHup
<1>6. AppOK' BY <1>5, AppKept DEF ConfigInv
<1>7. FilesOK' /\ CfgsOK' /\ OwnOK' BY <1>5 DEF ConfigInv, FilesOK, CfgsOK, OwnOK
<1>8. DocOK' /\ CfgsAt' /\ SssAt' BY <1>4, <1>5 DEF DocOK, CfgsAt, SssAt, Within
<1> QED BY <1>4, <1>5, <1>6, <1>7, <1>8 DEF ConfigInv

(* A step after which a load is due, or a change has had no signal.        *)
LEMMA Unsettled ==
    ASSUME ConfigInv, FilesOK', sss' = sss, cfgs' = cfgs, own' = own, loader' = loader,
           app' = app, pending' \in BOOLEAN, edited' \in BOOLEAN, pending' \/ edited'
    PROVE  ConfigInv'
<1>1. AppOK' BY AppKept DEF ConfigInv
<1>2. CfgsOK' /\ OwnOK' BY DEF ConfigInv, CfgsOK, OwnOK
<1>3. DocOK' /\ CfgsAt' /\ SssAt' BY DEF DocOK, CfgsAt, SssAt, Settled
<1> QED BY <1>1, <1>2, <1>3 DEF ConfigInv

LEMMA HupInv == ASSUME ConfigInv, Hup PROVE ConfigInv'
<1>1. FilesOK' BY DEF ConfigInv, FilesOK, Hup
<1> QED BY <1>1, Unsettled DEF Hup

LEMMA ChangedInv ==
    ASSUME ConfigInv, NEW f \in FileNames, NEW content,
           content = Unreadable \/ IsFile(content), Changed(f, content),
           sss' = sss, cfgs' = cfgs, own' = own, loader' = loader, app' = app, pending' = pending
    PROVE  ConfigInv'
<1>1. FilesOK' BY DEF ConfigInv, FilesOK, Changed
<1> QED BY <1>1, Unsettled DEF Changed, ConfigInv

LEMMA EditInv ==
    ASSUME ConfigInv, NEW f \in FileNames, NEW content \in Contents, Edit(f, content)
    PROVE  ConfigInv'
  BY ChangedInv, ConfigAssumption DEF Edit

LEMMA SavedIsFile == ASSUME NEW v \in Value PROVE AsSaved(v) \in Value /\ AsSaved(v).kind # "slice"
<1>1. CASE v.kind = "slice"
  <2>1. AsSaved(v) = [v EXCEPT !.kind = "list"] BY <1>1 DEF AsSaved
  <2>2. PICK w : w = [v EXCEPT !.kind = "list"] OBVIOUS
  <2>3. w \in Value /\ w.kind = "list" BY <2>2, ConfigAssumption DEF Value
  <2> QED BY <2>1, <2>2, <2>3
<1>2. CASE v.kind # "slice" BY <1>2 DEF AsSaved
<1> QED BY <1>1, <1>2

LEMMA SaveTomlInv ==
    ASSUME ConfigInv, NEW f \in FileNames, SaveToml(f) PROVE ConfigInv'
<1> DEFINE ss == {k[1] : k \in DOMAIN cfgs}
           ns(s) == {k[2] : k \in {l \in DOMAIN cfgs : l[1] = s}}
<1>1. PICK c : c = [s \in ss |-> [n \in ns(s) |-> AsSaved(cfgs[<<s, n>>])]] OBVIOUS
<1>2. PICK content : /\ content = c \/ content = NoEntry
                     /\ Changed(f, content)
  BY <1>1 DEF SaveToml, Collected
<1>3. ASSUME NEW s \in ss, NEW n \in ns(s) PROVE <<s, n>> \in DOMAIN cfgs
  <2>1. PICK k \in DOMAIN cfgs : k[1] = s /\ k[2] = n BY <1>3
  <2>2. k = <<k[1], k[2]>> BY <2>1 DEF ConfigInv, CfgsOK
  <2> QED BY <2>1, <2>2
<1>4. DOMAIN c = ss /\ \A s \in ss : c[s] = [n \in ns(s) |-> AsSaved(cfgs[<<s, n>>])] BY <1>1
<1> HIDE DEF ss, ns
<1>5. \A s \in ss : DOMAIN c[s] = ns(s) /\ \A n \in ns(s) : c[s][n] = AsSaved(cfgs[<<s, n>>])
  BY <1>4
<1>6. IsFile(c)
  <2>1. SUFFICES ASSUME NEW s \in ss, NEW n \in ns(s)
                 PROVE  c[s][n] \in Value /\ c[s][n].kind # "slice"
    BY <1>4, <1>5 DEF IsFile
  <2>2. cfgs[<<s, n>>] \in Value BY <1>3 DEF ConfigInv, CfgsOK
  <2> QED BY <1>5, <2>2, SavedIsFile
<1>7. IsFile(NoEntry) BY DEF IsFile, NoEntry
<1> QED BY <1>2, <1>6, <1>7, ChangedInv DEF SaveToml

-----------------------------------------------------------------------------
(* The calls of the program.                                               *)
LEMMA CallInv ==
    ASSUME ConfigInv, NEW steps \in Seq(AppSteps), steps # << >>, NEW sets, Call(steps, sets)
    PROVE  ConfigInv'
<1>1. /\ files' = files /\ sss' = sss /\ cfgs' = cfgs /\ own' = own /\ loader' = loader
      /\ pending' = pending /\ edited' = edited /\ app' = [pc |-> "in", todo |-> steps]
  BY DEF Call
<1>2. FilesOK' /\ CfgsOK' /\ OwnOK' BY <1>1 DEF ConfigInv, FilesOK, CfgsOK, OwnOK
<1>3. AppOK' BY <1>1 DEF AppOK
<1>4. DocOK' /\ CfgsAt' /\ SssAt' BY <1>1 DEF ConfigInv, DocOK, CfgsAt, SssAt, Settled
<1> QED BY <1>1, <1>2, <1>3, <1>4 DEF ConfigInv

LEMMA OneStep == ASSUME NEW step \in AppSteps PROVE <<step>> \in Seq(AppSteps) /\ <<step>> # << >>
  OBVIOUS

LEMMA GetInv == ASSUME ConfigInv, Get PROVE ConfigInv'
<1>1. PICK step : step = [kind |-> "get"] OBVIOUS
<1>2. step \in AppSteps BY <1>1 DEF AppSteps
<1>3. PICK steps : steps = <<step>> OBVIOUS
<1> QED BY <1>1, <1>2, <1>3, OneStep, CallInv DEF Get

LEMMA SetValueInv ==
    ASSUME ConfigInv, NEW s \in Sessions, NEW n \in Names, NEW v \in OwnValues,
           SetValue(<<s, n>>, v)
    PROVE  ConfigInv'
<1>1. PICK key \in Keys : key = <<s, n>> BY DEF Keys
<1>2. PICK step : step = [kind |-> "value", key |-> key, v |-> v] OBVIOUS
<1>3. step \in AppSteps BY <1>2 DEF AppSteps
<1>4. PICK steps : steps = <<step>> OBVIOUS
<1> QED BY <1>1, <1>2, <1>3, <1>4, OneStep, CallInv DEF SetValue

LEMMA SetSessInv ==
    ASSUME ConfigInv, NEW s \in Sessions, NEW v \in OwnValues, SetSess(s, v)
    PROVE  ConfigInv'
<1>1. PICK order \in [1 .. Cardinality(Fields) -> Fields] :
         Call([i \in DOMAIN order |-> [kind |-> "value", key |-> <<s, order[i]>>, v |-> v]]
                \o <<[kind |-> "session", sess |-> s, doc |-> [n \in Fields |-> v]]>>, 1)
  BY DEF SetSess
<1>2. PICK n \in Nat : n = Cardinality(Fields)
  <2>1. IsFiniteSet(Fields) BY ConfigAssumption, FS_Subset DEF Fields
  <2> QED BY <2>1, FS_CardinalityType
<1>3. PICK values : values = [i \in DOMAIN order |->
                                [kind |-> "value", key |-> <<s, order[i]>>, v |-> v]]
  OBVIOUS
<1>4. values \in Seq(AppSteps)
  <2>1. DOMAIN order = 1 .. n BY <1>1, <1>2
  <2>2. ASSUME NEW i \in 1 .. n PROVE values[i] \in AppSteps
    <3>1. PICK key : key = <<s, order[i]>> OBVIOUS
    <3>2. key \in Keys BY <1>1, <1>2, <3>1 DEF Keys, Fields
    <3>3. values[i] = [kind |-> "value", key |-> key, v |-> v] BY <1>3, <2>1, <3>1
    <3> QED BY <3>2, <3>3 DEF AppSteps
  <2>3. values \in [1 .. n -> AppSteps] BY <1>3, <2>1, <2>2
  <2> QED BY <1>2, <2>3
<1>5. PICK doc : doc = [m \in Fields |-> v] OBVIOUS
<1>6. PICK last : last = [kind |-> "session", sess |-> s, doc |-> doc] OBVIOUS
<1>7. doc \in [Fields -> OwnValues] BY <1>5
<1>8. last \in AppSteps BY <1>6, <1>7 DEF AppSteps
<1>9. PICK tail : tail = <<last>> OBVIOUS
<1>10. tail \in Seq(AppSteps) /\ Len(tail) = 1 BY <1>8, <1>9
<1>11. PICK steps : steps = values \o tail OBVIOUS
<1>12. steps \in Seq(AppSteps) /\ steps # << >>
  <2>1. steps \in Seq(AppSteps) /\ Len(steps) = Len(values) + 1
    <3>1. steps \in Seq(AppSteps) /\ Len(steps) = Len(values) + Len(tail)
      BY <1>4, <1>10, <1>11, ConcatProperties
    <3> QED BY <1>10, <3>1
  <2>2. PICK m \in Nat : m = Len(values) BY <1>4
  <2>3. PICK nil : nil = << >> OBVIOUS
  <2>4. Len(nil) = 0 BY <2>3
  <2>5. Len(steps) # 0 BY <2>1, <2>2
  <2> QED BY <2>1, <2>3, <2>4, <2>5
<1>13. Call(steps, 1) BY <1>1, <1>3, <1>5, <1>6, <1>9, <1>11
<1> QED BY <1>12, <1>13, CallInv

(* What the program sets leaves every other key and session as it was.     *)
LEMMA AppStepInv == ASSUME ConfigInv, AppStep PROVE ConfigInv'
<1>1. PICK todo \in Seq(AppSteps) : todo = app.todo BY DEF ConfigInv, AppOK
<1>2. todo # << >> BY <1>1 DEF ConfigInv, AppOK, AppStep
<1>3. PICK step, rest, n : step = Head(todo) /\ rest = Tail(todo) /\ n = Len(todo) OBVIOUS
<1>4. step \in AppSteps /\ rest \in Seq(AppSteps) /\ n \in Nat /\ (n # 1 => rest # << >>)
  <2>1. step \in AppSteps /\ rest \in Seq(AppSteps) BY <1>1, <1>2, <1>3
  <2>2. n \in Nat BY <1>1, <1>3
  <2>3. Len(rest) = n - 1 BY <1>1, <1>2, <1>3
  <2>4. PICK nil : nil = << >> OBVIOUS
  <2>5. Len(nil) = 0 BY <2>4
  <2>6. n # 1 => Len(rest) # 0 BY <2>2, <2>3
  <2> QED BY <2>1, <2>2, <2>4, <2>5, <2>6
<1>5. /\ files' = files /\ loader' = loader /\ pending' = pending /\ edited' = edited
      /\ app' = [pc |-> IF n = 1 THEN "out" ELSE "in", todo |-> rest]
  BY <1>1, <1>3 DEF AppStep
<1>6. AppOK' BY <1>4, <1>5 DEF AppOK
<1>7. FilesOK' /\ DocOK' BY <1>5 DEF ConfigInv, FilesOK, DocOK, Settled
<1>8. CASE step.kind = "get" /\ sss' = sss /\ cfgs' = cfgs /\ own' = own
  <2>1. CfgsOK' /\ OwnOK' BY <1>8 DEF ConfigInv, CfgsOK, OwnOK
  <2>2. CfgsAt' /\ SssAt' BY <1>5, <1>8 DEF ConfigInv, CfgsAt, SssAt, Settled
  <2> QED BY <1>5, <1>6, <1>7, <2>1, <2>2 DEF ConfigInv
<1>9. CASE /\ step.kind = "value" /\ sss' = sss
           /\ cfgs' = Put(cfgs, step.key, step.v)
           /\ own' = [own EXCEPT !.keys = @ \cup {step.key}]
  <2>1. step.key \in Keys /\ step.v \in OwnValues BY <1>4, <1>9 DEF AppSteps
  <2>2. PICK key \in Keys, v \in OwnValues : key = step.key /\ v = step.v BY <2>1
  <2>3. PICK q : q = Put(cfgs, key, v) OBVIOUS
  <2>4. cfgs' = q BY <1>9, <2>2, <2>3
  <2>5. /\ DOMAIN q = DOMAIN cfgs \cup {key} /\ q[key] = v
        /\ \A k \in DOMAIN cfgs : k # key => q[k] = cfgs[k]
    BY <2>3 DEF Put
  <2>6. CfgsOK' BY <2>4, <2>5, ConfigAssumption DEF ConfigInv, CfgsOK, Keys
  <2>7. OwnOK' /\ own'.keys = own.keys \cup {key} /\ own'.sessions = own.sessions
    BY <1>9, <2>2 DEF ConfigInv, OwnOK
  <2>8. SssAt' BY <1>5, <1>9, <2>7 DEF ConfigInv, SssAt, Settled
  <2>9. CfgsAt'
    <3>1. SUFFICES ASSUME Settled, loader.pc \notin {"empty sss", "empty cfgs"},
                          NEW k \in Keys, k \notin own.keys, k # key
                   PROVE  KeyAt(files, q, KeyDone(loader, k), k)
      BY <1>5, <2>4, <2>7 DEF CfgsAt, Settled
    <3>2. KeyAt(files, cfgs, KeyDone(loader, k), k) BY <3>1 DEF ConfigInv, CfgsAt
    <3> QED BY <2>5, <3>1, <3>2, KeyElse
  <2> QED BY <1>5, <1>6, <1>7, <2>6, <2>7, <2>8, <2>9 DEF ConfigInv
<1>10. CASE /\ step.kind = "session" /\ cfgs' = cfgs
            /\ sss' = Put(sss, step.sess, step.doc)
            /\ own' = [own EXCEPT !.sessions = @ \cup {step.sess}]
  <2>1. PICK s, doc : s = step.sess /\ doc = step.doc OBVIOUS
  <2>2. PICK q : q = Put(sss, s, doc) OBVIOUS
  <2>3. sss' = q BY <1>10, <2>1, <2>2
  <2>4. DOMAIN q = DOMAIN sss \cup {s} /\ \A t \in DOMAIN sss : t # s => q[t] = sss[t]
    BY <2>2 DEF Put
  <2>5. OwnOK' /\ own'.sessions = own.sessions \cup {s} /\ own'.keys = own.keys
    BY <1>10, <2>1 DEF ConfigInv, OwnOK
  <2>6. CfgsOK' BY <1>10 DEF ConfigInv, CfgsOK
  <2>7. CfgsAt' BY <1>5, <1>10, <2>5 DEF ConfigInv, CfgsAt, Settled
  <2>8. SssAt'
    <3>1. SUFFICES ASSUME Settled, loader.pc # "empty sss",
                          NEW t \in Sessions, t \notin own.sessions, t # s
                   PROVE  SessionAt(files, q, SessionDone(loader, t), t)
      BY <1>5, <2>3, <2>5 DEF SssAt, Settled
    <3>2. SessionAt(files, sss, SessionDone(loader, t), t) BY <3>1 DEF ConfigInv, SssAt
    <3> QED BY <2>4, <3>1, <3>2, SessionElse
  <2> QED BY <1>5, <1>6, <1>7, <2>5, <2>6, <2>7, <2>8 DEF ConfigInv
<1> QED BY <1>1, <1>3, <1>8, <1>9, <1>10 DEF AppStep

(* The loader's and the program's steps, and signals and edits between     *)
(* them, keep what it has taken in to what the files hold.                 *)
THEOREM ConfigInvariant == ConfigSpec => []ConfigInv
<1>1. ConfigInit => ConfigInv BY ConfigInitInv
<1>2. ConfigInv /\ [ConfigNext]_configVars => ConfigInv'
  <2> SUFFICES ASSUME ConfigInv, [ConfigNext]_configVars PROVE ConfigInv' OBVIOUS
  <2>1. CASE EmptySss \/ EmptyCfgs \/ Decode BY <2>1, EmptySssInv, EmptyCfgsInv, DecodeInv
  <2>2. CASE StoreSession \/ StoreValue BY <2>2, StoreSessionInv, StoreValueInv
  <2>3. CASE Notify \/ Callback \/ ReceiveHup BY <2>3, AtRestInv, ReceiveHupInv
  <2>4. CASE Hup \/ Get \/ AppStep BY <2>4, HupInv, GetInv, AppStepInv
  <2>5. ASSUME NEW f \in FileNames, SaveToml(f) \/ \E content \in Contents : Edit(f, content)
        PROVE  ConfigInv'
    BY <2>5, SaveTomlInv, EditInv
  <2>6. ASSUME NEW s \in Sessions, NEW v \in OwnValues,
               SetSess(s, v) \/ \E n \in Names : SetValue(<<s, n>>, v)
        PROVE  ConfigInv'
    BY <2>6, SetSessInv, SetValueInv
  <2>7. CASE UNCHANGED configVars
    <3>1. /\ files' = files /\ sss' = sss /\ cfgs' = cfgs /\ own' = own /\ loader' = loader
          /\ pending' = pending /\ edited' = edited /\ app' = app
      BY <2>7 DEF configVars
    <3> QED BY <3>1 DEF ConfigInv, FilesOK, CfgsOK, AppOK, OwnOK, DocOK, CfgsAt, SssAt, Settled
  <2> QED BY <2>1, <2>2, <2>3, <2>4, <2>5, <2>6, <2>7 DEF ConfigNext
<1> QED BY <1>1, <1>2, PTL DEF ConfigSpec

(* What an array getter picks out of a list: its recursion has a solution, *)
(* which holds the elements of the sort, and no others.                    *)
Taken(els, sort, i, took) == IF i = 0 THEN << >>
                             ELSE IF els[i].kind = sort THEN Append(took, els[i]) ELSE took
Takes(take, els, sort, m) == take = [i \in 0 .. m |-> Taken(els, sort, i, take[i - 1])]
Image(s) == {s[i] : i \in DOMAIN s}
OfKind(els, sort, m) == {els[j] : j \in {i \in 1 .. m : els[i].kind = sort}}

LEMMA TakeExists ==
    ASSUME NEW els, NEW sort, NEW m \in Nat PROVE \E take : Takes(take, els, sort, m)
<1> DEFINE T == {l \in Nat : \E take : Takes(take, els, sort, l)}
<1>1. 0 \in T
  <2>1. PICK take : take = [n \in 0 .. 0 |-> << >>] OBVIOUS
  <2>2. \A n \in 0 .. 0 : Taken(els, sort, n, take[n - 1]) = << >> BY DEF Taken
  <2>3. Takes(take, els, sort, 0) BY <2>1, <2>2 DEF Takes
  <2> QED BY <2>3
<1>2. ASSUME NEW l \in Nat, l \in T PROVE l + 1 \in T
  <2>1. PICK f : Takes(f, els, sort, l) BY <1>2
  <2>2. PICK g : g = [n \in 0 .. l + 1 |->
                        Taken(els, sort, n, IF n - 1 \in 0 .. l THEN f[n - 1] ELSE 0)]
    OBVIOUS
  <2>3. \A n \in 0 .. l : n - 1 \in 0 .. l \/ n = 0 OBVIOUS
  <2>4. \A r, q : Taken(els, sort, 0, r) = Taken(els, sort, 0, q) BY DEF Taken
  <2>5. ASSUME NEW n \in 0 .. l PROVE g[n] = f[n]
    <3>1. f[n] = Taken(els, sort, n, f[n - 1]) BY <2>1 DEF Takes
    <3>2. g[n] = Taken(els, sort, n, IF n - 1 \in 0 .. l THEN f[n - 1] ELSE 0) BY <2>2
    <3> QED BY <2>3, <2>4, <3>1, <3>2
  <2>6. ASSUME NEW n \in 0 .. l + 1 PROVE g[n] = Taken(els, sort, n, g[n - 1])
    <3>1. g[n] = Taken(els, sort, n, IF n - 1 \in 0 .. l THEN f[n - 1] ELSE 0) BY <2>2
    <3>2. CASE n = 0 BY <2>4, <3>1, <3>2
    <3>3. CASE n # 0
      <4>1. n - 1 \in 0 .. l BY <3>3
      <4>2. g[n - 1] = f[n - 1] BY <2>5, <4>1
      <4> QED BY <3>1, <4>1, <4>2
    <3> QED BY <3>2, <3>3
  <2>7. Takes(g, els, sort, l + 1) BY <2>2, <2>6 DEF Takes
  <2> QED BY <2>7
<1>3. Nat \subseteq T
  <2> HIDE DEF T
  <2> QED BY <1>1, <1>2, SetInduction
<1> QED BY <1>3

LEMMA ImageAppend ==
    ASSUME NEW s \in Seq(Elements), NEW e \in Elements
    PROVE  Append(s, e) \in Seq(Elements) /\ Image(Append(s, e)) = Image(s) \cup {e}
<1>1. PICK t, n : t = Append(s, e) /\ n = Len(s) OBVIOUS
<1>2. /\ t \in Seq(Elements) /\ n \in Nat /\ DOMAIN t = 1 .. n + 1 /\ DOMAIN s = 1 .. n
      /\ t[n + 1] = e /\ \A i \in 1 .. n : t[i] = s[i]
  BY <1>1
<1>3. \A i \in 1 .. n + 1 : i \in 1 .. n \/ i = n + 1 BY <1>2
<1>4. n + 1 \in 1 .. n + 1 /\ 1 .. n \subseteq 1 .. n + 1 BY <1>2
<1>5. Image(t) = Image(s) \cup {e} BY <1>2, <1>3, <1>4 DEF Image
<1> QED BY <1>1, <1>2, <1>5

LEMMA FittingIsOfKind ==
    ASSUME NEW els \in Seq(Elements), NEW sort
    PROVE  Image(Fitting(els, sort)) = OfKind(els, sort, Len(els))
<1> DEFINE take == CHOOSE f : Takes(f, els, sort, Len(els))
<1>0. Len(els) \in Nat OBVIOUS
<1>1. Fitting(els, sort) = take[Len(els)] BY DEF Fitting, Takes, Taken
<1>2. Takes(take, els, sort, Len(els))
  <2>1. \E f : Takes(f, els, sort, Len(els)) BY <1>0, TakeExists
  <2> QED BY <2>1, Zenon
<1> HIDE DEF take
<1> DEFINE T == {m \in Nat : m <= Len(els) => /\ take[m] \in Seq(Elements)
                                              /\ Image(take[m]) = OfKind(els, sort, m)}
<1>3. 0 \in T
  <2>1. take[0] = Taken(els, sort, 0, take[0 - 1]) BY <1>0, <1>2 DEF Takes
  <2>2. PICK nil : nil = << >> OBVIOUS
  <2>3. take[0] = nil BY <2>1, <2>2 DEF Taken
  <2>4. nil \in Seq(Elements) /\ DOMAIN nil = {} BY <2>2
  <2>5. Image(nil) = {} BY <2>4 DEF Image
  <2>6. OfKind(els, sort, 0) = {} BY DEF OfKind
  <2> QED BY <2>3, <2>4, <2>5, <2>6
<1>4. ASSUME NEW m \in Nat, m \in T PROVE m + 1 \in T
  <2> SUFFICES ASSUME m + 1 <= Len(els)
               PROVE  take[m + 1] \in Seq(Elements) /\ Image(take[m + 1]) = OfKind(els, sort, m + 1)
    OBVIOUS
  <2>1. PICK t : t = take[m] OBVIOUS
  <2>2. t \in Seq(Elements) /\ Image(t) = OfKind(els, sort, m) BY <1>0, <1>4, <2>1
  <2>3. m + 1 \in 0 .. Len(els) /\ m + 1 # 0 /\ (m + 1) - 1 = m BY <1>0
  <2>4. take[m + 1] = Taken(els, sort, m + 1, t) BY <1>2, <2>1, <2>3 DEF Takes
  <2>5. PICK e : e = els[m + 1] OBVIOUS
  <2>6. e \in Elements BY <1>0, <2>3, <2>5
  <2>7. (\A i \in 1 .. m + 1 : i \in 1 .. m \/ i = m + 1) /\ m + 1 \in 1 .. m + 1
        /\ 1 .. m \subseteq 1 .. m + 1
    OBVIOUS
  <2>8. CASE e.kind = sort
    <3>1. take[m + 1] = Append(t, e) BY <2>3, <2>4, <2>5, <2>8 DEF Taken
    <3>2. OfKind(els, sort, m + 1) = OfKind(els, sort, m) \cup {e}
      BY <2>5, <2>7, <2>8 DEF OfKind
    <3> QED BY <2>2, <2>6, <3>1, <3>2, ImageAppend
  <2>9. CASE e.kind # sort
    <3>1. take[m + 1] = t BY <2>3, <2>4, <2>5, <2>9 DEF Taken
    <3>2. OfKind(els, sort, m + 1) = OfKind(els, sort, m) BY <2>5, <2>7, <2>9 DEF OfKind
    <3> QED BY <2>2, <3>1, <3>2
  <2> QED BY <2>8, <2>9
<1>5. Nat \subseteq T
  <2> HIDE DEF T
  <2> QED BY <1>3, <1>4, SetInduction
<1> QED BY <1>0, <1>1, <1>5

LEMMA FileValue ==
    ASSUME ConfigInv, NEW sort, NEW key \in DOMAIN cfgs, NEW f \in FileNames, Has(files[f], key),
           cfgs[key] = files[f][key[1]][key[2]]
    PROVE  AsInFile(key, sort, files[f][key[1]][key[2]])
<1>1. PICK v : v = files[f][key[1]][key[2]] OBVIOUS
<1>2. v \in Value /\ v.kind # "slice" BY <1>1 DEF ConfigInv, FilesOK, IsFile, Has
<1>3. Scalar(sort, key, "default") = IF v.kind = sort THEN v.els[1].val ELSE Zero
  BY <1>1 DEF Scalar
<1>4. PICK els \in Seq(Elements) : els = v.els BY <1>2 DEF Value
<1>5. PICK array : array = Fitting(els, sort) OBVIOUS
<1>6. Array(sort, key, Def) = array BY <1>1, <1>2, <1>4, <1>5 DEF Array
<1>7. Image(array) = OfKind(els, sort, Len(els)) BY <1>5, FittingIsOfKind
<1>8. DOMAIN els = 1 .. Len(els) OBVIOUS
<1> DEFINE Vals(a) == {a[i].val : i \in DOMAIN a}
           ValsOf(e) == {e[i].val : i \in {j \in DOMAIN e : e[j].kind = sort}}
<1>9. Vals(array) = ValsOf(els)
  <2>1. Vals(array) = {e.val : e \in Image(array)} BY DEF Image
  <2>2. ValsOf(els) = {e.val : e \in OfKind(els, sort, Len(els))} BY <1>8 DEF OfKind
  <2> QED BY <1>7, <2>1, <2>2
<1>10. Vals(Array(sort, key, Def)) = ValsOf(v.els)
  <2> HIDE DEF Vals, ValsOf
  <2> QED BY <1>4, <1>6, <1>9
<1>11. AsInFile(key, sort, v) BY <1>3, <1>10, Zenon DEF AsInFile
<1> QED BY <1>1, <1>11

LEMMA InvIsCurrent == ASSUME ConfigInv PROVE ConfigCurrent
<1> SUFFICES ASSUME Running, loader.pc = "idle", ~pending, ~edited
             PROVE  /\ \A key \in (Sessions \X Names) \ own.keys, sort \in {"int64", "string"} :
                         KeyCurrent(key, sort)
                    /\ \A s \in Sessions \ own.sessions : SessionCurrent(s)
  BY DEF ConfigCurrent
<1>1. \A f \in FileNames : f <= NFiles BY ConfigAssumption DEF FileNames
<1>2. ASSUME NEW key \in Keys \ own.keys, NEW sort PROVE KeyCurrent(key, sort)
  <2>1. KeyAt(files, cfgs, NFiles, key) BY DEF ConfigInv, CfgsAt, Settled, KeyDone
  <2>2. PICK having : having = {f \in FileNames : HasKey(f, key)} OBVIOUS
  <2>3. having = KeyFrom(files, NFiles, key) BY <1>1, <2>2 DEF KeyFrom, Has, HasKey
  <2>4. CASE having = {}
    <3>1. key \notin DOMAIN cfgs BY <2>1, <2>3, <2>4 DEF KeyAt
    <3> QED BY <2>2, <2>4, <3>1 DEF KeyCurrent, Scalar, Array
  <2>5. CASE having # {}
    <3>1. PICK f \in having : /\ \A g \in having : g <= f
                              /\ key \in DOMAIN cfgs /\ cfgs[key] = files[f][key[1]][key[2]]
      BY <2>1, <2>3, <2>5 DEF KeyAt
    <3>2. f \in FileNames /\ Has(files[f], key) BY <2>3 DEF KeyFrom
    <3>3. AsInFile(key, sort, files[f][key[1]][key[2]]) BY <3>1, <3>2, FileValue
    <3> QED BY <2>2, <2>5, <3>1, <3>3 DEF KeyCurrent
  <2> QED BY <2>4, <2>5
<1>3. ASSUME NEW s \in Sessions \ own.sessions PROVE SessionCurrent(s)
  <2>1. SessionAt(files, sss, NFiles, s) BY DEF ConfigInv, SssAt, Settled, SessionDone
  <2>2. PICK having : having = {f \in FileNames : HasSession(f, s)} OBVIOUS
  <2>3. having = SessionFrom(files, NFiles, s)
    BY <1>1, <2>2 DEF SessionFrom, HasSess, HasSession
  <2>4. CASE having = {}
    <3>1. s \notin DOMAIN sss BY <2>1, <2>3, <2>4 DEF SessionAt
    <3> QED BY <2>2, <2>4, <3>1 DEF SessionCurrent, SessDecode
  <2>5. CASE having # {}
    <3>1. PICK f \in having : /\ \A g \in having : f <= g
                              /\ s \in DOMAIN sss /\ sss[s] = files[f][s]
      BY <2>1, <2>3, <2>5 DEF SessionAt
    <3> QED BY <2>2, <2>5, <3>1 DEF SessionCurrent, SessDecode
  <2> QED BY <2>4, <2>5
<1> QED BY <1>2, <1>3 DEF Keys

(* However edits, signals, half a reload and the program's own settings    *)
(* fell together, a loader at rest with no signal or change outstanding    *)
(* has left what the files hold (config.go:223,255,277).                   *)
THEOREM ConfigIsCurrent == ConfigSpec => []ConfigCurrent
<1>1. ConfigInv => ConfigCurrent BY InvIsCurrent
<1> QED BY <1>1, ConfigInvariant, PTL
=============================================================================
