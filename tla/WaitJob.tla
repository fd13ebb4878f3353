------------------------------- MODULE WaitJob -------------------------------
(***************************************************************************)
(* waitjob.go: a pool of at most ntask goroutines.  One goroutine pushes   *)
(* the jobs and then calls Wait; workers are started as the job channel    *)
(* fills up; errors go through a channel of their own to a collector.      *)
(* With quick_cancel the first error stops the workers.                    *)
(***************************************************************************)
EXTENDS Naturals, Sequences

CONSTANTS NJobs,   \* the number of jobs pushed
          NTask    \* ntask: the most workers, and the capacity of both channels

ASSUME WaitJobAssumption == NJobs \in Nat /\ NTask \in Nat \ {0}

Jobs == 1 .. NJobs
Workers == 1 .. NTask

VARIABLES quick,      \* quick_cancel
          ch, errch,  \* the job and the error channel
          left,       \* left_ntask: workers that may still be started
          cancel,     \* cancel_ch
          pusher,     \* the goroutine that calls Push and Wait: [pc, job]
          worker,     \* the routine goroutines: [pc, job]
          collector,  \* the err_routine goroutine
          epara,      \* the errors collected
          runs,       \* how often fn was called on each job
          failed      \* the jobs fn returned an error for

vars == <<quick, ch, errch, left, cancel, pusher, worker, collector, epara, runs, failed>>

Cancelled == quick /\ cancel # 0

Push1(c, x) == [c EXCEPT !.buf = Append(@, x)]
Pop(c) == [c EXCEPT !.buf = Tail(@)]
Drained(c) == c.closed /\ c.buf = << >>
-----------------------------------------------------------------------------
(* WaitJobCreate starts the first worker and the collector.                *)
Init == /\ quick \in BOOLEAN
        /\ ch = [buf |-> << >>, closed |-> FALSE]
        /\ errch = [buf |-> << >>, closed |-> FALSE]
        /\ left = NTask - 1
        /\ cancel = 0
        /\ pusher = [pc |-> "check", job |-> 1]
        /\ worker = [w \in Workers |-> [pc |-> IF w = 1 THEN "recv" ELSE "off", job |-> 0]]
        /\ collector = "on"
        /\ epara = << >>
        /\ runs = [j \in Jobs |-> 0]
        /\ failed = {}
-----------------------------------------------------------------------------
(* Push: a cancelled pool takes no job; ...                                *)
PushCheck ==
    /\ pusher.pc = "check" /\ pusher.job \in Jobs
    /\ pusher' = IF Cancelled THEN [pusher EXCEPT !.job = @ + 1]
                              ELSE [pusher EXCEPT !.pc = "grow"]
    /\ UNCHANGED <<quick, ch, errch, left, cancel, worker, collector, epara, runs, failed>>

(* Seeded fault (TypeOK): a worker is started whenever jobs are waiting.   *)
PushGrowUnbounded ==
    /\ pusher.pc = "grow"
    /\ pusher' = [pusher EXCEPT !.pc = "send"]
    /\ IF ch.buf # << >> THEN left' = left - 1 ELSE UNCHANGED left
    /\ UNCHANGED <<quick, ch, errch, cancel, worker, collector, epara, runs, failed>>

(* ... jobs already waiting start another worker, if any is left; ...      *)
PushGrow ==
    /\ pusher.pc = "grow"
    /\ pusher' = [pusher EXCEPT !.pc = "send"]
    /\ IF left > 0 /\ ch.buf # << >>
       THEN /\ left' = left - 1
            /\ worker' = [worker EXCEPT ![NTask - left + 1].pc = "recv"]
       ELSE UNCHANGED <<left, worker>>
    /\ UNCHANGED <<quick, ch, errch, cancel, collector, epara, runs, failed>>

(* ... and the job is sent, which blocks while the channel is full.        *)
PushSend ==
    /\ pusher.pc = "send"
    /\ Len(ch.buf) < NTask
    /\ ch' = Push1(ch, pusher.job)
    /\ pusher' = [pc |-> "check", job |-> pusher.job + 1]
    /\ UNCHANGED <<quick, errch, left, cancel, worker, collector, epara, runs, failed>>

(* Seeded fault (EndsOrStranded): Wait leaves the job channel open.        *)
WaitWithoutClose ==
    /\ pusher.pc = "check" /\ pusher.job \notin Jobs
    /\ pusher' = [pusher EXCEPT !.pc = "wg"]
    /\ UNCHANGED <<quick, ch, errch, left, cancel, worker, collector, epara, runs, failed>>

(* Wait: close the job channel, wait for the workers, close the error      *)
(* channel, wait for the collector.                                        *)
WaitClose ==
    /\ pusher.pc = "check" /\ pusher.job \notin Jobs
    /\ ch' = [ch EXCEPT !.closed = TRUE]
    /\ pusher' = [pusher EXCEPT !.pc = "wg"]
    /\ UNCHANGED <<quick, errch, left, cancel, worker, collector, epara, runs, failed>>

(* Seeded fault (PoolSpec): the error channel is closed without wg.Wait.   *)
WaitNoWorkers ==
    /\ pusher.pc = "wg"
    /\ errch' = [errch EXCEPT !.closed = TRUE]
    /\ pusher' = [pusher EXCEPT !.pc = "errwg"]
    /\ UNCHANGED <<quick, ch, left, cancel, worker, collector, epara, runs, failed>>

WaitWorkers ==
    /\ pusher.pc = "wg"
    /\ \A w \in Workers : worker[w].pc \in {"off", "gone"}
    /\ errch' = [errch EXCEPT !.closed = TRUE]
    /\ pusher' = [pusher EXCEPT !.pc = "errwg"]
    /\ UNCHANGED <<quick, ch, left, cancel, worker, collector, epara, runs, failed>>

WaitCollector ==
    /\ pusher.pc = "errwg"
    /\ collector = "gone"
    /\ pusher' = [pusher EXCEPT !.pc = "done"]
    /\ UNCHANGED <<quick, ch, errch, left, cancel, worker, collector, epara, runs, failed>>
-----------------------------------------------------------------------------
(* routine: take a job; a closed channel ends the worker, ...              *)
Take(w) ==
    /\ worker[w].pc = "recv"
    /\ \/ /\ ch.buf # << >>
          /\ worker' = [worker EXCEPT ![w] = [pc |-> "got", job |-> Head(ch.buf)]]
          /\ ch' = Pop(ch)
       \/ /\ Drained(ch)
          /\ worker' = [worker EXCEPT ![w].pc = "gone"]
          /\ UNCHANGED ch
    /\ UNCHANGED <<quick, errch, left, cancel, pusher, collector, epara, runs, failed>>

(* ... and so does a cancel seen after the receive: the job is dropped.    *)
CheckCancel(w) ==
    /\ worker[w].pc = "got"
    /\ worker' = [worker EXCEPT ![w].pc = IF Cancelled THEN "gone" ELSE "run"]
    /\ UNCHANGED <<quick, ch, errch, left, cancel, pusher, collector, epara, runs, failed>>

Execute(w) ==
    LET j == worker[w].job IN
    /\ worker[w].pc = "run"
    /\ runs' = [runs EXCEPT ![j] = @ + 1]
    /\ \/ worker' = [worker EXCEPT ![w].pc = "recv"] /\ UNCHANGED failed
       \/ worker' = [worker EXCEPT ![w].pc = "report"] /\ failed' = failed \cup {j}
    /\ UNCHANGED <<quick, ch, errch, left, cancel, pusher, collector, epara>>

(* Seeded fault (ErrorsConserved): a full error channel drops the error.   *)
ReportErrorOrDrop(w) ==
    /\ worker[w].pc = "report"
    /\ errch' = IF Len(errch.buf) < NTask THEN Push1(errch, worker[w].job) ELSE errch
    /\ worker' = [worker EXCEPT ![w].pc = IF quick THEN "cancel" ELSE "recv"]
    /\ UNCHANGED <<quick, ch, left, cancel, pusher, collector, epara, runs, failed>>


ReportError(w) ==
    /\ worker[w].pc = "report"
    /\ Len(errch.buf) < NTask
    /\ errch' = Push1(errch, worker[w].job)
    /\ worker' = [worker EXCEPT ![w].pc = IF quick THEN "cancel" ELSE "recv"]
    /\ UNCHANGED <<quick, ch, left, cancel, pusher, collector, epara, runs, failed>>

CancelAll(w) ==
    /\ worker[w].pc = "cancel"
    /\ cancel' = cancel + 1
    /\ worker' = [worker EXCEPT ![w].pc = "gone"]
    /\ UNCHANGED <<quick, ch, errch, left, pusher, collector, epara, runs, failed>>

(* err_routine                                                             *)
Collect ==
    /\ collector = "on"
    /\ \/ /\ errch.buf # << >>
          /\ epara' = Append(epara, Head(errch.buf))
          /\ errch' = Pop(errch)
          /\ UNCHANGED collector
       \/ /\ Drained(errch)
          /\ collector' = "gone"
          /\ UNCHANGED <<errch, epara>>
    /\ UNCHANGED <<quick, ch, left, cancel, pusher, worker, runs, failed>>
-----------------------------------------------------------------------------
Pusher == PushCheck \/ PushGrow \/ PushSend \/ WaitClose \/ WaitWorkers \/ WaitCollector
Worker(w) == Take(w) \/ CheckCancel(w) \/ Execute(w) \/ ReportError(w) \/ CancelAll(w)

Next == Pusher \/ Collect \/ \E w \in Workers : Worker(w)

(* fn returns, and goroutines that can move do.                            *)
Fairness == WF_vars(Pusher) /\ WF_vars(Collect) /\ \A w \in Workers : WF_vars(Worker(w))

Spec == Init /\ [][Next]_vars /\ Fairness
-----------------------------------------------------------------------------
(* Every variable has its type; the channels never exceed their capacity.  *)
TypeOK ==
    /\ quick \in BOOLEAN
    /\ ch \in [buf : Seq(Jobs), closed : BOOLEAN] /\ Len(ch.buf) <= NTask
    /\ errch \in [buf : Seq(Jobs), closed : BOOLEAN] /\ Len(errch.buf) <= NTask
    /\ left \in 0 .. NTask - 1
    /\ cancel \in 0 .. NTask
    /\ pusher \in [pc : {"check", "grow", "send", "wg", "errwg", "done"}, job : 1 .. NJobs + 1]
    /\ worker \in [Workers -> [pc : {"off", "recv", "got", "run", "report", "cancel", "gone"},
                               job : 0 .. NJobs]]
    /\ collector \in {"on", "gone"}
    /\ epara \in Seq(Jobs)
    /\ runs \in [Jobs -> Nat]
    /\ failed \subseteq Jobs

Range1(s) == {s[i] : i \in DOMAIN s}

(* Every error raised is on its way to the caller in exactly one place:    *)
(* with its worker, in the error channel, or collected.                    *)
ErrorsConserved ==
    LET held == {worker[w].job : w \in {v \in Workers : worker[v].pc = "report"}}
        sent == errch.buf \o epara
    IN  /\ failed = held \cup Range1(sent)
        /\ held \cap Range1(sent) = {}
        /\ \A i, j \in DOMAIN sent : sent[i] = sent[j] => i = j

(* The pool ends, except that with quick_cancel a Push may hang for ever:  *)
(* it passed its check before the cancel, every worker is gone and the     *)
(* channel is full (waitjob.go:25-36, 48-66).                              *)
Stranded == /\ Cancelled
            /\ pusher.pc = "send"
            /\ Len(ch.buf) = NTask
            /\ \A w \in Workers : worker[w].pc \in {"off", "gone"}

EndsOrStranded == <>(pusher.pc = "done" \/ Stranded)

(* The pool implements the abstract one.                                   *)
Status(j) == CASE runs[j] = 0 -> "todo"
               [] runs[j] = 1 -> IF j \in failed THEN "failed" ELSE "ok"
               [] OTHER -> "repeated"

Pool == INSTANCE JobPool WITH
           status <- [j \in Jobs |-> Status(j)],
           returned <- pusher.pc = "done",
           reported <- IF pusher.pc = "done" THEN Range1(epara) ELSE {}

PoolSpec == Pool!PoolSpec
=============================================================================
