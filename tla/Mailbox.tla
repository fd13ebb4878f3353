------------------------------- MODULE Mailbox -------------------------------
(***************************************************************************)
(* What a set of mailboxes promises to the goroutines that push into them  *)
(* and to the consumer that drains them, with no goroutine, sequence       *)
(* number or registry in sight.  Module Channel implements it.             *)
(***************************************************************************)
EXTENDS Naturals, Sequences

CONSTANTS Boxes,      \* the mailboxes
          Capacity    \* how many letters one mailbox can hold

VARIABLES stage,      \* [Boxes -> {"none", "open", "closing", "closed"}]
          queue       \* [Boxes -> sequences of letters]

boxVars == <<stage, queue>>

BoxInit == /\ stage = [b \in Boxes |-> "none"]
           /\ queue = [b \in Boxes |-> << >>]

Create(b) == /\ stage[b] = "none"
             /\ stage' = [stage EXCEPT ![b] = "open"]
             /\ UNCHANGED queue

(* A letter is appended only while there is room and the queue is not      *)
(* closed; in every other case the push leaves the mailbox alone.          *)
Accept(b) == /\ stage[b] \in {"open", "closing"}
             /\ Len(queue[b]) < Capacity
             /\ Len(queue'[b]) = Len(queue[b]) + 1
             /\ LET letter == queue'[b][Len(queue'[b])]
                IN  queue' = [queue EXCEPT ![b] = Append(@, letter)]
             /\ UNCHANGED stage

Take(b) == /\ queue[b] # << >>
           /\ queue' = [queue EXCEPT ![b] = Tail(@)]
           /\ UNCHANGED stage

BeginClose(b) == /\ stage[b] = "open"
                 /\ stage' = [stage EXCEPT ![b] = "closing"]
                 /\ UNCHANGED queue

EndClose(b) == /\ stage[b] = "closing"
               /\ stage' = [stage EXCEPT ![b] = "closed"]
               /\ UNCHANGED queue

BoxNext == \E b \in Boxes :
              Create(b) \/ Accept(b) \/ Take(b) \/ BeginClose(b) \/ EndClose(b)

(* A close that began ends, and what was queued is taken.                  *)
BoxFairness == \A b \in Boxes : WF_boxVars(EndClose(b)) /\ WF_boxVars(Take(b))

BoxSpec == BoxInit /\ [][BoxNext]_boxVars /\ BoxFairness
=============================================================================
