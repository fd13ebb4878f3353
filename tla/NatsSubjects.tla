---------------------------- MODULE NatsSubjects -----------------------------
(***************************************************************************)
(* Service discovery in natssvr.go and request.go.  Every service          *)
(* subscribes to its subjects; a monitor asks the NATS servers each second *)
(* which subscriptions there are and replaces the list the publishers look *)
(* at, and what nobody seems to have subscribed to is refused.             *)
(*                                                                         *)
(* A subject is a sequence of tokens.                                      *)
(***************************************************************************)
EXTENDS Naturals, Sequences, FiniteSets

CONSTANTS Names,     \* names of services (svrname), the modules of requests
          Marks,     \* marks of processes (svrmark), one for each of the services
          NameOf,    \* [Marks -> Names]
          Methods,   \* methods and events of the modules
          Servers,   \* NATS servers: process p is connected to ServerOf[p]
          Monitors,  \* processes that are configured with mservers
          ServerOf,  \* [Marks -> Servers]
          Number     \* a channel sequence or a call number

(* No service is called by the wildcard of NATS.                           *)
ASSUME SubjectsAssumption == NameOf \in [Marks -> Names] /\ ServerOf \in [Marks -> Servers]
                      /\ Monitors \subseteq Marks /\ "*" \notin Names

VARIABLES subs,      \* process -> its subscriptions
          known,     \* process -> its list of services, once it has one
          fetch      \* process -> the subscriptions its monitor has collected

subjVars == <<subs, known, fetch>>
-----------------------------------------------------------------------------
(* natsSubSpec, in its order: messages and requests to the service and to  *)
(* this process, and replies.                                              *)
SubSpec(p) ==
    LET n == NameOf[p] IN
    << <<"req", n, "*">>, <<"req", n, "*", "*", "*">>,
       <<"req", p, "*">>, <<"req", p, "*", "*", "*">>, <<"rsp", p, "*">> >>
Subscribed(p) == {i \in 1..5 : SubSpec(p)[i] \in subs[p]}

(* The subjects publishers make: PubMsg, PubByChannel and PubWithResponse, *)
(* the replies natsHandler sends, and PubEvent.                            *)
MsgSubject(mod, cmd) == <<"req", mod, cmd>>
CallSubject(mod, cmd, p) == <<"req", mod, cmd, p, Number>>
ReplySubject(call) == <<"rsp", call[4], call[5]>>
EventSubject(mod, ev) == <<"evt", mod, ev>>

(* MakeSubjs: a subscription that starts with a minus is listed as not     *)
(* there (no service here makes one), and what follows a colon is cut.     *)
MakeSubjs(ss) == [s \in ss |-> TRUE]

Starred(subj, i) == [j \in DOMAIN subj |-> IF j >= i THEN "*" ELSE subj[j]]

(* Seeded fault (SubscribedIsServed): only the last token may be a star.   *)
CheckSubjLastOnly(m, subj) ==
    LET hits == {i \in {Len(subj), Len(subj) + 1} : Starred(subj, i) \in DOMAIN m}
    IN hits # {} /\ m[Starred(subj, CHOOSE i \in hits : \A j \in hits : i >= j)]

(* CheckSubj: the subject itself, then with more and more of its last      *)
(* tokens replaced by a star; the first one listed decides.                *)
CheckSubj(m, subj) ==
    LET hits == {i \in 2..(Len(subj) + 1) : Starred(subj, i) \in DOMAIN m}
    IN hits # {} /\ m[Starred(subj, CHOOSE i \in hits : \A j \in hits : i >= j)]

CheckServiceSubscriptions(p, subj) == known[p].ready /\ CheckSubj(known[p].subjs, subj)
-----------------------------------------------------------------------------
Unready == [ready |-> FALSE, subjs |-> MakeSubjs({})]
Waiting == [pc |-> "wait", left |-> {}, ss |-> {}]

SubjInit == /\ subs = [p \in Marks |-> {}]
            /\ known = [p \in Marks |-> Unready]
            /\ fetch = [p \in Marks |-> Waiting]

NatsSubSpec(p) ==
    /\ Cardinality(Subscribed(p)) < 5
    /\ subs' = [subs EXCEPT ![p] = @ \cup {SubSpec(p)[Cardinality(Subscribed(p)) + 1]}]
    /\ UNCHANGED <<known, fetch>>

SubEventHandle(p, mod, ev) == /\ subs' = [subs EXCEPT ![p] = @ \cup {EventSubject(mod, ev)}]
                              /\ UNCHANGED <<known, fetch>>

(* A process ends: its subscriptions go with its connection.               *)
ProcessEnds(p) == /\ subs' = [subs EXCEPT ![p] = {}]
                  /\ known' = [known EXCEPT ![p] = Unready]
                  /\ fetch' = [fetch EXCEPT ![p] = Waiting]

(* The monitor, where there is one (without it nothing is ever published), *)
(* runs behind natsSubSpec and then every second.  It asks each            *)
(* server for its connections, and if that works for its routes to the     *)
(* others; what fails or does not parse is left out; the list is replaced  *)
(* by what was found.                                                      *)
FetchStart(p) ==
    /\ p \in Monitors
    /\ Subscribed(p) = 1..5 /\ fetch[p].pc = "wait"
    /\ fetch' = [fetch EXCEPT ![p] = [pc |-> "ask", left |-> Servers, ss |-> {}]]
    /\ UNCHANGED <<subs, known>>

SubsAt(ss) == UNION {subs[q] : q \in {q \in Marks : ServerOf[q] \in ss}}

FetchAsk(p) ==
    /\ fetch[p].pc = "ask"
    /\ \E s \in fetch[p].left : \E seen \in {{}, {s}, Servers \ {s}, Servers} :
         fetch' = [fetch EXCEPT ![p].left = @ \ {s}, ![p].ss = @ \cup SubsAt(seen)]
    /\ UNCHANGED <<subs, known>>

FetchDone(p) ==
    /\ fetch[p].pc = "ask" /\ fetch[p].left = {}
    /\ known' = [known EXCEPT ![p] = [ready |-> TRUE, subjs |-> MakeSubjs(fetch[p].ss)]]
    /\ fetch' = [fetch EXCEPT ![p] = Waiting]
    /\ UNCHANGED subs

SubjNext == \E p \in Marks :
    \/ NatsSubSpec(p) \/ ProcessEnds(p) \/ FetchStart(p) \/ FetchAsk(p) \/ FetchDone(p)
    \/ \E mod \in Names, ev \in Methods : SubEventHandle(p, mod, ev)

SubjSpec == SubjInit /\ [][SubjNext]_subjVars
-----------------------------------------------------------------------------
(* How NATS itself matches a subscription (a star is any one token).       *)
Matches(sub, subj) == /\ Len(sub) = Len(subj)
                      /\ \A i \in DOMAIN sub : sub[i] \in {"*", subj[i]}

Subjects == {MsgSubject(t, c) : t \in Names \cup Marks, c \in Methods}
       \cup {CallSubject(t, c, p) : t \in Names \cup Marks, c \in Methods, p \in Marks}
       \cup {ReplySubject(CallSubject(n, c, p)) : n \in Names, c \in Methods, p \in Marks}
       \cup {EventSubject(n, c) : n \in Names, c \in Methods}

(* What a publisher's list lets through is, for every kind of subject the  *)
(* library makes, exactly what NATS would deliver to one of the            *)
(* subscriptions the monitor saw: no request to a service that was seen is *)
(* refused, and none is queued for a subject nobody had                    *)
(* (natssvr.go:289,508, request.go:225).                                   *)
SubscribedIsServed ==
    \A p \in Marks : known[p].ready =>
        \A subj \in Subjects :
            CheckServiceSubscriptions(p, subj)
                <=> \E s \in DOMAIN known[p].subjs : Matches(s, subj)
=============================================================================
