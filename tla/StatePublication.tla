--------------------------- MODULE StatePublication ---------------------------
(***************************************************************************)
(* How the states of OS accounts reach their subscribers: the service's    *)
(* OsAccountSubscribeManager and, in every client process, OsAccount with  *)
(* its OsAccountEventListener.                                             *)
(*                                                                         *)
(* All the subscribers of a process share one listener, which the service  *)
(* knows with the union of their states.  SWITCHING and SWITCHED           *)
(* ("switch") go through a deque for each uid, emptied by a thread that    *)
(* ends when there is nothing left, so that they arrive in order.          *)
(* STOPPING and LOCKING ("stop") are handed to a thread for each listener, *)
(* and the publisher waits up to five seconds for the replies of the       *)
(* listeners with a handshake.  A listener in turn tells each subscriber   *)
(* in a thread and waits for their replies in another one.  The other      *)
(* states are "stop" without a handshake.                                  *)
(*                                                                         *)
(* subscribeRecordMutex_ makes every call of the service one step.  A call *)
(* of a client holds eventListenersMutex_ of its process from the change   *)
(* of subscriberAll_ to the answer of the service.  wait_for evaluates its *)
(* predicate once more when its time is over, so that a notification that  *)
(* is lost delays a return but does not change it.                         *)
(*                                                                         *)
(* A subscriber unsubscribes only when it has subscribed, and answers a    *)
(* handshake at most once.  Clients of the old version, which name one     *)
(* state instead of a set, are left out.                                   *)
(*                                                                         *)
(* Faults: "ipc" a call of a client that the service refuses or never      *)
(* gets, "send" a state that does not reach a listener that is alive.      *)
(***************************************************************************)
EXTENDS Integers, Sequences, FiniteSets, SequencesExt

CONSTANTS
    Process,    \* client processes; one that died may start again
    Uid,        \* of every process
    Listener,   \* OsAccountEventListener objects, each used once
    Owner,      \* the process of every listener
    Subscriber,
    Home,       \* the process of every subscriber
    States,     \* what every subscriber subscribes to
    Shakes,     \* the subscribers with a handshake
    Stop,       \* publications of "stop" states
    Budgets,    \* bounds on how often what happens
    Faults,     \* which steps may fail
    None        \* nothing

Uids == {Uid[p] : p \in Process}

ASSUME StatePublicationConstants ==
    /\ Owner \in [Listener -> Process] /\ Home \in [Subscriber -> Process]
    /\ DOMAIN Uid = Process /\ Shakes \subseteq Subscriber
    /\ States \in [Subscriber -> (SUBSET {"switch", "stop"}) \ {{}}]
    /\ Budgets \subseteq
          [calls : 0..255, switches : Nat, stops : Nat, deaths : Nat, crashes : Nat]
    /\ Faults \subseteq {"ipc", "send"}
    /\ IsFiniteSet(Listener)

\* OsAccountSubscribeInfo; a state for a listener; SwitchSubscribeInfo; the
\* call of a client.
Info == [states : SUBSET {"switch", "stop"}, shake : BOOLEAN]
Task == [to : Listener, n : Nat]
Deque == [count : 0..255, work : Seq(Task), thread : BOOLEAN, now : Seq(Task)]
Request == [op : {"subscribe", "unsubscribe"}, s : Subscriber, proxy : BOOLEAN,
            info : Info \cup {None}]

ASSUME NoneIsNothing == None \notin Listener \cup Info \cup Deque \cup Request

VARIABLES
    record,  \* subscribeRecords_: OsAccountSubscribeInfo of every listener
    deque,   \* switchRecordMap_: SwitchSubscribeInfo of every uid
    stray,   \* states with a thread whose SwitchSubscribeInfo is gone
    last,    \* number of the last "switch" state
    got,     \* the last one that every listener got (history)
    pub,     \* publications of "stop"
    queue,   \* size of the SafeQueue of every publication
    sent,    \* the thread of every publication and listener
    reply,   \* OsAccountStateReplyCallbackService, if there is one
    manager, \* listenerManager_ of every process
    used,    \* listeners that were made so far
    all,     \* subscriberAll_ of every listener
    call,    \* the call of a client that holds eventListenersMutex_
    dead,    \* listeners of processes that died
    notice,  \* those whose death recipient is still to be called
    restore, \* processes that have to hear of the restart of the service
    told,    \* the thread of every publication and subscriber
    waiting, \* listeners that wait for their subscribers
    early,   \* those whose wait was over before their subscribers (history)
    robbed,  \* listeners whose deque another one took along (history)
    strayed, \* those to whom a state was just being sent then (history)
    left     \* what is left of the budget

service == <<record, deque, stray, robbed, strayed>>
stop == <<pub, queue, sent, reply, told, waiting, early>>
client == <<manager, used, all, call, restore>>
fate == <<dead, notice>>
vars == <<service, last, got, stop, client, fate, left>>

Init ==
    /\ record = [l \in Listener |-> None] /\ deque = [u \in Uids |-> None]
    /\ stray = {} /\ last = 0 /\ got = [l \in Listener |-> 0]
    /\ pub = [k \in Stop |-> "new"] /\ queue = [k \in Stop |-> 0]
    /\ sent = [x \in Stop \X Listener |-> "none"]
    /\ reply = [x \in Stop \X Listener |-> "none"]
    /\ manager = [p \in Process |-> None] /\ used = {}
    /\ all = [l \in Listener |-> {}] /\ call = [l \in Listener |-> None]
    /\ dead = {} /\ notice = {} /\ restore = {}
    /\ told = [x \in Stop \X Subscriber |-> "none"] /\ waiting = {}
    /\ early = {} /\ robbed = {} /\ strayed = {} /\ left \in Budgets

\* One of what is bounded happens.
Spend(what) == left[what] > 0 /\ left' = [left EXCEPT ![what] = @ - 1]

UidOf(l) == Uid[Owner[l]]

\* GetTotalSubscribeInfo of a listener with the subscribers A.
TotalSubscribeInfo(A) ==
    [states |-> UNION {States[s] : s \in A}, shake |-> A \cap Shakes # {}]

Wants(l, state) == record[l] # None /\ state \in record[l].states

-----------------------------------------------------------------------------
(* Subscriptions in the service.                                           *)

\* SwitchSubscribeInfo(): count_ is an uint8_t and begins with 0.
NewDeque == [count |-> 0, work |-> <<>>, thread |-> FALSE, now |-> <<>>]

\* The deque of a uid with one more subscription.
Referenced(d) == IF d = None THEN NewDeque ELSE [d EXCEPT !.count = (@ + 1) % 256]

\* Mutant: the states of a listener that is known are not replaced.
SubscribeOnce(l, info) ==
    /\ record' = [record EXCEPT ![l] = IF @ # None THEN @ ELSE info]
    /\ deque' = IF "switch" \notin info.states THEN deque
                ELSE [deque EXCEPT ![UidOf(l)] = Referenced(@)]
    /\ UNCHANGED <<stray, robbed, strayed>>

\* A listener that is known keeps its information when the states are the
\* same; its uid is counted again all the same.
SubscribeOsAccount(l, info) ==
    /\ record' = [record EXCEPT ![l] =
                    IF @ # None /\ @.states = info.states THEN @ ELSE info]
    /\ deque' = IF "switch" \notin info.states THEN deque
                ELSE [deque EXCEPT ![UidOf(l)] = Referenced(@)]
    /\ UNCHANGED <<stray, robbed, strayed>>

\* RemoveSubscribeRecord: with the last reference the deque goes, and what is
\* in it; the state that is just being sent is on its way.
RemoveSubscribeRecord(l) ==
    LET d == deque[UidOf(l)]
        count == IF d.count = 0 THEN 0 ELSE d.count - 1
    IN  /\ record' = [record EXCEPT ![l] = None]
        /\ IF ~Wants(l, "switch") \/ d = None THEN UNCHANGED <<deque, stray, robbed, strayed>>
           ELSE IF count > 0
           THEN /\ deque' = [deque EXCEPT ![UidOf(l)].count = count]
                /\ UNCHANGED <<stray, robbed, strayed>>
           ELSE /\ deque' = [deque EXCEPT ![UidOf(l)] = None]
                /\ stray' = stray \cup Range(d.now)
                /\ robbed' = robbed \cup
                     {r \in Listener \ {l} : UidOf(r) = UidOf(l) /\ Wants(r, "switch")}
                /\ strayed' = strayed \cup ({w.to : w \in Range(d.now)} \ {l})

\* OsAccountSubscribeDeathRecipient.
OnRemoteDied(l) ==
    /\ l \in notice /\ notice' = notice \ {l}
    /\ RemoveSubscribeRecord(l)
    /\ UNCHANGED <<last, got, stop, client, dead, left>>

-----------------------------------------------------------------------------
(* "switch": SWITCHING and SWITCHED.                                       *)

\* ProductTask for each of the listeners ls.
ProductTasks(d, ls) ==
    IF d = None \/ ls = {} THEN d
    ELSE [d EXCEPT !.thread = TRUE,
                   !.work = @ \o [i \in 1..Cardinality(ls) |->
                                    [to |-> SetToSeq(ls)[i], n |-> last + 1]]]

PublishSwitch ==
    /\ Spend("switches") /\ last' = last + 1
    /\ deque' = [u \in Uids |->
          ProductTasks(deque[u], {l \in Listener : UidOf(l) = u /\ Wants(l, "switch")})]
    /\ UNCHANGED <<record, stray, robbed, strayed, got, stop, client, fate>>

\* Mutant: the newest state first.
ConsumerTaskNewest(u) ==
    LET d == deque[u]
    IN  /\ d # None /\ d.thread /\ d.now = <<>>
        /\ deque' = [deque EXCEPT ![u] =
              IF d.work = <<>> THEN [d EXCEPT !.thread = FALSE]
              ELSE [d EXCEPT !.now = <<Last(d.work)>>, !.work = Front(d.work)]]
        /\ UNCHANGED <<record, stray, robbed, strayed, last, got, stop, client, fate, left>>

\* The thread takes the oldest state, or ends.
ConsumerTask(u) ==
    LET d == deque[u]
    IN  /\ d # None /\ d.thread /\ d.now = <<>>
        /\ deque' = [deque EXCEPT ![u] =
              IF d.work = <<>> THEN [d EXCEPT !.thread = FALSE]
              ELSE [d EXCEPT !.now = <<Head(d.work)>>, !.work = Tail(d.work)]]
        /\ UNCHANGED <<record, stray, robbed, strayed, last, got, stop, client, fate, left>>

\* The listener gets the state, if it is alive.
Receive(w) == got' = IF w.to \in dead THEN got ELSE [got EXCEPT ![w.to] = w.n]

SendSwitch(u) ==
    /\ deque[u] # None /\ deque[u].now # <<>>
    /\ Receive(deque[u].now[1])
    /\ deque' = [deque EXCEPT ![u].now = <<>>]
    /\ UNCHANGED <<record, stray, robbed, strayed, last, stop, client, fate, left>>

SendStray(w) ==
    /\ w \in stray /\ stray' = stray \ {w}
    /\ Receive(w)
    /\ UNCHANGED <<record, deque, robbed, strayed, last, stop, client, fate, left>>

-----------------------------------------------------------------------------
(* "stop": STOPPING and LOCKING, in the service.                           *)

Publish(k) ==
    LET to == {l \in Listener : Wants(l, "stop")}
        shaken == {l \in to : record[l].shake}
    IN  /\ Spend("stops") /\ pub[k] = "new" /\ pub' = [pub EXCEPT ![k] = "waiting"]
        /\ queue' = [queue EXCEPT ![k] = Cardinality(shaken)]
        /\ sent' = [x \in Stop \X Listener |->
              IF x[1] = k /\ x[2] \in to THEN "task" ELSE sent[x]]
        /\ reply' = [x \in Stop \X Listener |->
              IF x[1] = k /\ x[2] \in shaken THEN "open" ELSE reply[x]]
        /\ UNCHANGED <<service, last, got, told, waiting, early, client, fate>>

\* OnComplete and ForceComplete of the reply: the first of them counts.
Complete(k, l) ==
    IF reply[<<k, l>>] # "open" THEN UNCHANGED <<reply, queue>>
    ELSE /\ reply' = [reply EXCEPT ![<<k, l>>] = "completed"]
         /\ queue' = [queue EXCEPT ![k] = @ - 1]

\* The listener starts a thread for every subscriber, and one to wait for
\* them; a state that cannot be sent is forced to be complete.
OnStateChanged(k, l) ==
    /\ sent[<<k, l>>] = "task"
    /\ \/ /\ l \notin dead
          /\ sent' = [sent EXCEPT ![<<k, l>>] = "called"]
          /\ told' = [x \in Stop \X Subscriber |->
                IF x[1] = k /\ x[2] \in all[l] /\ "stop" \in States[x[2]]
                THEN "spawned" ELSE told[x]]
          /\ waiting' = IF reply[<<k, l>>] = "none" THEN waiting
                        ELSE waiting \cup {<<k, l>>}
          /\ UNCHANGED <<reply, queue>>
       \/ /\ l \in dead \/ "send" \in Faults
          /\ sent' = [sent EXCEPT ![<<k, l>>] = "done"]
          /\ Complete(k, l)
          /\ UNCHANGED <<told, waiting>>
    /\ UNCHANGED <<pub, early, service, last, got, client, fate, left>>

\* Mutant: the reply is completed once more.
CallReturnsTwice(k, l) ==
    /\ sent[<<k, l>>] = "called" /\ sent' = [sent EXCEPT ![<<k, l>>] = "done"]
    /\ IF l \in dead
       THEN /\ reply' = [reply EXCEPT ![<<k, l>>] = IF @ = "open" THEN "completed" ELSE @]
            /\ queue' = [queue EXCEPT ![k] = IF @ > 0 THEN @ - 1 ELSE 0]
       ELSE UNCHANGED <<reply, queue>>
    /\ UNCHANGED <<pub, told, waiting, early, service, last, got, client, fate, left>>

\* The process may die after it got the state and before it says so.
CallReturns(k, l) ==
    /\ sent[<<k, l>>] = "called" /\ sent' = [sent EXCEPT ![<<k, l>>] = "done"]
    /\ IF l \in dead THEN Complete(k, l) ELSE UNCHANGED <<reply, queue>>
    /\ UNCHANGED <<pub, told, waiting, early, service, last, got, client, fate, left>>

\* WaitForAllReplies.
WaitForAllReplies(k) ==
    /\ pub[k] = "waiting"
    /\ pub' = [pub EXCEPT ![k] = IF queue[k] = 0 THEN "ok" ELSE "timeout"]
    /\ UNCHANGED <<queue, sent, reply, told, waiting, early, service, last, got, client, fate, left>>

-----------------------------------------------------------------------------
(* "stop" in a client.                                                     *)

\* The subscriber is counted in pendingCounter by its own thread.
NotifySubscriber(k, s) ==
    /\ told[<<k, s>>] = "spawned" /\ told' = [told EXCEPT ![<<k, s>>] = "working"]
    /\ UNCHANGED <<pub, queue, sent, reply, waiting, early, service, last, got, client, fate, left>>

\* The subscriber has done what it has to do, and says so.
SubscriberCompletes(k, s) ==
    /\ told[<<k, s>>] = "working" /\ told' = [told EXCEPT ![<<k, s>>] = "done"]
    /\ UNCHANGED <<pub, queue, sent, reply, waiting, early, service, last, got, client, fate, left>>

Told(k, l, where) ==
    {s \in Shakes : Home[s] = Owner[l] /\ told[<<k, s>>] = where}

Unfinished(k, l) == Told(k, l, "spawned") \cup Told(k, l, "working")

\* The wait of the listener ends when pendingCounter is 0, which it also is
\* before the first subscriber is counted, or after its own five seconds.  They
\* are not ordered with those of the publisher, which begin when all the
\* listeners have their thread: the wait may be over at any time.
WaitForComplete(k, l) ==
    /\ <<k, l>> \in waiting /\ waiting' = waiting \ {<<k, l>>}
    /\ early' = IF Unfinished(k, l) = {} THEN early ELSE early \cup {<<k, l>>}
    /\ Complete(k, l)
    /\ UNCHANGED <<pub, sent, told, service, last, got, client, fate, left>>

-----------------------------------------------------------------------------
(* Subscriptions in a client.                                              *)

\* OsAccount::SubscribeOsAccount inserts the subscriber and asks the service.
Subscribe(s) ==
    \E l \in Listener :
        /\ Owner[l] = Home[s] /\ call[l] = None /\ Spend("calls")
        /\ IF manager[Home[s]] = None THEN l \notin used ELSE l = manager[Home[s]]
        /\ manager' = [manager EXCEPT ![Home[s]] = l] /\ used' = used \cup {l}
        /\ all' = [all EXCEPT ![l] = @ \cup {s}]
        /\ call' = [call EXCEPT ![l] = [op |-> "subscribe", s |-> s, proxy |-> TRUE,
                                        info |-> TotalSubscribeInfo(all[l] \cup {s})]]
        /\ UNCHANGED <<restore, service, last, got, stop, fate>>

\* OsAccount::UnsubscribeOsAccount: the listener goes with its last subscriber.
Unsubscribe(s) ==
    LET l == manager[Home[s]]
    IN  /\ l # None /\ s \in all[l] /\ call[l] = None /\ Spend("calls")
        /\ all' = [all EXCEPT ![l] = @ \ {s}]
        /\ call' = [call EXCEPT ![l] = [op |-> "unsubscribe", s |-> s, proxy |-> TRUE,
              info |-> IF all[l] = {s} THEN None ELSE TotalSubscribeInfo(all[l] \ {s})]]
        /\ UNCHANGED <<manager, used, restore, service, last, got, stop, fate>>

\* The service does what it is asked; it may also be asked by a process that
\* has died since, whose death it then does not get to know.
CallServed(l) ==
    /\ call[l] # None /\ call[l].proxy
    /\ call' = [call EXCEPT ![l] = None]
    /\ IF call[l].info = None
       THEN /\ RemoveSubscribeRecord(l)
            /\ notice' = notice \ {l}
            /\ manager' = [p \in Process |-> IF manager[p] = l THEN None ELSE manager[p]]
       ELSE /\ SubscribeOsAccount(l, call[l].info)
            /\ UNCHANGED <<notice, manager>>
    /\ UNCHANGED <<used, all, restore, last, got, stop, dead, left>>

\* The service has restarted since the proxy was got, or refuses: the
\* subscriber is taken out, or put back.
CallFails(l) ==
    /\ call[l] # None /\ (~call[l].proxy \/ "ipc" \in Faults)
    /\ call' = [call EXCEPT ![l] = None]
    /\ all' = [all EXCEPT ![l] = IF l \in dead THEN {}
                                 ELSE IF call[l].op = "subscribe" THEN @ \ {call[l].s}
                                 ELSE @ \cup {call[l].s}]
    /\ UNCHANGED <<manager, used, restore, service, last, got, stop, fate, left>>

\* The client is told that the service has started again.  A failure of the
\* call is only logged, and left out here: the records would be missing.
RestoreListenerRecords(p) ==
    LET l == manager[p]
    IN  /\ p \in restore /\ restore' = restore \ {p}
        /\ \/ /\ l # None => all[l] = {}
              /\ UNCHANGED service
           \/ /\ l # None /\ all[l] # {}
              /\ SubscribeOsAccount(l, TotalSubscribeInfo(all[l]))
        /\ l # None => call[l] = None
        /\ UNCHANGED <<manager, used, all, call, last, got, stop, fate, left>>

-----------------------------------------------------------------------------
(* Deaths.                                                                 *)

\* A client dies, with its threads and all its listeners.
Die(p) ==
    LET gone == {l \in used \ dead : Owner[l] = p}
    IN  /\ gone # {} /\ Spend("deaths")
        /\ dead' = dead \cup gone
        /\ notice' = notice \cup {l \in gone : record[l] # None}
        /\ manager' = [manager EXCEPT ![p] = None]
        /\ all' = [l \in Listener |-> IF l \in gone THEN {} ELSE all[l]]
        /\ restore' = restore \ {p}
        /\ told' = [x \in Stop \X Subscriber |->
                      IF Home[x[2]] = p THEN "none" ELSE told[x]]
        /\ waiting' = {x \in waiting : x[2] \notin gone}
        /\ UNCHANGED <<used, call, pub, queue, sent, reply, early, service, last, got>>

\* The service dies and starts again.
Crash ==
    /\ Spend("crashes")
    /\ record' = [l \in Listener |-> None] /\ deque' = [u \in Uids |-> None]
    /\ stray' = {} /\ robbed' = {} /\ strayed' = {} /\ notice' = {}
    /\ pub' = [k \in Stop |-> IF pub[k] = "waiting" THEN "lost" ELSE pub[k]]
    /\ queue' = [k \in Stop |-> 0]
    /\ sent' = [x \in Stop \X Listener |-> IF sent[x] = "none" THEN "none" ELSE "done"]
    /\ reply' = [x \in Stop \X Listener |-> IF reply[x] = "none" THEN "none" ELSE "completed"]
    /\ restore' = {p \in Process : manager[p] # None}
    /\ call' = [l \in Listener |->
          IF call[l] = None \/ l \in dead THEN None ELSE [call[l] EXCEPT !.proxy = FALSE]]
    /\ UNCHANGED <<last, got, told, waiting, early, manager, used, all, dead>>

Next ==
    \/ PublishSwitch
    \/ \E u \in Uids : ConsumerTask(u) \/ SendSwitch(u)
    \/ \E w \in stray : SendStray(w)
    \/ \E k \in Stop : Publish(k) \/ WaitForAllReplies(k)
    \/ \E k \in Stop, l \in Listener :
          OnStateChanged(k, l) \/ CallReturns(k, l) \/ WaitForComplete(k, l)
    \/ \E k \in Stop, s \in Subscriber :
          NotifySubscriber(k, s) \/ SubscriberCompletes(k, s)
    \/ \E s \in Subscriber : Subscribe(s) \/ Unsubscribe(s)
    \/ \E l \in Listener : CallServed(l) \/ CallFails(l) \/ OnRemoteDied(l)
    \/ \E p \in Process : RestoreListenerRecords(p) \/ Die(p)
    \/ Crash

Spec == Init /\ [][Next]_vars

-----------------------------------------------------------------------------
TypeOK ==
    /\ record \in [Listener -> Info \cup {None}]
    /\ deque \in [Uids -> Deque \cup {None}]
    /\ stray \subseteq Task /\ robbed \subseteq Listener /\ strayed \subseteq Listener
    /\ last \in Nat /\ got \in [Listener -> Nat]
    /\ pub \in [Stop -> {"new", "waiting", "ok", "timeout", "lost"}]
    /\ queue \in [Stop -> Int]
    /\ sent \in [Stop \X Listener -> {"none", "task", "called", "done"}]
    /\ reply \in [Stop \X Listener -> {"none", "open", "completed"}]
    /\ told \in [Stop \X Subscriber -> {"none", "spawned", "working", "done"}]
    /\ waiting \subseteq Stop \X Listener /\ early \subseteq Stop \X Listener
    /\ manager \in [Process -> Listener \cup {None}]
    /\ used \subseteq Listener /\ all \in [Listener -> SUBSET Subscriber]
    /\ call \in [Listener -> Request \cup {None}]
    /\ dead \subseteq Listener /\ notice \subseteq Listener /\ restore \subseteq Process

\* Whoever has subscribed, and whose client has no call under way and knows of
\* every restart, is recorded in the service with all the states of the client,
\* and has a deque for the "switch" states.  The service erases a deque one
\* unsubscription too early when several listeners have the same uid (count_
\* begins with 0): the listeners that are left without one are the exception.
SubscribedIsRecorded ==
    \A p \in Process :
        LET l == manager[p]
        IN  l # None /\ call[l] = None /\ p \notin restore /\ all[l] # {} =>
              /\ record[l] # None
              /\ TotalSubscribeInfo(all[l]).states \subseteq record[l].states
              /\ Wants(l, "switch") /\ l \notin robbed => deque[Uid[p]] # None

\* "switch" states reach a listener in the order in which they were published,
\* whatever unsubscribes, dies or subscribes beside it, and none waits in a deque
\* without a thread (ConsumerTask ends while ProductTask adds).  The thread of a
\* deque that was erased still sends the state that it has taken out before: the
\* listener that was removed gets nothing after it.  When another listener of the
\* uid was removed, a new deque may overtake that thread: the listener that its
\* state is for is the exception.
SwitchServedInOrder ==
    [][/\ \A l \in Listener \ strayed : got'[l] >= got[l]
       /\ \A u \in Uids : deque[u] # None /\ deque[u].work # <<>> => deque[u].thread]_vars

\* When Publish answers ERR_OK, every subscriber with a handshake that was told
\* by a listener with a handshake has said that it is done, though listeners
\* and subscribers answer late, twice or never, and processes die.  A listener
\* completes all the same when its own five seconds are over, and when its
\* waiting thread overtakes the thread of a subscriber that is not counted yet:
\* the listeners that gave up in this way are the exception.
OkMeansDone ==
    \A k \in Stop, l \in Listener \ dead :
        pub[k] = "ok" /\ reply[<<k, l>>] # "none" /\ <<k, l>> \notin early =>
            Unfinished(k, l) = {}
===============================================================================
