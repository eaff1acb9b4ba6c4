------------------------ MODULE StatePublication_proof ------------------------
(***************************************************************************)
(* Theorems about StatePublication, for any processes, uids, listeners and *)
(* subscribers, any publications, any number of calls, deaths and crashes  *)
(* and any faults.                                                         *)
(***************************************************************************)
EXTENDS StatePublication, TLAPS, FiniteSetTheorems, SequenceTheorems

\* A process that is alive has one listener that the service may know.
Managed ==
    /\ \A p \in Process :
           manager[p] # None => Owner[manager[p]] = p /\ manager[p] \in used \ dead
    /\ dead \subseteq used /\ notice \subseteq dead
    /\ \A l \in Listener :
           /\ record[l] # None \/ call[l] # None \/ all[l] # {} => l \in used
           /\ (record[l] # None \/ call[l] # None) /\ l \notin dead
              => manager[Owner[l]] = l
           /\ \A s \in all[l] : Home[s] = Owner[l]
           /\ call[l] # None => Home[call[l].s] = Owner[l]

\* What a listener that is not served yet still has to have in the service.
Base(l) == IF call[l] = None THEN all[l]
           ELSE IF call[l].op = "subscribe" THEN all[l] \ {call[l].s}
           ELSE all[l] \cup {call[l].s}

Asked ==
    \A l \in Listener \ dead :
        call[l] # None =>
            call[l].info = IF all[l] = {} THEN None ELSE TotalSubscribeInfo(all[l])

\* The service knows listener l with the states of the subscribers A.
Knows(l, A) ==
    A # {} => /\ record[l] # None
              /\ TotalSubscribeInfo(A).states \subseteq record[l].states

Covered ==
    \A p \in Process :
        manager[p] # None /\ p \notin restore => Knows(manager[p], Base(manager[p]))

Served ==
    \A l \in Listener :
        Wants(l, "switch") /\ l \notin robbed => deque[UidOf(l)] # None

\* What a deque holds is newer than what its listeners got, and in order.
Newer(d) ==
    /\ Len(d.now) <= 1
    /\ d.work # <<>> => d.thread
    /\ \A i \in 1..Len(d.work) :
           /\ d.work[i].n <= last /\ d.work[i].n > got[d.work[i].to]
           /\ \A w \in stray : w.to = d.work[i].to => w.n < d.work[i].n
           /\ \A j \in 1..(i - 1) : d.work[j].to = d.work[i].to => d.work[j].n < d.work[i].n
           /\ d.now # <<>> /\ d.now[1].to = d.work[i].to => d.now[1].n < d.work[i].n
    /\ d.now # <<>> =>
           /\ d.now[1].n <= last /\ d.now[1].n > got[d.now[1].to]
           /\ \A w \in stray : w.to = d.now[1].to => w.n < d.now[1].n

\* A deque holds the states of the listeners of its uid only.
Own(u, d) ==
    /\ \A i \in 1..Len(d.work) : UidOf(d.work[i].to) = u
    /\ d.now # <<>> => UidOf(d.now[1].to) = u

Ordered ==
    /\ \A l \in Listener : got[l] <= last
    /\ \A w \in stray : w.n <= last
    /\ \A u \in Uids : deque[u] # None => Newer(deque[u]) /\ Own(u, deque[u])

\* The replies that publication k waits for.
Open(k) == {l \in Listener : reply[<<k, l>>] = "open"}

Counted ==
    \A k \in Stop :
        /\ pub[k] = "waiting" => queue[k] = Cardinality(Open(k))
        /\ pub[k] = "ok" => Open(k) = {}

\* A publication that was not made has no threads; one that was has one for a
\* listener of each process that is alive, which tells the subscribers.
Unmade(k) ==
    pub[k] = "new" => /\ \A l \in Listener : sent[<<k, l>>] = "none"
                      /\ \A s \in Subscriber : told[<<k, s>>] = "none"

Handed(k) ==
    \A l \in Listener :
        /\ reply[<<k, l>>] # "none" => sent[<<k, l>>] # "none"
        /\ sent[<<k, l>>] # "none" => l \in used
        /\ sent[<<k, l>>] = "task" => reply[<<k, l>>] # "completed"
        /\ <<k, l>> \in waiting => sent[<<k, l>>] \in {"called", "done"}

OneEach(k) ==
    \A l, m \in Listener \ dead :
        sent[<<k, l>>] # "none" /\ sent[<<k, m>>] # "none" /\ Owner[l] = Owner[m] => l = m

Telling(k) ==
    \A s \in Subscriber :
        told[<<k, s>>] # "none" =>
            \E l \in Listener \ dead :
                Owner[l] = Home[s] /\ sent[<<k, l>>] \in {"called", "done"}

Threads == \A k \in Stop : Unmade(k) /\ Handed(k) /\ OneEach(k) /\ Telling(k)

\* The subscribers of a listener whose reply is complete are done, unless it
\* gave up waiting for them, or the publisher gave up waiting for it.
Finished ==
    \A k \in Stop, l \in Listener \ dead :
        /\ reply[<<k, l>>] = "completed" /\ pub[k] \in {"waiting", "ok"}
        /\ <<k, l>> \notin early
        => \A s \in Shakes : Home[s] = Owner[l] => told[<<k, s>>] \in {"none", "done"}

IInv == /\ TypeOK /\ Managed
        /\ Asked /\ Covered /\ Served
        /\ Ordered
        /\ Counted /\ Threads /\ Finished

-----------------------------------------------------------------------------
\* The types of what the service, a publication and the clients keep.
ServiceTypes ==
    /\ record \in [Listener -> Info \cup {None}]
    /\ deque \in [Uids -> Deque \cup {None}]
    /\ stray \subseteq Task /\ robbed \subseteq Listener /\ strayed \subseteq Listener
    /\ last \in Nat /\ got \in [Listener -> Nat]

StopTypes ==
    /\ pub \in [Stop -> {"new", "waiting", "ok", "timeout", "lost"}]
    /\ queue \in [Stop -> Int]
    /\ sent \in [Stop \X Listener -> {"none", "task", "called", "done"}]
    /\ reply \in [Stop \X Listener -> {"none", "open", "completed"}]
    /\ told \in [Stop \X Subscriber -> {"none", "spawned", "working", "done"}]
    /\ waiting \subseteq Stop \X Listener /\ early \subseteq Stop \X Listener

ClientTypes ==
    /\ manager \in [Process -> Listener \cup {None}]
    /\ used \subseteq Listener /\ all \in [Listener -> SUBSET Subscriber]
    /\ call \in [Listener -> Request \cup {None}]
    /\ dead \subseteq Listener /\ notice \subseteq Listener /\ restore \subseteq Process

\* The three parts of the invariant, by what they are about.
ServiceInv == ServiceTypes /\ Served /\ Ordered
StopInv == StopTypes /\ Counted /\ Threads /\ Finished
ClientInv == ClientTypes /\ Managed /\ Asked /\ Covered

LEMMA InParts == IInv <=> ServiceInv /\ StopInv /\ ClientInv
BY DEF IInv, TypeOK, ServiceTypes, StopTypes, ClientTypes, ServiceInv, StopInv, ClientInv

LEMMA InPartsNext == IInv' <=> ServiceInv' /\ StopInv' /\ ClientInv'
BY DEF IInv, TypeOK, ServiceTypes, StopTypes, ClientTypes, ServiceInv, StopInv, ClientInv

-----------------------------------------------------------------------------
(* Operators.                                                              *)

LEMMA Owners ==
    /\ \A l \in Listener : Owner[l] \in Process /\ UidOf(l) \in Uids
    /\ \A s \in Subscriber : Home[s] \in Process
    /\ \A p \in Process : Uid[p] \in Uids
BY StatePublicationConstants DEF UidOf, Uids

LEMMA Infos ==
    ASSUME NEW A \in SUBSET Subscriber
    PROVE  /\ TotalSubscribeInfo(A) \in Info
           /\ TotalSubscribeInfo(A).states = UNION {States[s] : s \in A}
<1>1. \A s \in Subscriber : States[s] \subseteq {"switch", "stop"}
  BY StatePublicationConstants
<1>2. UNION {States[s] : s \in A} \subseteq {"switch", "stop"}
  BY <1>1
<1> QED BY <1>2 DEF TotalSubscribeInfo, Info

\* Fewer subscribers want fewer states.
LEMMA FewerStates ==
    ASSUME NEW A \in SUBSET Subscriber, NEW B \in SUBSET A
    PROVE  TotalSubscribeInfo(B).states \subseteq TotalSubscribeInfo(A).states
BY Infos

\* SetToSeq numbers a finite set.
LEMMA Numbered ==
    ASSUME NEW S, IsFiniteSet(S)
    PROVE  /\ Cardinality(S) \in Nat
           /\ SetToSeq(S) \in [1..Cardinality(S) -> S]
           /\ \A i, j \in 1..Cardinality(S) : SetToSeq(S)[i] = SetToSeq(S)[j] => i = j
<1>1. PICK n \in Nat : ExistsBijection(1..n, S)
  BY FS_NatBijection
<1>2. Cardinality(S) = n
  BY <1>1, FS_CountingElements
<1>3. \E f \in [1..n -> S] : IsInjective(f)
  BY <1>1 DEF ExistsBijection, Bijection, Injection, IsInjective
<1> QED BY <1>2, <1>3 DEF SetToSeq, IsInjective

\* The parts of a deque.
LEMMA DequeParts ==
    ASSUME NEW d \in Deque
    PROVE  /\ d # None /\ d.count \in 0..255 /\ d.thread \in BOOLEAN
           /\ d.work \in Seq(Task) /\ d.now \in Seq(Task)
           /\ Len(d.work) \in Nat /\ Len(d.now) \in Nat
           /\ \A i \in 1..Len(d.work) : d.work[i] \in Task
           /\ \A i \in 1..Len(d.now) : d.now[i] \in Task
           /\ d.now # <<>> => Len(d.now) # 0
           /\ d.work # <<>> => Len(d.work) # 0
<1>1. d # None /\ d.count \in 0..255 /\ d.thread \in BOOLEAN
      /\ d.work \in Seq(Task) /\ d.now \in Seq(Task)
  BY NoneIsNothing DEF Deque
<1> QED BY <1>1

LEMMA TaskParts ==
    ASSUME NEW w \in Task
    PROVE  w.to \in Listener /\ w.n \in Nat
BY DEF Task

-----------------------------------------------------------------------------
(* The deques.                                                             *)

\* A deque with the same states is as good.
LEMMA AsNew ==
    ASSUME NEW d, NEW e, Newer(d), e.work = d.work, e.now = d.now, e.thread = d.thread,
           last' = last, got' = got, stray' = stray
    PROVE  Newer(e)'
BY DEF Newer

LEMMA EmptyDeque ==
    /\ NewDeque \in Deque /\ NewDeque # None
    /\ Newer(NewDeque)' /\ \A u \in Uids : Own(u, NewDeque)
<1>1. NewDeque \in Deque
  BY DEF NewDeque, Deque
<1>2. NewDeque.work = <<>> /\ NewDeque.now = <<>>
  BY DEF NewDeque
<1>3. NewDeque # None
  BY <1>1, DequeParts
<1>4. Len(NewDeque.work) = 0 /\ Len(NewDeque.now) = 0
  BY <1>2
<1>5. Newer(NewDeque)'
  BY <1>2, <1>4 DEF Newer
<1>6. \A u \in Uids : Own(u, NewDeque)
  BY <1>2, <1>4 DEF Own
<1> QED BY <1>1, <1>3, <1>5, <1>6

LEMMA ReferencedDeque ==
    ASSUME NEW d \in Deque \cup {None}
    PROVE  LET e == Referenced(d)
           IN  /\ e \in Deque
               /\ d # None => e.work = d.work /\ e.now = d.now /\ e.thread = d.thread
<1>1. CASE d = None
  BY <1>1, EmptyDeque DEF Referenced
<1>2. CASE d # None
  <2>1. d \in Deque
    BY <1>2
  <2>2. d.count \in 0..255
    BY <2>1, DequeParts
  <2>3. PICK n \in 0..255 : n = (d.count + 1) % 256
    BY <2>2
  <2>4. PICK e : e = [d EXCEPT !.count = n]
    OBVIOUS
  <2>5. e \in Deque /\ e.work = d.work /\ e.now = d.now /\ e.thread = d.thread
    BY <2>1, <2>4 DEF Deque
  <2>6. Referenced(d) = e
    BY <1>2, <2>3, <2>4 DEF Referenced
  <2> QED BY <2>5, <2>6
<1> QED BY <1>1, <1>2

\* What a subscription leaves in the service.
LEMMA Subscribed ==
    ASSUME ServiceInv, NEW l \in Listener, NEW info \in Info,
           SubscribeOsAccount(l, info), last' = last, got' = got
    PROVE  /\ ServiceInv'
           /\ record'[l] # None /\ record'[l].states = info.states
           /\ \A m \in Listener : m # l => record'[m] = record[m]
<1> DEFINE u == UidOf(l)
           d == deque[u]
           e == Referenced(d)
           switch == "switch" \in info.states
<1>1. record \in [Listener -> Info \cup {None}] /\ deque \in [Uids -> Deque \cup {None}]
      /\ u \in Uids /\ info # None
  BY Owners, NoneIsNothing DEF ServiceInv, ServiceTypes
<1>2. /\ record' = [record EXCEPT ![l] =
                    IF record[l] # None /\ record[l].states = info.states
                    THEN record[l] ELSE info]
      /\ deque' = IF switch THEN [deque EXCEPT ![u] = e] ELSE deque
      /\ stray' = stray /\ robbed' = robbed /\ strayed' = strayed
  BY DEF SubscribeOsAccount
<1>3. /\ record'[l] # None /\ record'[l].states = info.states
      /\ record' \in [Listener -> Info \cup {None}]
      /\ \A m \in Listener : m # l => record'[m] = record[m]
  BY <1>1, <1>2
<1>4. /\ e \in Deque
      /\ d # None => e.work = d.work /\ e.now = d.now /\ e.thread = d.thread
  BY <1>1, ReferencedDeque
<1>5. e # None
  BY <1>4, DequeParts
<1>6. /\ deque' \in [Uids -> Deque \cup {None}]
      /\ \A v \in Uids : v # u \/ ~switch => deque'[v] = deque[v]
      /\ switch => deque'[u] = e
  BY <1>1, <1>2, <1>4
<1>7. ServiceTypes'
  BY <1>2, <1>3, <1>6 DEF ServiceInv, ServiceTypes
<1>8. Served'
  <2> SUFFICES ASSUME NEW m \in Listener, Wants(m, "switch")', m \notin robbed'
               PROVE  deque'[UidOf(m)] # None
    BY DEF Served, UidOf
  <2>1. CASE m = l
    <3>1. switch
      BY <1>3, <2>1 DEF Wants
    <3> QED BY <1>5, <1>6, <2>1, <3>1
  <2>2. CASE m # l
    <3>1. Wants(m, "switch") /\ m \notin robbed
      BY <1>2, <1>3, <2>2 DEF Wants
    <3>2. deque[UidOf(m)] # None /\ UidOf(m) \in Uids
      BY <3>1, Owners DEF ServiceInv, Served
    <3> QED BY <1>5, <1>6, <3>2
  <2> QED BY <2>1, <2>2
<1>9. Ordered'
  <2>1. \A v \in Uids : deque[v] # None => Newer(deque[v]) /\ Own(v, deque[v])
    BY DEF ServiceInv, Ordered
  <2>2. ASSUME NEW v \in Uids, deque'[v] # None
        PROVE  Newer(deque[v])' /\ Own(v, deque'[v])
    <3>1. CASE v # u \/ ~switch
      <4>1. PICK c : c = deque[v]
        OBVIOUS
      <4>2. deque'[v] = c /\ Newer(c) /\ Own(v, c)
        BY <1>6, <2>1, <2>2, <3>1, <4>1
      <4>3. Newer(c)'
        BY <1>2, <4>2, AsNew
      <4> QED BY <4>2, <4>3 DEF Newer
    <3>2. CASE v = u /\ switch
      <4>1. PICK c : c = e
        OBVIOUS
      <4>2. deque'[v] = c
        BY <1>6, <3>2, <4>1
      <4>3. Newer(c)' /\ Own(v, c)
        <5>1. CASE d = None
          BY <4>1, <5>1, EmptyDeque DEF Referenced
        <5>2. CASE d # None
          <6>1. Newer(d) /\ Own(v, d)
            BY <2>1, <3>2, <5>2
          <6>2. PICK b : b = d
            OBVIOUS
          <6>3. Newer(b) /\ c.work = b.work /\ c.now = b.now /\ c.thread = b.thread
            BY <1>4, <4>1, <5>2, <6>1, <6>2
          <6>4. Newer(c)'
            BY <1>2, <6>3, AsNew
          <6>5. Own(v, c)
            BY <6>1, <6>2, <6>3 DEF Own
          <6> QED BY <6>4, <6>5
        <5> QED BY <5>1, <5>2
      <4> QED BY <4>2, <4>3 DEF Newer
    <3> QED BY <3>1, <3>2
  <2>3. (\A m \in Listener : got[m] <= last) /\ \A w \in stray : w.n <= last
    BY DEF ServiceInv, Ordered
  <2> QED BY <1>2, <2>2, <2>3 DEF Ordered, Own, UidOf
<1> QED BY <1>3, <1>7, <1>8, <1>9 DEF ServiceInv
\* The deques of the uids that a step leaves alone stay in order.
LEMMA OthersOrdered ==
    ASSUME ServiceInv, NEW v \in Uids, deque[v] # None, deque'[v] = deque[v],
           last' = last, got' = got,
           \A w \in stray' \ stray : w.n <= last /\ UidOf(w.to) # v
    PROVE  (Newer(deque[v]) /\ Own(v, deque[v]))'
<1>1. PICK c : c = deque[v]
  OBVIOUS
<1>2. c \in Deque /\ Newer(c) /\ Own(v, c)
  BY <1>1 DEF ServiceInv, ServiceTypes, Ordered
<1>3. /\ \A i \in 1..Len(c.work) : UidOf(c.work[i].to) = v
      /\ c.now # <<>> => UidOf(c.now[1].to) = v
  BY <1>2 DEF Own
<1>4. Newer(c)'
  <2>1. \A w \in stray' : w \in stray \/ UidOf(w.to) # v
    OBVIOUS
  <2> HIDE DEF UidOf
  <2> QED BY <1>2, <1>3, <2>1 DEF Newer
<1>5. deque'[v] = c
  BY <1>1
<1> QED BY <1>2, <1>4, <1>5 DEF Newer, Own, UidOf

\* What an unsubscription or a death leaves in the service.
LEMMA Removed ==
    ASSUME ServiceInv, NEW l \in Listener, RemoveSubscribeRecord(l),
           last' = last, got' = got
    PROVE  /\ ServiceInv'
           /\ record'[l] = None
           /\ \A m \in Listener : m # l => record'[m] = record[m]
<1> DEFINE u == UidOf(l)
           d == deque[u]
           count == IF d.count = 0 THEN 0 ELSE d.count - 1
<1>1. /\ record \in [Listener -> Info \cup {None}] /\ deque \in [Uids -> Deque \cup {None}]
      /\ stray \subseteq Task /\ robbed \subseteq Listener /\ strayed \subseteq Listener
      /\ u \in Uids
  BY Owners DEF ServiceInv, ServiceTypes
<1>2. record' = [record EXCEPT ![l] = None]
  BY DEF RemoveSubscribeRecord
<1>3. /\ record'[l] = None /\ record' \in [Listener -> Info \cup {None}]
      /\ \A m \in Listener : m # l => record'[m] = record[m]
  BY <1>1, <1>2
<1>4. \A m \in Listener : Wants(m, "switch")' => m # l /\ Wants(m, "switch")
  BY <1>3 DEF Wants
<1>5. /\ \A m \in Listener : got'[m] <= last'
      /\ \A w \in stray : w.n <= last'
      /\ last' \in Nat /\ got' \in [Listener -> Nat]
  BY DEF ServiceInv, ServiceTypes, Ordered
<1>6. CASE UNCHANGED <<deque, stray, robbed, strayed>>
  <2>1. Served'
    BY <1>4, <1>6 DEF ServiceInv, Served, UidOf
  <2>2. \A v \in Uids : deque'[v] # None => (Newer(deque[v]) /\ Own(v, deque[v]))'
    BY <1>6, OthersOrdered
  <2>3. Ordered'
    BY <1>5, <1>6, <2>2 DEF Ordered
  <2> QED BY <1>1, <1>3, <1>5, <1>6, <2>1, <2>3 DEF ServiceInv, ServiceTypes
<1>7. CASE /\ Wants(l, "switch") /\ d # None /\ count > 0
           /\ deque' = [deque EXCEPT ![u].count = count]
           /\ UNCHANGED <<stray, robbed, strayed>>
  <2>1. d \in Deque
    BY <1>1, <1>7
  <2>2. count \in 0..255
    BY <1>7, <2>1, DequeParts
  <2>3. PICK e : e = [d EXCEPT !.count = count]
    OBVIOUS
  <2>4. e \in Deque /\ e.work = d.work /\ e.now = d.now /\ e.thread = d.thread
    BY <2>1, <2>2, <2>3 DEF Deque
  <2>5. e # None
    BY <2>4, DequeParts
  <2> HIDE DEF count
  <2>6. /\ deque' \in [Uids -> Deque \cup {None}] /\ deque'[u] = e
        /\ \A v \in Uids : v # u => deque'[v] = deque[v]
    BY <1>1, <1>7, <2>3, <2>4
  <2>7. Served'
    BY <1>4, <1>7, <2>5, <2>6, Owners DEF ServiceInv, Served, UidOf
  <2>8. PICK b : b = d
    OBVIOUS
  <2>9. Newer(b) /\ Own(u, b)
    BY <1>1, <1>7, <2>8 DEF ServiceInv, Ordered
  <2>10. Newer(e)' /\ Own(u, e)
    <3>1. Newer(e)'
      BY <1>7, <2>4, <2>8, <2>9, AsNew
    <3> QED BY <2>4, <2>8, <2>9, <3>1 DEF Own
  <2>11. \A v \in Uids : deque'[v] # None => (Newer(deque[v]) /\ Own(v, deque[v]))'
    <3>1. ASSUME NEW v \in Uids, v # u, deque'[v] # None
          PROVE  (Newer(deque[v]) /\ Own(v, deque[v]))'
      BY <1>7, <2>6, <3>1, OthersOrdered
    <3>2. (Newer(deque[u]) /\ Own(u, deque[u]))'
      BY <2>6, <2>10 DEF Newer, Own, UidOf
    <3> QED BY <3>1, <3>2
  <2>12. Ordered'
    BY <1>5, <1>7, <2>11 DEF Ordered
  <2> QED BY <1>1, <1>3, <1>5, <1>7, <2>6, <2>7, <2>12 DEF ServiceInv, ServiceTypes
<1>8. CASE /\ Wants(l, "switch") /\ d # None /\ ~(count > 0)
           /\ deque' = [deque EXCEPT ![u] = None]
           /\ stray' = stray \cup Range(d.now)
           /\ robbed' = robbed \cup
                {r \in Listener \ {l} : UidOf(r) = UidOf(l) /\ Wants(r, "switch")}
           /\ strayed' = strayed \cup ({w.to : w \in Range(d.now)} \ {l})
  <2>1. d \in Deque /\ Newer(d) /\ Own(u, d)
    BY <1>1, <1>8 DEF ServiceInv, Ordered
  <2>2. \A w \in Range(d.now) : w \in Task /\ w.n <= last /\ UidOf(w.to) = u
    <3> SUFFICES ASSUME NEW w \in Range(d.now)
                 PROVE  w \in Task /\ w.n <= last /\ UidOf(w.to) = u
      OBVIOUS
    <3>1. d.now \in Seq(Task) /\ Len(d.now) \in Nat /\ Len(d.now) <= 1
      BY <2>1, DequeParts DEF Newer
    <3>2. PICK i \in DOMAIN d.now : w = d.now[i]
      BY DEF Range
    <3>3. DOMAIN d.now = 1..Len(d.now)
      BY <3>1
    <3>4. i = 1 /\ d.now # <<>> /\ d.now[1] \in Task
      BY <3>1, <3>2, <3>3
    <3> QED BY <2>1, <3>2, <3>4 DEF Newer, Own
  <2>3. /\ deque' \in [Uids -> Deque \cup {None}] /\ deque'[u] = None
        /\ \A v \in Uids : v # u => deque'[v] = deque[v]
    BY <1>1, <1>8
  <2>4. Served'
    <3> SUFFICES ASSUME NEW m \in Listener, Wants(m, "switch")', m \notin robbed'
                 PROVE  deque'[UidOf(m)] # None
      BY DEF Served, UidOf
    <3>1. m # l /\ Wants(m, "switch") /\ m \notin robbed
      BY <1>4, <1>8
    <3>2. UidOf(m) # u
      BY <1>8, <3>1
    <3>3. UidOf(m) \in Uids /\ deque[UidOf(m)] # None
      BY <3>1, Owners DEF ServiceInv, Served
    <3> QED BY <2>3, <3>2, <3>3
  <2>5. \A v \in Uids : deque'[v] # None => (Newer(deque[v]) /\ Own(v, deque[v]))'
    <3>1. ASSUME NEW v \in Uids, deque'[v] # None
          PROVE  (Newer(deque[v]) /\ Own(v, deque[v]))'
      <4>1. v # u /\ deque[v] # None /\ deque'[v] = deque[v]
        BY <2>3, <3>1
      <4>2. \A w \in stray' \ stray : w.n <= last /\ UidOf(w.to) # v
        BY <1>8, <2>2, <4>1
      <4> QED BY <4>1, <4>2, OthersOrdered
    <3> QED BY <3>1
  <2>6. stray' \subseteq Task /\ \A w \in stray' : w.n <= last'
    BY <1>1, <1>5, <1>8, <2>2
  <2>7. robbed' \subseteq Listener /\ strayed' \subseteq Listener
    BY <1>1, <1>8, <2>2, TaskParts
  <2>8. Ordered'
    BY <1>5, <2>5, <2>6 DEF Ordered
  <2> QED BY <1>3, <1>5, <2>3, <2>4, <2>6, <2>7, <2>8 DEF ServiceInv, ServiceTypes
<1>9. \/ UNCHANGED <<deque, stray, robbed, strayed>>
      \/ /\ Wants(l, "switch") /\ d # None /\ count > 0
         /\ deque' = [deque EXCEPT ![u].count = count]
         /\ UNCHANGED <<stray, robbed, strayed>>
      \/ /\ Wants(l, "switch") /\ d # None /\ ~(count > 0)
         /\ deque' = [deque EXCEPT ![u] = None]
         /\ stray' = stray \cup Range(d.now)
         /\ robbed' = robbed \cup
              {r \in Listener \ {l} : UidOf(r) = UidOf(l) /\ Wants(r, "switch")}
         /\ strayed' = strayed \cup ({w.to : w \in Range(d.now)} \ {l})
  BY Zenon DEF RemoveSubscribeRecord
<1> QED BY <1>3, <1>6, <1>7, <1>8, <1>9

-----------------------------------------------------------------------------
(* "switch" states.                                                        *)

\* What ProductTask adds to a deque.
LEMMA Produced ==
    ASSUME ServiceInv, NEW d \in Deque, NEW u \in Uids, Newer(d), Own(u, d),
           NEW ls \in SUBSET Listener, \A l \in ls : UidOf(l) = u,
           last' = last + 1, got' = got, stray' = stray,
           NEW e, e = ProductTasks(d, ls)
    PROVE  /\ e \in Deque /\ Newer(e)' /\ Own(u, e) /\ e.now = d.now
           /\ \A i \in 1..Len(e.work) :
                  \/ i \in 1..Len(d.work) /\ e.work[i] = d.work[i]
                  \/ e.work[i].to \in ls
<1> DEFINE c == Cardinality(ls)
           add == [i \in 1..c |-> [to |-> SetToSeq(ls)[i], n |-> last + 1]]
<1>1. /\ last \in Nat /\ \A l \in Listener : got[l] \in Nat /\ got[l] <= last
      /\ \A w \in stray : w.n \in Nat /\ w.n <= last
  BY TaskParts DEF ServiceInv, ServiceTypes, Ordered
<1>2. /\ d # None /\ d.work \in Seq(Task) /\ Len(d.work) \in Nat /\ Len(d.now) \in Nat
      /\ \A i \in 1..Len(d.work) : d.work[i].to \in Listener /\ d.work[i].n \in Nat
      /\ d.now # <<>> /\ Len(d.now) <= 1 => d.now[1].to \in Listener /\ d.now[1].n \in Nat
  BY DequeParts, TaskParts
<1>3. CASE ls = {}
  <2>1. ProductTasks(d, ls) = d
    BY <1>3 DEF ProductTasks
  <2>2. Newer(d)'
    <3>1. \A i \in 1..Len(d.work) : d.work[i].n <= last + 1
      BY <1>1, <1>2 DEF Newer
    <3>2. d.now # <<>> => d.now[1].n <= last + 1
      BY <1>1, <1>2 DEF Newer
    <3> QED BY <3>1, <3>2 DEF Newer
  <2> QED BY <2>1, <2>2
<1>4. CASE ls # {}
  <2>1. /\ c \in Nat /\ SetToSeq(ls) \in [1..c -> ls]
        /\ \A i, j \in 1..c : SetToSeq(ls)[i] = SetToSeq(ls)[j] => i = j
    <3>1. IsFiniteSet(ls)
      BY FS_Subset, StatePublicationConstants
    <3> QED BY <3>1, Numbered
  <2>2. \A i \in 1..c : /\ add[i] \in Task /\ add[i].to \in ls
                        /\ add[i].to = SetToSeq(ls)[i] /\ add[i].n = last + 1
    BY <1>1, <2>1 DEF Task
  <2>3. \A i, j \in 1..c : add[i].to = add[j].to => i = j
    BY <2>1, <2>2
  <2>4. add \in Seq(Task) /\ Len(add) = c
    BY <2>1, <2>2
  <2> HIDE DEF add, c
  <2>5. PICK work : work = d.work \o add
    OBVIOUS
  <2>6. /\ work \in Seq(Task) /\ Len(work) = Len(d.work) + c
        /\ \A i \in 1..Len(work) :
               work[i] = IF i <= Len(d.work) THEN d.work[i] ELSE add[i - Len(d.work)]
    <3>1. PICK a \in Seq(Task) : a = add
      BY <2>4
    <3>2. PICK b \in Seq(Task) : b = d.work
      BY <1>2
    <3>3. /\ b \o a \in Seq(Task) /\ Len(b \o a) = Len(b) + Len(a)
          /\ \A i \in 1..(Len(b) + Len(a)) :
                 (b \o a)[i] = IF i <= Len(b) THEN b[i] ELSE a[i - Len(b)]
      BY <3>1, <3>2, ConcatProperties
    <3> QED BY <2>4, <2>5, <3>1, <3>2, <3>3
  <2>7. e = [d EXCEPT !.thread = TRUE, !.work = work]
    BY <1>2, <1>4, <2>5 DEF ProductTasks, add, c
  <2>8. e \in Deque /\ e.thread = TRUE /\ e.work = work /\ e.now = d.now
    BY <2>6, <2>7 DEF Deque
  <2>10. ASSUME NEW i \in 1..Len(work), i <= Len(d.work)
         PROVE  work[i] = d.work[i] /\ i \in 1..Len(d.work)
    BY <1>2, <2>1, <2>6, <2>10
  <2>11. ASSUME NEW i \in 1..Len(work), ~(i <= Len(d.work))
         PROVE  /\ i - Len(d.work) \in 1..c /\ work[i] = add[i - Len(d.work)]
                /\ work[i].to \in ls /\ work[i].to \in Listener /\ work[i].n = last + 1
    <3>1. i - Len(d.work) \in 1..c /\ work[i] = add[i - Len(d.work)]
      BY <1>2, <2>1, <2>6, <2>11
    <3> QED BY <2>2, <3>1
  <2>12. Own(u, e)
    <3>1. \A i \in 1..Len(work) : UidOf(work[i].to) = u
      BY <2>10, <2>11 DEF Own
    <3> QED BY <2>8, <3>1 DEF Own
  <2>13. Newer(e)'
    <3>1. ASSUME NEW i \in 1..Len(work)
          PROVE  /\ work[i].n <= last + 1 /\ work[i].n > got[work[i].to]
                 /\ \A w \in stray : w.to = work[i].to => w.n < work[i].n
                 /\ \A j \in 1..(i - 1) : work[j].to = work[i].to => work[j].n < work[i].n
                 /\ d.now # <<>> /\ d.now[1].to = work[i].to => d.now[1].n < work[i].n
      <4>1. CASE i <= Len(d.work)
        <5>1. \A j \in 1..(i - 1) : j \in 1..Len(d.work) /\ work[j] = d.work[j]
          <6>1. i \in Nat /\ i <= Len(d.work) /\ Len(d.work) <= Len(work)
            BY <1>2, <2>1, <2>6, <4>1
          <6>2. \A j \in 1..(i - 1) : j \in 1..Len(d.work) /\ j \in 1..Len(work)
            BY <1>2, <2>1, <2>6, <6>1
          <6> QED BY <2>10, <6>2
        <5>2. work[i] = d.work[i] /\ i \in 1..Len(d.work)
          BY <2>10, <4>1
        <5>3. /\ d.work[i].n <= last /\ d.work[i].n \in Nat
              /\ d.work[i].n > got[d.work[i].to]
              /\ \A w \in stray : w.to = d.work[i].to => w.n < d.work[i].n
              /\ \A j \in 1..(i - 1) :
                     d.work[j].to = d.work[i].to => d.work[j].n < d.work[i].n
              /\ d.now # <<>> /\ d.now[1].to = d.work[i].to => d.now[1].n < d.work[i].n
          BY <1>2, <5>2 DEF Newer
        <5> QED BY <1>1, <5>1, <5>2, <5>3
      <4>2. CASE ~(i <= Len(d.work))
        <5>1. /\ i - Len(d.work) \in 1..c /\ work[i] = add[i - Len(d.work)]
              /\ work[i].to \in Listener /\ work[i].n = last + 1
          BY <2>11, <4>2
        <5>2. ASSUME NEW j \in 1..(i - 1), work[j].to = work[i].to
              PROVE  work[j].n < work[i].n
          <6>1. j \in 1..Len(work) /\ j # i
            BY <1>2, <2>1, <2>6
          <6>2. CASE j <= Len(d.work)
            <7>1. work[j] = d.work[j] /\ j \in 1..Len(d.work)
              BY <2>10, <6>1, <6>2
            <7>2. d.work[j].n <= last /\ d.work[j].n \in Nat
              BY <1>2, <7>1 DEF Newer
            <7> QED BY <1>1, <5>1, <7>1, <7>2
          <6>3. CASE ~(j <= Len(d.work))
            <7>1. j - Len(d.work) \in 1..c /\ work[j] = add[j - Len(d.work)]
              BY <2>11, <6>1, <6>3
            <7>2. j - Len(d.work) = i - Len(d.work)
              BY <2>3, <5>1, <5>2, <7>1
            <7> QED BY <1>2, <2>6, <6>1, <7>2
          <6> QED BY <6>2, <6>3
        <5>3. d.now # <<>> => d.now[1].n <= last /\ d.now[1].n \in Nat
          BY <1>2 DEF Newer
        <5> QED BY <1>1, <5>1, <5>2, <5>3
      <4> QED BY <4>1, <4>2
    <3>2. d.now # <<>> => d.now[1].n <= last + 1
      BY <1>1, <1>2 DEF Newer
    <3> QED BY <2>8, <3>1, <3>2 DEF Newer
  <2>14. ASSUME NEW i \in 1..Len(e.work)
         PROVE  (i \in 1..Len(d.work) /\ e.work[i] = d.work[i]) \/ e.work[i].to \in ls
    BY <2>8, <2>10, <2>11
  <2> QED BY <2>8, <2>12, <2>13, <2>14
<1> QED BY <1>3, <1>4

LEMMA PublishSwitchOK ==
    ASSUME ServiceInv, PublishSwitch
    PROVE  ServiceInv'
<1> DEFINE ls(u) == {l \in Listener : UidOf(l) = u /\ Wants(l, "switch")}
<1>1. /\ last' = last + 1 /\ UNCHANGED <<record, stray, robbed, strayed, got>>
      /\ deque' = [u \in Uids |-> ProductTasks(deque[u], ls(u))]
  BY DEF PublishSwitch
<1>2. /\ last \in Nat /\ \A l \in Listener : got[l] \in Nat /\ got[l] <= last
      /\ \A w \in stray : w.n \in Nat /\ w.n <= last
  BY TaskParts DEF ServiceInv, ServiceTypes, Ordered
<1>3. ASSUME NEW u \in Uids
      PROVE  /\ deque[u] = None => deque'[u] = None
             /\ deque[u] # None => /\ deque'[u] \in Deque /\ deque'[u] # None
                                   /\ (Newer(deque[u]) /\ Own(u, deque[u]))'
  <2>1. deque'[u] = ProductTasks(deque[u], ls(u))
    BY <1>1
  <2>2. CASE deque[u] = None
    BY <2>1, <2>2 DEF ProductTasks
  <2>3. CASE deque[u] # None
    <3>1. PICK d : d = deque[u]
      OBVIOUS
    <3>2. PICK e : e = ProductTasks(d, ls(u))
      OBVIOUS
    <3>3. d \in Deque /\ Newer(d) /\ Own(u, d)
      BY <2>3, <3>1 DEF ServiceInv, ServiceTypes, Ordered
    <3>4. ls(u) \in SUBSET Listener /\ \A l \in ls(u) : UidOf(l) = u
      OBVIOUS
    <3> HIDE DEF ls
    <3>5. e \in Deque /\ Newer(e)' /\ Own(u, e)
      BY <1>1, <3>2, <3>3, <3>4, Produced
    <3>6. deque'[u] = e /\ e # None
      BY <2>1, <3>1, <3>2, <3>5, DequeParts
    <3> QED BY <2>3, <3>5, <3>6 DEF Newer, Own, UidOf
  <2> QED BY <2>2, <2>3
<1>4. deque' \in [Uids -> Deque \cup {None}]
  <2>1. \A u \in Uids : deque'[u] \in Deque \cup {None}
    BY <1>3
  <2> HIDE DEF ls
  <2>2. deque' = [u \in Uids |-> deque'[u]]
    BY <1>1
  <2> QED BY <2>1, <2>2
<1>5. Served'
  BY <1>1, <1>3, Owners DEF ServiceInv, Served, Wants, UidOf
<1>6. Ordered'
  BY <1>1, <1>2, <1>3 DEF Ordered
<1> QED BY <1>1, <1>2, <1>4, <1>5, <1>6 DEF ServiceInv, ServiceTypes

\* A step that changes a deque, and what the listeners of its uid got.
LEMMA DequeChanged ==
    ASSUME ServiceInv, NEW u \in Uids, deque[u] # None,
           NEW e \in Deque, Newer(e)', Own(u, e), deque' = [deque EXCEPT ![u] = e],
           UNCHANGED <<record, stray, robbed, strayed, last>>, got' \in [Listener -> Nat],
           \A l \in Listener : got'[l] <= last,
           \A l \in Listener : UidOf(l) # u => got'[l] = got[l]
    PROVE  ServiceInv'
<1>1. /\ deque \in [Uids -> Deque \cup {None}] /\ e # None /\ stray \subseteq Task
      /\ \A w \in stray : w.n <= last
  BY DequeParts DEF ServiceInv, ServiceTypes, Ordered
<1>2. /\ deque' \in [Uids -> Deque \cup {None}] /\ deque'[u] = e
      /\ \A v \in Uids : v # u => deque'[v] = deque[v]
  BY <1>1
<1>3. ServiceTypes'
  BY <1>2 DEF ServiceInv, ServiceTypes
<1>4. Served'
  BY <1>1, <1>2, Owners DEF ServiceInv, Served, Wants, UidOf
<1>5. ASSUME NEW v \in Uids, deque'[v] # None
      PROVE  (Newer(deque[v]) /\ Own(v, deque[v]))'
  <2>1. CASE v = u
    BY <1>2, <2>1 DEF Newer, Own, UidOf
  <2>2. CASE v # u
    <3>1. PICK d : d = deque[v]
      OBVIOUS
    <3>2. d \in Deque /\ Newer(d) /\ Own(v, d) /\ deque'[v] = d
      BY <1>1, <1>2, <1>5, <2>2, <3>1 DEF ServiceInv, Ordered
    <3>3. /\ Len(d.work) \in Nat /\ Len(d.now) \in Nat
          /\ \A i \in 1..Len(d.work) : d.work[i].to \in Listener
          /\ d.now # <<>> /\ Len(d.now) <= 1 => d.now[1].to \in Listener
      BY <3>2, DequeParts, TaskParts
    <3>4. /\ \A i \in 1..Len(d.work) : got'[d.work[i].to] = got[d.work[i].to]
          /\ d.now # <<>> /\ Len(d.now) <= 1 => got'[d.now[1].to] = got[d.now[1].to]
      BY <2>2, <3>2, <3>3 DEF Own
    <3>5. Newer(d)'
      BY <3>2, <3>4 DEF Newer
    <3>6. Newer(deque[v])'
      <4>1. PICK e1 : e1 = deque'[v]
        OBVIOUS
      <4>2. Newer(e1)'
        BY <3>2, <3>5, <4>1
      <4> QED BY <4>1, <4>2 DEF Newer
    <3>7. Own(v, deque[v])'
      BY <3>2 DEF Own, UidOf
    <3> QED BY <3>6, <3>7
  <2> QED BY <2>1, <2>2
<1>6. Ordered'
  BY <1>1, <1>5 DEF Ordered
<1> QED BY <1>3, <1>4, <1>6 DEF ServiceInv

LEMMA ConsumerTaskOK ==
    ASSUME ServiceInv, NEW u \in Uids, ConsumerTask(u)
    PROVE  ServiceInv'
<1>1. PICK d : d = deque[u]
  OBVIOUS
<1>2. /\ d # None /\ d.thread /\ d.now = <<>>
      /\ deque' = [deque EXCEPT ![u] =
            IF d.work = <<>> THEN [d EXCEPT !.thread = FALSE]
            ELSE [d EXCEPT !.now = <<Head(d.work)>>, !.work = Tail(d.work)]]
      /\ UNCHANGED <<record, stray, robbed, strayed, last, got>>
  BY <1>1 DEF ConsumerTask
<1>3. d \in Deque /\ Newer(d) /\ Own(u, d)
  BY <1>1, <1>2 DEF ServiceInv, ServiceTypes, Ordered
<1>4. /\ got \in [Listener -> Nat] /\ \A l \in Listener : got[l] <= last
  BY DEF ServiceInv, ServiceTypes, Ordered
<1>5. /\ d.work \in Seq(Task) /\ Len(d.work) \in Nat /\ d.thread \in BOOLEAN
      /\ \A i \in 1..Len(d.work) : d.work[i] \in Task
  BY <1>3, DequeParts
<1>6. CASE d.work = <<>>
  <2>1. PICK e : e = [d EXCEPT !.thread = FALSE]
    OBVIOUS
  <2>2. e \in Deque /\ e.work = <<>> /\ e.now = <<>>
    BY <1>2, <1>3, <1>6, <2>1 DEF Deque
  <2>3. Len(e.work) = 0 /\ Len(e.now) = 0
    BY <2>2
  <2>4. Newer(e)' /\ Own(u, e)
    BY <2>2, <2>3 DEF Newer, Own
  <2>5. deque' = [deque EXCEPT ![u] = e]
    BY <1>2, <1>6, <2>1
  <2> QED BY <1>1, <1>2, <1>4, <2>2, <2>4, <2>5, DequeChanged
<1>7. CASE d.work # <<>>
  <2>1. PICK head : head = Head(d.work)
    OBVIOUS
  <2>2. PICK tail : tail = Tail(d.work)
    OBVIOUS
  <2>3. /\ head = d.work[1] /\ 1 \in 1..Len(d.work) /\ head \in Task
        /\ tail \in Seq(Task) /\ Len(tail) = Len(d.work) - 1
        /\ \A i \in 1..Len(tail) : i + 1 \in 1..Len(d.work) /\ tail[i] = d.work[i + 1]
    <3>1. Len(d.work) # 0
      BY <1>3, <1>7, DequeParts
    <3> QED BY <1>5, <1>7, <2>1, <2>2, <3>1, HeadTailProperties
  <2>4. PICK e : e = [d EXCEPT !.now = <<head>>, !.work = tail]
    OBVIOUS
  <2>5. e \in Deque /\ e.work = tail /\ e.now = <<head>> /\ e.thread = TRUE
    <3>1. <<head>> \in Seq(Task)
      BY <2>3
    <3>2. d.thread = TRUE
      BY <1>2, <1>5
    <3> QED BY <1>3, <2>3, <2>4, <3>1, <3>2 DEF Deque
  <2>6. Len(e.now) = 1 /\ e.now[1] = head
    BY <2>5
  <2>7. Own(u, e)
    BY <1>3, <2>3, <2>5, <2>6 DEF Own
  <2>8. Newer(e)'
    <3>1. /\ head.n <= last /\ head.n > got[head.to]
          /\ \A w \in stray : w.to = head.to => w.n < head.n
      BY <1>3, <2>3 DEF Newer
    <3>2. ASSUME NEW i \in 1..Len(tail)
          PROVE  /\ tail[i].n <= last /\ tail[i].n > got[tail[i].to]
                 /\ \A w \in stray : w.to = tail[i].to => w.n < tail[i].n
                 /\ \A j \in 1..(i - 1) : tail[j].to = tail[i].to => tail[j].n < tail[i].n
                 /\ head.to = tail[i].to => head.n < tail[i].n
      <4>1. i + 1 \in 1..Len(d.work) /\ tail[i] = d.work[i + 1] /\ i \in Nat
        BY <1>5, <2>3
      <4>2. /\ d.work[i + 1].n <= last /\ d.work[i + 1].n > got[d.work[i + 1].to]
            /\ \A w \in stray : w.to = d.work[i + 1].to => w.n < d.work[i + 1].n
            /\ \A j \in 1..(i + 1 - 1) :
                   d.work[j].to = d.work[i + 1].to => d.work[j].n < d.work[i + 1].n
        BY <1>3, <4>1 DEF Newer
      <4>3. \A j \in 1..(i - 1) : j + 1 \in 1..(i + 1 - 1) /\ tail[j] = d.work[j + 1]
        BY <1>5, <2>3, <4>1
      <4>4. 1 \in 1..(i + 1 - 1)
        BY <4>1
      <4> QED BY <2>3, <4>1, <4>2, <4>3, <4>4
    <3> QED BY <1>2, <2>5, <2>6, <3>1, <3>2 DEF Newer
  <2>9. deque' = [deque EXCEPT ![u] = e]
    BY <1>2, <1>7, <2>1, <2>2, <2>4
  <2> QED BY <1>1, <1>2, <1>4, <2>5, <2>7, <2>8, <2>9, DequeChanged
<1> QED BY <1>6, <1>7

\* What a listener got, once it gets a state.
LEMMA Received ==
    ASSUME ServiceInv, NEW w \in Task, w.n <= last, Receive(w), last' = last
    PROVE  /\ got' \in [Listener -> Nat]
           /\ \A l \in Listener : got'[l] <= last
           /\ \A l \in Listener : got'[l] = got[l] \/ (l = w.to /\ got'[l] = w.n)
<1>1. got \in [Listener -> Nat] /\ (\A l \in Listener : got[l] <= last)
      /\ w.to \in Listener /\ w.n \in Nat
  BY TaskParts DEF ServiceInv, ServiceTypes, Ordered
<1>2. got' = got \/ got' = [got EXCEPT ![w.to] = w.n]
  BY DEF Receive
<1>3. CASE got' = got
  BY <1>1, <1>3
<1>4. CASE got' = [got EXCEPT ![w.to] = w.n]
  BY <1>1, <1>4
<1> QED BY <1>2, <1>3, <1>4

LEMMA SendSwitchOK ==
    ASSUME ServiceInv, NEW u \in Uids, SendSwitch(u)
    PROVE  ServiceInv'
<1>1. PICK d : d = deque[u]
  OBVIOUS
<1>2. /\ d # None /\ d.now # <<>> /\ Receive(d.now[1])
      /\ deque' = [deque EXCEPT ![u].now = <<>>]
      /\ UNCHANGED <<record, stray, robbed, strayed, last>>
  BY <1>1 DEF SendSwitch
<1>3. d \in Deque /\ Newer(d) /\ Own(u, d) /\ deque \in [Uids -> Deque \cup {None}]
  BY <1>1, <1>2 DEF ServiceInv, ServiceTypes, Ordered
<1>4. PICK w : w = d.now[1]
  OBVIOUS
<1>5. w \in Task /\ w.n <= last /\ UidOf(w.to) = u /\ Len(d.work) \in Nat
  BY <1>2, <1>3, <1>4, DequeParts DEF Newer, Own
<1>6. /\ got' \in [Listener -> Nat]
      /\ \A l \in Listener : got'[l] <= last
      /\ \A l \in Listener : got'[l] = got[l] \/ (l = w.to /\ got'[l] = w.n)
  BY <1>2, <1>4, <1>5, Received
<1>7. PICK e : e = [d EXCEPT !.now = <<>>]
  OBVIOUS
<1>8. e \in Deque /\ e.work = d.work /\ e.now = <<>> /\ e.thread = d.thread
  <2>1. <<>> \in Seq(Task)
    OBVIOUS
  <2> QED BY <1>3, <1>7, <2>1 DEF Deque
<1>9. Own(u, e) /\ Len(e.now) = 0
  BY <1>3, <1>8 DEF Own
<1>10. Newer(e)'
  <2>1. \A i \in 1..Len(d.work) : d.work[i].to \in Listener
    BY <1>3, DequeParts, TaskParts
  <2>2. \A i \in 1..Len(d.work) : d.work[i].n > got'[d.work[i].to]
    BY <1>2, <1>3, <1>4, <1>6, <2>1 DEF Newer
  <2> QED BY <1>2, <1>3, <1>8, <1>9, <2>2 DEF Newer
<1>11. deque' = [deque EXCEPT ![u] = e]
  BY <1>1, <1>2, <1>7
<1>12. \A l \in Listener : UidOf(l) # u => got'[l] = got[l]
  BY <1>5, <1>6
<1> QED BY <1>1, <1>2, <1>6, <1>8, <1>9, <1>10, <1>11, <1>12, DequeChanged

\* A state of an earlier deque is older than what the deque of its uid holds.
LEMMA SendStrayOK ==
    ASSUME ServiceInv, NEW w \in stray, SendStray(w)
    PROVE  ServiceInv'
<1>1. /\ stray' = stray \ {w} /\ Receive(w)
      /\ UNCHANGED <<record, deque, robbed, strayed, last>>
  BY DEF SendStray
<1>2. w \in Task /\ w.n <= last /\ stray \subseteq Task /\ \A x \in stray : x.n <= last
  BY DEF ServiceInv, ServiceTypes, Ordered
<1>3. /\ got' \in [Listener -> Nat]
      /\ \A l \in Listener : got'[l] <= last
      /\ \A l \in Listener : got'[l] = got[l] \/ (l = w.to /\ got'[l] = w.n)
  BY <1>1, <1>2, Received
<1>4. ASSUME NEW u \in Uids, deque[u] # None
      PROVE  (Newer(deque[u]) /\ Own(u, deque[u]))'
  <2>1. PICK d : d = deque[u]
    OBVIOUS
  <2>2. d \in Deque /\ Newer(d) /\ Own(u, d) /\ deque'[u] = d
    BY <1>1, <1>4, <2>1 DEF ServiceInv, ServiceTypes, Ordered
  <2>3. /\ Len(d.work) \in Nat /\ Len(d.now) \in Nat
        /\ \A i \in 1..Len(d.work) : d.work[i].to \in Listener
        /\ d.now # <<>> /\ Len(d.now) <= 1 => d.now[1].to \in Listener
    BY <2>2, DequeParts, TaskParts
  <2>4. /\ \A i \in 1..Len(d.work) : d.work[i].n > got'[d.work[i].to]
        /\ d.now # <<>> => d.now[1].n > got'[d.now[1].to]
    BY <1>3, <2>2, <2>3 DEF Newer
  <2>5. Newer(d)'
    BY <1>1, <2>2, <2>4 DEF Newer
  <2> QED BY <2>2, <2>5 DEF Newer, Own, UidOf
<1>5. ServiceTypes'
  BY <1>1, <1>2, <1>3 DEF ServiceInv, ServiceTypes
<1>6. Served'
  BY <1>1 DEF ServiceInv, Served, Wants, UidOf
<1>7. Ordered'
  BY <1>1, <1>2, <1>3, <1>4 DEF Ordered
<1> QED BY <1>5, <1>6, <1>7 DEF ServiceInv

-----------------------------------------------------------------------------
(* Subscriptions.                                                          *)

LEMMA ClientKept ==
    ASSUME ClientInv, UNCHANGED <<record, client, fate>>
    PROVE  ClientInv'
<1>1. /\ record' = record /\ manager' = manager /\ used' = used /\ all' = all
      /\ call' = call /\ restore' = restore /\ dead' = dead /\ notice' = notice
  BY DEF client, fate
<1> QED BY <1>1 DEF ClientInv, ClientTypes, Managed, Asked, Covered, Knows, Base

LEMMA RequestParts ==
    ASSUME NEW c \in Request
    PROVE  /\ c # None /\ c.op \in {"subscribe", "unsubscribe"} /\ c.s \in Subscriber
           /\ c.proxy \in BOOLEAN /\ c.info \in Info \cup {None}
BY NoneIsNothing DEF Request

LEMMA SameBase ==
    ASSUME NEW m, call'[m] = call[m], all'[m] = all[m]
    PROVE  Base(m)' = Base(m)
BY DEF Base

LEMMA KnowsFewer ==
    ASSUME NEW l, NEW A \in SUBSET Subscriber, NEW B \in SUBSET A,
           Knows(l, A), record'[l] = record[l]
    PROVE  Knows(l, B)'
BY FewerStates DEF Knows

\* Listener l changes, and no other one.
LEMMA OthersCovered ==
    ASSUME ClientInv, NEW l \in Listener,
           \A m \in Listener \ {l} :
               call'[m] = call[m] /\ all'[m] = all[m] /\ record'[m] = record[m],
           \A q \in Process :
               manager'[q] \notin {l, None} /\ q \notin restore'
               => manager'[q] = manager[q] /\ q \notin restore,
           \A q \in Process :
               manager'[q] = l /\ q \notin restore' => Knows(l, Base(l))'
    PROVE  Covered'
<1> SUFFICES ASSUME NEW q \in Process, manager'[q] # None, q \notin restore'
             PROVE  Knows(manager[q], Base(manager[q]))'
  BY DEF Covered
<1>1. CASE manager'[q] = l
  BY <1>1 DEF Knows, Base
<1>2. CASE manager'[q] # l
  <2>1. PICK m : m = manager[q]
    OBVIOUS
  <2>2. manager'[q] = m /\ m \in Listener /\ m # l /\ Knows(m, Base(m))
    BY <1>2, <2>1 DEF ClientInv, ClientTypes, Covered
  <2>3. Base(m)' = Base(m) /\ record'[m] = record[m]
    BY <2>2, SameBase
  <2>4. Knows(m, Base(m))'
    BY <2>2, <2>3 DEF Knows
  <2> QED BY <2>2, <2>4 DEF Knows, Base
<1> QED BY <1>1, <1>2

LEMMA SubscribeOK ==
    ASSUME ClientInv, NEW s \in Subscriber, Subscribe(s)
    PROVE  ClientInv' /\ used \subseteq used' /\ dead' = dead
<1> DEFINE p == Home[s]
<1>1. PICK l \in Listener :
        /\ Owner[l] = p /\ call[l] = None
        /\ IF manager[p] = None THEN l \notin used ELSE l = manager[p]
        /\ manager' = [manager EXCEPT ![p] = l] /\ used' = used \cup {l}
        /\ all' = [all EXCEPT ![l] = @ \cup {s}]
        /\ call' = [call EXCEPT ![l] = [op |-> "subscribe", s |-> s, proxy |-> TRUE,
                                        info |-> TotalSubscribeInfo(all[l] \cup {s})]]
        /\ UNCHANGED <<restore, record, dead, notice>>
  BY DEF Subscribe, service, fate
<1> DEFINE c == [op |-> "subscribe", s |-> s, proxy |-> TRUE,
                 info |-> TotalSubscribeInfo(all[l] \cup {s})]
<1>2. p \in Process /\ Home[s] = p
  BY Owners
<1>3. /\ manager \in [Process -> Listener \cup {None}] /\ used \subseteq Listener
      /\ all \in [Listener -> SUBSET Subscriber] /\ call \in [Listener -> Request \cup {None}]
  BY DEF ClientInv, ClientTypes
<1>4. TotalSubscribeInfo(all[l] \cup {s}) \in Info
  BY <1>3, Infos
<1>5. /\ c \in Request /\ c.op = "subscribe" /\ c.s = s
      /\ c.info = TotalSubscribeInfo(all[l] \cup {s})
  BY <1>4 DEF Request
<1>6. c # None
  BY <1>5, RequestParts
<1> HIDE DEF c
<1>7. /\ call'[l] = c /\ all'[l] = all[l] \cup {s} /\ manager'[p] = l
      /\ \A m \in Listener : m # l => call'[m] = call[m] /\ all'[m] = all[m]
      /\ \A q \in Process : q # p => manager'[q] = manager[q]
  BY <1>1, <1>2, <1>3 DEF c
<1>8. ClientTypes'
  <2>1. manager' \in [Process -> Listener \cup {None}]
    BY <1>1, <1>3
  <2>2. all' \in [Listener -> SUBSET Subscriber]
    BY <1>1, <1>3
  <2>3. call' \in [Listener -> Request \cup {None}]
    BY <1>1, <1>3, <1>5 DEF c
  <2>4. used' \subseteq Listener
    BY <1>1, <1>3
  <2> QED BY <1>1, <2>1, <2>2, <2>3, <2>4 DEF ClientInv, ClientTypes
<1>9. l \notin dead
  BY <1>1, <1>2 DEF ClientInv, Managed
<1>10. Managed'
  <2>1. \A q \in Process :
           manager'[q] # None => Owner[manager'[q]] = q /\ manager'[q] \in used' \ dead'
    BY <1>1, <1>2, <1>7, <1>9 DEF ClientInv, Managed
  <2>2. dead' \subseteq used' /\ notice' \subseteq dead'
    BY <1>1 DEF ClientInv, Managed
  <2>3. ASSUME NEW m \in Listener
        PROVE  /\ record'[m] # None \/ call'[m] # None \/ all'[m] # {} => m \in used'
               /\ (record'[m] # None \/ call'[m] # None) /\ m \notin dead'
                  => manager'[Owner[m]] = m
               /\ \A r \in all'[m] : Home[r] = Owner[m]
               /\ call'[m] # None => Home[call'[m].s] = Owner[m]
    <3>1. CASE m = l
      <4>1. \A r \in all[l] : Home[r] = Owner[l]
        BY DEF ClientInv, Managed
      <4> QED BY <1>1, <1>2, <1>5, <1>7, <3>1, <4>1
    <3>2. CASE m # l
      <4>1. /\ record[m] # None \/ call[m] # None \/ all[m] # {} => m \in used
            /\ (record[m] # None \/ call[m] # None) /\ m \notin dead
               => manager[Owner[m]] = m
            /\ \A r \in all[m] : Home[r] = Owner[m]
            /\ call[m] # None => Home[call[m].s] = Owner[m]
        BY DEF ClientInv, Managed
      <4>2. record'[m] = record[m] /\ call'[m] = call[m] /\ all'[m] = all[m]
        BY <1>1, <1>7, <3>2
      <4>3. (record[m] # None \/ call[m] # None) /\ m \notin dead => Owner[m] # p
        <5> SUFFICES ASSUME record[m] # None \/ call[m] # None, m \notin dead, Owner[m] = p
                     PROVE  FALSE
          OBVIOUS
        <5>1. manager[p] = m /\ m # None
          BY <4>1, NoneIsNothing
        <5> QED BY <1>1, <3>2, <5>1
      <4>4. Owner[m] \in Process
        BY Owners
      <4> QED BY <1>1, <1>7, <4>1, <4>2, <4>3, <4>4
    <3> QED BY <3>1, <3>2
  <2> QED BY <2>1, <2>2, <2>3 DEF Managed
<1>11. Asked'
  <2> SUFFICES ASSUME NEW m \in Listener \ dead', call'[m] # None
               PROVE  call'[m].info = IF all'[m] = {} THEN None
                                      ELSE TotalSubscribeInfo(all'[m])
    BY DEF Asked, TotalSubscribeInfo
  <2>1. CASE m = l
    BY <1>5, <1>7, <2>1
  <2>2. CASE m # l
    BY <1>1, <1>7, <2>2 DEF ClientInv, Asked
  <2> QED BY <2>1, <2>2
<1>12. Covered'
  <2>1. ASSUME p \notin restore PROVE Knows(l, Base(l))'
    <3>1. Base(l)' = (all[l] \cup {s}) \ {s}
      BY <1>5, <1>6, <1>7 DEF Base
    <3>2. CASE manager[p] = None
      <4>1. all[l] = {}
        BY <1>1, <3>2 DEF ClientInv, Managed
      <4>2. Base(l)' = {}
        BY <3>1, <4>1
      <4> QED BY <4>2 DEF Knows
    <3>3. CASE manager[p] # None
      <4>1. manager[p] = l /\ Base(l) = all[l]
        BY <1>1, <3>3 DEF Base
      <4>2. Knows(l, Base(l))
        BY <1>2, <2>1, <3>3, <4>1 DEF ClientInv, Covered
      <4>3. PICK A \in SUBSET Subscriber : A = all[l]
        BY <1>3
      <4>4. PICK B \in SUBSET A : B = (all[l] \cup {s}) \ {s}
        BY <4>3
      <4>5. Knows(l, A)
        BY <4>1, <4>2, <4>3
      <4>6. record'[l] = record[l]
        BY <1>1
      <4>7. Knows(l, B)'
        BY <4>5, <4>6, KnowsFewer
      <4> QED BY <3>1, <4>4, <4>7 DEF Knows
    <3> QED BY <3>2, <3>3
  <2>2. \A q \in Process : manager'[q] = l => q = p
    BY <1>1, <1>10, NoneIsNothing DEF Managed
  <2>3. \A q \in Process : manager'[q] = l /\ q \notin restore' => Knows(l, Base(l))'
    BY <1>1, <2>1, <2>2
  <2> QED BY <1>1, <1>7, <2>3, OthersCovered
<1> QED BY <1>1, <1>8, <1>10, <1>11, <1>12 DEF ClientInv

\* A step that changes no manager and no more than one listener.
LEMMA StillManaged ==
    ASSUME ClientInv, NEW l \in Listener, UNCHANGED <<manager, used, dead>>,
           notice' \subseteq notice,
           \A m \in Listener \ {l} :
               call'[m] = call[m] /\ all'[m] = all[m] /\ record'[m] = record[m],
           record'[l] # None \/ call'[l] # None \/ all'[l] # {} => l \in used,
           (record'[l] # None \/ call'[l] # None) /\ l \notin dead => manager[Owner[l]] = l,
           \A r \in all'[l] : Home[r] = Owner[l],
           call'[l] # None => Home[call'[l].s] = Owner[l]
    PROVE  Managed'
BY DEF ClientInv, Managed

LEMMA UnsubscribeOK ==
    ASSUME ClientInv, NEW s \in Subscriber, Unsubscribe(s)
    PROVE  ClientInv' /\ UNCHANGED <<used, dead>>
<1> DEFINE p == Home[s]
<1>1. PICK l : l = manager[p]
  OBVIOUS
<1> DEFINE info == IF all[l] = {s} THEN None ELSE TotalSubscribeInfo(all[l] \ {s})
           c == [op |-> "unsubscribe", s |-> s, proxy |-> TRUE, info |-> info]
<1>2. /\ l # None /\ s \in all[l] /\ call[l] = None
      /\ all' = [all EXCEPT ![l] = @ \ {s}]
      /\ call' = [call EXCEPT ![l] = c]
      /\ UNCHANGED <<manager, used, restore, record, dead, notice>>
  BY <1>1 DEF Unsubscribe, service, fate
<1>3. p \in Process /\ l \in Listener
  BY <1>1, <1>2, Owners DEF ClientInv, ClientTypes
<1>4. /\ all \in [Listener -> SUBSET Subscriber] /\ call \in [Listener -> Request \cup {None}]
      /\ Owner[l] = p /\ l \in used \ dead /\ manager[p] = l
      /\ \A r \in all[l] : Home[r] = Owner[l]
  BY <1>1, <1>2, <1>3 DEF ClientInv, ClientTypes, Managed
<1>5. TotalSubscribeInfo(all[l] \ {s}) \in Info
  BY <1>3, <1>4, Infos
<1>6. c \in Request /\ c.op = "unsubscribe" /\ c.s = s /\ c.info = info
  BY <1>5 DEF Request
<1>7. c # None
  BY <1>6, RequestParts
<1> HIDE DEF c
<1>8. /\ call'[l] = c /\ all'[l] = all[l] \ {s}
      /\ \A m \in Listener : m # l => call'[m] = call[m] /\ all'[m] = all[m]
  BY <1>2, <1>3, <1>4
<1>9. ClientTypes'
  <2>1. all' \in [Listener -> SUBSET Subscriber]
    BY <1>2, <1>4
  <2>2. call' \in [Listener -> Request \cup {None}]
    BY <1>2, <1>4, <1>6
  <2> QED BY <1>2, <2>1, <2>2 DEF ClientInv, ClientTypes
<1>10. Managed'
  BY <1>2, <1>3, <1>4, <1>6, <1>8, StillManaged
<1>11. Asked'
  <2> SUFFICES ASSUME NEW m \in Listener \ dead', call'[m] # None
               PROVE  call'[m].info = IF all'[m] = {} THEN None
                                      ELSE TotalSubscribeInfo(all'[m])
    BY DEF Asked, TotalSubscribeInfo
  <2>1. CASE m = l
    <3>1. all'[l] = {} <=> all[l] = {s}
      BY <1>2, <1>8
    <3> QED BY <1>6, <1>8, <2>1, <3>1
  <2>2. CASE m # l
    BY <1>2, <1>8, <2>2 DEF ClientInv, Asked
  <2> QED BY <2>1, <2>2
<1>12. Covered'
  <2>1. ASSUME p \notin restore PROVE Knows(l, Base(l))'
    <3>1. Base(l)' = all[l] /\ Base(l) = all[l]
      BY <1>2, <1>6, <1>7, <1>8 DEF Base
    <3>2. Knows(l, Base(l))
      BY <1>2, <1>3, <1>4, <2>1 DEF ClientInv, Covered
    <3> QED BY <1>2, <3>1, <3>2 DEF Knows
  <2>2. \A q \in Process : manager'[q] = l => q = p
    BY <1>2, <1>4, <1>10 DEF Managed
  <2>3. \A q \in Process : manager'[q] = l /\ q \notin restore' => Knows(l, Base(l))'
    BY <1>2, <2>1, <2>2
  <2> QED BY <1>2, <1>3, <1>8, <2>3, OthersCovered
<1> QED BY <1>2, <1>9, <1>10, <1>11, <1>12 DEF ClientInv

LEMMA CallFailsOK ==
    ASSUME ClientInv, NEW l \in Listener, CallFails(l)
    PROVE  ClientInv' /\ UNCHANGED <<used, dead>>
<1> DEFINE s == call[l].s
           back == IF l \in dead THEN {} ELSE Base(l)
<1>1. /\ call[l] # None /\ call' = [call EXCEPT ![l] = None]
      /\ all' = [all EXCEPT ![l] = back]
      /\ UNCHANGED <<manager, used, restore, record, dead, notice>>
  BY DEF CallFails, service, fate, Base
<1>2. /\ all \in [Listener -> SUBSET Subscriber] /\ call \in [Listener -> Request \cup {None}]
      /\ l \in used /\ Home[s] = Owner[l] /\ \A r \in all[l] : Home[r] = Owner[l]
  BY <1>1 DEF ClientInv, ClientTypes, Managed
<1>3. s \in Subscriber
  BY <1>1, <1>2, RequestParts
<1>4. back \subseteq all[l] \cup {s}
  BY <1>1 DEF Base
<1> HIDE DEF back
<1>5. /\ call'[l] = None /\ all'[l] = back
      /\ \A m \in Listener : m # l => call'[m] = call[m] /\ all'[m] = all[m]
  BY <1>1, <1>2
<1>6. ClientTypes'
  <2>1. all' \in [Listener -> SUBSET Subscriber]
    BY <1>1, <1>2, <1>3, <1>4
  <2>2. call' \in [Listener -> Request \cup {None}]
    BY <1>1, <1>2
  <2> QED BY <1>1, <2>1, <2>2 DEF ClientInv, ClientTypes
<1>7. Managed'
  <2>1. \A r \in all'[l] : Home[r] = Owner[l]
    BY <1>2, <1>4, <1>5
  <2>2. record'[l] # None /\ l \notin dead => manager[Owner[l]] = l
    BY <1>1 DEF ClientInv, Managed
  <2> QED BY <1>1, <1>2, <1>5, <2>1, <2>2, StillManaged
<1>8. Asked'
  <2> SUFFICES ASSUME NEW m \in Listener \ dead', call'[m] # None
               PROVE  call'[m].info = IF all'[m] = {} THEN None
                                      ELSE TotalSubscribeInfo(all'[m])
    BY DEF Asked, TotalSubscribeInfo
  <2> QED BY <1>1, <1>5 DEF ClientInv, Asked
<1>9. Covered'
  <2>1. ASSUME NEW q \in Process, manager[q] = l, q \notin restore
        PROVE  Knows(l, Base(l))'
    <3>1. l \notin dead /\ Knows(l, Base(l))
      BY <2>1, NoneIsNothing DEF ClientInv, Managed, Covered
    <3>2. Base(l)' = Base(l)
      BY <1>5, <3>1 DEF Base, back
    <3> QED BY <1>1, <3>1, <3>2 DEF Knows
  <2> QED BY <1>1, <1>5, <2>1, OthersCovered
<1> QED BY <1>1, <1>6, <1>7, <1>8, <1>9 DEF ClientInv

\* Nothing is different for the calls of other listeners.
LEMMA OthersAsked ==
    ASSUME ClientInv, NEW l \in Listener, dead' = dead, call'[l] = None,
           \A m \in Listener \ {l} : call'[m] = call[m] /\ all'[m] = all[m]
    PROVE  Asked'
<1> SUFFICES ASSUME NEW m \in Listener \ dead', call'[m] # None
             PROVE  call'[m].info = IF all'[m] = {} THEN None
                                    ELSE TotalSubscribeInfo(all'[m])
  BY DEF Asked, TotalSubscribeInfo
<1> QED BY DEF ClientInv, Asked

LEMMA CallServedOK ==
    ASSUME ServiceInv, ClientInv, NEW l \in Listener, CallServed(l)
    PROVE  ServiceInv' /\ ClientInv' /\ UNCHANGED <<used, dead>>
<1>1. /\ call[l] # None /\ call' = [call EXCEPT ![l] = None]
      /\ UNCHANGED <<used, all, restore, last, got, dead>>
  BY DEF CallServed
<1>2. /\ call \in [Listener -> Request \cup {None}] /\ all \in [Listener -> SUBSET Subscriber]
      /\ manager \in [Process -> Listener \cup {None}] /\ l \in used
      /\ notice \subseteq Listener /\ notice \subseteq dead /\ restore \subseteq Process
  BY <1>1 DEF ClientInv, ClientTypes, Managed
<1>3. /\ call'[l] = None /\ call' \in [Listener -> Request \cup {None}]
      /\ \A m \in Listener \ {l} : call'[m] = call[m] /\ all'[m] = all[m]
  BY <1>1, <1>2
<1>4. Asked'
  BY <1>1, <1>3, OthersAsked
<1>5. CASE call[l].info = None
  <2>1. /\ RemoveSubscribeRecord(l) /\ notice' = notice \ {l}
        /\ manager' = [p \in Process |-> IF manager[p] = l THEN None ELSE manager[p]]
    BY <1>5 DEF CallServed
  <2>2. /\ ServiceInv' /\ record'[l] = None
        /\ \A m \in Listener : m # l => record'[m] = record[m]
    BY <1>1, <2>1, Removed
  <2>3. \A q \in Process : /\ manager'[q] = IF manager[q] = l THEN None ELSE manager[q]
                           /\ manager'[q] # l
    BY <2>1, NoneIsNothing
  <2>4. ClientTypes'
    <3>1. manager' \in [Process -> Listener \cup {None}]
      BY <1>2, <2>1
    <3> QED BY <1>1, <1>2, <1>3, <2>1, <3>1 DEF ClientInv, ClientTypes
  <2>5. Managed'
    <3>1. \A p \in Process :
             manager'[p] # None => Owner[manager'[p]] = p /\ manager'[p] \in used' \ dead'
      BY <1>1, <2>3 DEF ClientInv, Managed
    <3>2. dead' \subseteq used' /\ notice' \subseteq dead'
      BY <1>1, <2>1 DEF ClientInv, Managed
    <3>3. ASSUME NEW m \in Listener
          PROVE  /\ record'[m] # None \/ call'[m] # None \/ all'[m] # {} => m \in used'
                 /\ (record'[m] # None \/ call'[m] # None) /\ m \notin dead'
                    => manager'[Owner[m]] = m
                 /\ \A r \in all'[m] : Home[r] = Owner[m]
                 /\ call'[m] # None => Home[call'[m].s] = Owner[m]
      <4>1. /\ record[m] # None \/ call[m] # None \/ all[m] # {} => m \in used
            /\ (record[m] # None \/ call[m] # None) /\ m \notin dead
               => manager[Owner[m]] = m
            /\ \A r \in all[m] : Home[r] = Owner[m]
            /\ call[m] # None => Home[call[m].s] = Owner[m]
        BY DEF ClientInv, Managed
      <4>2. Owner[m] \in Process
        BY Owners
      <4>3. CASE m = l
        BY <1>1, <1>2, <1>3, <2>2, <4>1, <4>3
      <4>4. CASE m # l
        BY <1>1, <1>3, <2>2, <2>3, <4>1, <4>2, <4>4
      <4> QED BY <4>3, <4>4
    <3> QED BY <3>1, <3>2, <3>3 DEF Managed
  <2>6. Covered'
    BY <1>1, <1>3, <2>2, <2>3, OthersCovered
  <2> QED BY <1>1, <1>4, <2>2, <2>4, <2>5, <2>6 DEF ClientInv
<1>6. CASE call[l].info # None
  <2>1. SubscribeOsAccount(l, call[l].info) /\ UNCHANGED <<notice, manager>>
    BY <1>6 DEF CallServed
  <2>2. call[l].info \in Info
    BY <1>1, <1>2, <1>6, RequestParts
  <2>3. /\ ServiceInv' /\ record'[l] # None /\ record'[l].states = call[l].info.states
        /\ \A m \in Listener : m # l => record'[m] = record[m]
    BY <1>1, <2>1, <2>2, Subscribed
  <2>4. ClientTypes'
    BY <1>1, <1>2, <1>3, <2>1 DEF ClientInv, ClientTypes
  <2>5. Managed'
    <3>1. /\ l \notin dead => manager[Owner[l]] = l
          /\ \A r \in all'[l] : Home[r] = Owner[l]
      BY <1>1 DEF ClientInv, Managed
    <3> QED BY <1>1, <1>2, <1>3, <2>1, <2>3, <3>1, StillManaged
  <2>6. Covered'
    <3>1. ASSUME NEW q \in Process, manager[q] = l, q \notin restore
          PROVE  Knows(l, Base(l))'
      <4>1. l \notin dead
        BY <3>1, NoneIsNothing DEF ClientInv, Managed
      <4>2. call[l].info = TotalSubscribeInfo(all[l])
        BY <1>1, <1>6, <4>1 DEF ClientInv, Asked
      <4>3. Base(l)' = all[l]
        BY <1>1, <1>3 DEF Base
      <4> QED BY <2>3, <4>2, <4>3 DEF Knows, TotalSubscribeInfo
    <3> QED BY <1>1, <1>3, <2>1, <2>3, <3>1, OthersCovered
  <2> QED BY <1>1, <1>4, <2>3, <2>4, <2>5, <2>6 DEF ClientInv
<1> QED BY <1>5, <1>6

LEMMA OnRemoteDiedOK ==
    ASSUME ServiceInv, ClientInv, NEW l \in Listener, OnRemoteDied(l)
    PROVE  ServiceInv' /\ ClientInv' /\ UNCHANGED <<used, dead>>
<1>1. /\ l \in notice /\ notice' = notice \ {l} /\ RemoveSubscribeRecord(l)
      /\ UNCHANGED <<last, got, manager, used, all, call, restore, dead>>
  BY DEF OnRemoteDied, client
<1>2. /\ ServiceInv' /\ record'[l] = None
      /\ \A m \in Listener : m # l => record'[m] = record[m]
  BY <1>1, Removed
<1>3. l \in dead /\ \A q \in Process : manager[q] # l
  BY <1>1, NoneIsNothing DEF ClientInv, Managed
<1>4. ClientTypes'
  BY <1>1 DEF ClientInv, ClientTypes
<1>5. Managed'
  <2>1. /\ call'[l] # None \/ all'[l] # {} => l \in used
        /\ \A r \in all'[l] : Home[r] = Owner[l]
        /\ call'[l] # None => Home[call'[l].s] = Owner[l]
    BY <1>1 DEF ClientInv, Managed
  <2> QED BY <1>1, <1>2, <1>3, <2>1, StillManaged
<1>6. Asked'
  BY <1>1 DEF ClientInv, Asked
<1>7. Covered'
  BY <1>1, <1>2, <1>3, OthersCovered
<1> QED BY <1>1, <1>2, <1>4, <1>5, <1>6, <1>7 DEF ClientInv

LEMMA RestoreListenerRecordsOK ==
    ASSUME ServiceInv, ClientInv, NEW p \in Process, RestoreListenerRecords(p)
    PROVE  ServiceInv' /\ ClientInv' /\ UNCHANGED <<used, dead>>
<1>1. PICK l : l = manager[p]
  OBVIOUS
<1>2. /\ p \in restore /\ restore' = restore \ {p}
      /\ \/ /\ l # None => all[l] = {}
            /\ UNCHANGED <<record, deque, stray, robbed, strayed>>
         \/ /\ l # None /\ all[l] # {}
            /\ SubscribeOsAccount(l, TotalSubscribeInfo(all[l]))
      /\ l # None => call[l] = None
      /\ UNCHANGED <<manager, used, all, call, last, got, dead, notice>>
  BY <1>1 DEF RestoreListenerRecords, service, fate
<1>3. ClientTypes' /\ Asked'
  BY <1>2 DEF ClientInv, ClientTypes, Asked
<1>4. CASE /\ l # None => all[l] = {}
           /\ UNCHANGED <<record, deque, stray, robbed, strayed>>
  <2>1. ServiceInv'
    BY <1>2, <1>4 DEF ServiceInv, ServiceTypes, Served, Ordered, Wants, UidOf, Newer, Own
  <2>2. Managed'
    BY <1>2, <1>4 DEF ClientInv, Managed
  <2>3. Covered'
    <3> SUFFICES ASSUME NEW q \in Process, manager'[q] # None, q \notin restore'
                 PROVE  Knows(manager[q], Base(manager[q]))'
      BY DEF Covered
    <3>1. CASE q = p
      <4>1. manager'[q] = l /\ l # None /\ Base(l)' = {}
        BY <1>1, <1>2, <1>4, <3>1 DEF Base
      <4> QED BY <4>1 DEF Knows, Base
    <3>2. CASE q # p
      <4>1. PICK m : m = manager[q]
        OBVIOUS
      <4>2. manager'[q] = m /\ Knows(m, Base(m))
        BY <1>2, <3>2, <4>1 DEF ClientInv, Covered
      <4>3. Base(m)' = Base(m) /\ record'[m] = record[m]
        BY <1>2, <1>4, SameBase
      <4>4. Knows(m, Base(m))'
        BY <4>2, <4>3 DEF Knows
      <4> QED BY <4>2, <4>4 DEF Knows, Base
    <3> QED BY <3>1, <3>2
  <2> QED BY <1>2, <1>3, <2>1, <2>2, <2>3 DEF ClientInv
<1>5. CASE /\ l # None /\ all[l] # {}
           /\ SubscribeOsAccount(l, TotalSubscribeInfo(all[l]))
  <2>1. l \in Listener /\ all[l] \in SUBSET Subscriber /\ call[l] = None
    BY <1>1, <1>2, <1>5 DEF ClientInv, ClientTypes
  <2>2. TotalSubscribeInfo(all[l]) \in Info
    BY <2>1, Infos
  <2>3. /\ ServiceInv' /\ record'[l] # None
        /\ record'[l].states = TotalSubscribeInfo(all[l]).states
        /\ \A m \in Listener : m # l => record'[m] = record[m]
    BY <1>2, <1>5, <2>1, <2>2, Subscribed
  <2>4. /\ l \in used /\ manager[Owner[l]] = l /\ \A r \in all[l] : Home[r] = Owner[l]
        /\ \A q \in Process : manager[q] = l => q = p
    BY <1>1, <1>5, <2>1, NoneIsNothing DEF ClientInv, Managed
  <2>5. Managed'
    BY <1>2, <2>1, <2>3, <2>4, StillManaged
  <2>6. Covered'
    <3>1. Knows(l, Base(l))'
      <4>1. Base(l)' = all[l]
        BY <1>2, <2>1 DEF Base
      <4> QED BY <2>3, <4>1 DEF Knows, TotalSubscribeInfo
    <3>2. \A q \in Process :
             manager'[q] \notin {l, None} /\ q \notin restore'
             => manager'[q] = manager[q] /\ q \notin restore
      BY <1>1, <1>2
    <3> QED BY <1>2, <2>1, <2>3, <3>1, <3>2, OthersCovered
  <2> QED BY <1>2, <1>3, <2>3, <2>5, <2>6 DEF ClientInv
<1> QED BY <1>2, <1>4, <1>5

LEMMA DieKeepsClients ==
    ASSUME ClientInv, NEW p \in Process, Die(p)
    PROVE  ClientInv'
<1>1. PICK gone : gone = {l \in used \ dead : Owner[l] = p}
  OBVIOUS
<1>2. /\ dead' = dead \cup gone
      /\ notice' = notice \cup {l \in gone : record[l] # None}
      /\ manager' = [manager EXCEPT ![p] = None]
      /\ all' = [l \in Listener |-> IF l \in gone THEN {} ELSE all[l]]
      /\ restore' = restore \ {p}
      /\ UNCHANGED <<used, call, record>>
  BY <1>1 DEF Die, service
<1>3. /\ manager \in [Process -> Listener \cup {None}] /\ used \subseteq Listener
      /\ all \in [Listener -> SUBSET Subscriber] /\ restore \subseteq Process
      /\ dead \subseteq Listener /\ notice \subseteq Listener /\ gone \subseteq Listener
      /\ call \in [Listener -> Request \cup {None}]
  BY <1>1 DEF ClientInv, ClientTypes
<1>4. /\ \A m \in Listener : all'[m] = IF m \in gone THEN {} ELSE all[m]
      /\ \A q \in Process : manager'[q] = IF q = p THEN None ELSE manager[q]
  BY <1>2, <1>3
<1>5. ClientTypes'
  <2>1. manager' \in [Process -> Listener \cup {None}]
    BY <1>2, <1>3
  <2>2. all' \in [Listener -> SUBSET Subscriber]
    BY <1>2, <1>3
  <2>3. dead' \subseteq Listener /\ notice' \subseteq Listener /\ restore' \subseteq Process
    BY <1>2, <1>3
  <2> QED BY <1>2, <1>3, <2>1, <2>2, <2>3 DEF ClientTypes
<1>6. Managed'
  <2>1. \A q \in Process :
           manager'[q] # None => Owner[manager'[q]] = q /\ manager'[q] \in used' \ dead'
    BY <1>1, <1>2, <1>4 DEF ClientInv, Managed
  <2>2. dead' \subseteq used' /\ notice' \subseteq dead'
    BY <1>1, <1>2 DEF ClientInv, Managed
  <2>3. ASSUME NEW m \in Listener
        PROVE  /\ record'[m] # None \/ call'[m] # None \/ all'[m] # {} => m \in used'
               /\ (record'[m] # None \/ call'[m] # None) /\ m \notin dead'
                  => manager'[Owner[m]] = m
               /\ \A r \in all'[m] : Home[r] = Owner[m]
               /\ call'[m] # None => Home[call'[m].s] = Owner[m]
    <3>1. /\ record[m] # None \/ call[m] # None \/ all[m] # {} => m \in used
          /\ (record[m] # None \/ call[m] # None) /\ m \notin dead
             => manager[Owner[m]] = m
          /\ \A r \in all[m] : Home[r] = Owner[m]
          /\ call[m] # None => Home[call[m].s] = Owner[m]
      BY DEF ClientInv, Managed
    <3>2. Owner[m] \in Process
      BY Owners
    <3>3. (record[m] # None \/ call[m] # None) /\ m \notin dead' => Owner[m] # p
      BY <1>1, <1>2, <3>1
    <3> QED BY <1>2, <1>4, <3>1, <3>2, <3>3
  <2> QED BY <2>1, <2>2, <2>3 DEF Managed
<1>7. Asked'
  <2> SUFFICES ASSUME NEW m \in Listener \ dead', call'[m] # None
               PROVE  call'[m].info = IF all'[m] = {} THEN None
                                      ELSE TotalSubscribeInfo(all'[m])
    BY DEF Asked, TotalSubscribeInfo
  <2>1. m \notin dead /\ all'[m] = all[m] /\ call'[m] = call[m]
    BY <1>2, <1>4
  <2> QED BY <2>1 DEF ClientInv, Asked
<1>8. Covered'
  <2> SUFFICES ASSUME NEW q \in Process, manager'[q] # None, q \notin restore'
               PROVE  Knows(manager[q], Base(manager[q]))'
    BY DEF Covered
  <2>1. PICK m : m = manager[q]
    OBVIOUS
  <2>2. manager'[q] = m /\ q # p /\ m \in Listener /\ Owner[m] = q /\ Knows(m, Base(m))
    BY <1>2, <1>3, <1>4, <2>1 DEF ClientInv, Managed, Covered
  <2>3. m \notin gone
    BY <1>1, <2>2
  <2>4. Base(m)' = Base(m) /\ record'[m] = record[m]
    BY <1>2, <1>4, <2>2, <2>3, SameBase
  <2>5. Knows(m, Base(m))'
    BY <2>2, <2>4 DEF Knows
  <2> QED BY <2>2, <2>5 DEF Knows, Base
<1> QED BY <1>5, <1>6, <1>7, <1>8 DEF ClientInv

LEMMA CrashKeepsClients ==
    ASSUME ClientInv, Crash
    PROVE  ClientInv'
<1>1. /\ record' = [l \in Listener |-> None] /\ notice' = {}
      /\ restore' = {p \in Process : manager[p] # None}
      /\ call' = [l \in Listener |->
            IF call[l] = None \/ l \in dead THEN None ELSE [call[l] EXCEPT !.proxy = FALSE]]
      /\ UNCHANGED <<manager, used, all, dead>>
  BY DEF Crash
<1>2. /\ call \in [Listener -> Request \cup {None}]
  BY DEF ClientInv, ClientTypes
<1>3. ASSUME NEW m \in Listener
      PROVE  /\ call'[m] \in Request \cup {None}
             /\ call'[m] # None => /\ call[m] # None
                                   /\ call'[m].s = call[m].s /\ call'[m].info = call[m].info
  <2>1. call'[m] = IF call[m] = None \/ m \in dead THEN None
                   ELSE [call[m] EXCEPT !.proxy = FALSE]
    BY <1>1
  <2>2. CASE call[m] = None \/ m \in dead
    BY <2>1, <2>2
  <2>3. CASE ~(call[m] = None \/ m \in dead)
    <3>1. PICK c \in Request : c = call[m]
      BY <1>2, <2>3
    <3>2. PICK e : e = [c EXCEPT !.proxy = FALSE]
      OBVIOUS
    <3>3. e \in Request /\ e.s = c.s /\ e.info = c.info
      BY <3>2 DEF Request
    <3> QED BY <2>1, <2>3, <3>1, <3>2, <3>3
  <2> QED BY <2>2, <2>3
<1>4. call' \in [Listener -> Request \cup {None}]
  <2>1. call' = [m \in Listener |-> call'[m]]
    BY <1>1
  <2> QED BY <1>3, <2>1
<1>5. ClientTypes'
  BY <1>1, <1>4 DEF ClientInv, ClientTypes
<1>6. \A m \in Listener : record'[m] = None
  BY <1>1
<1>7. Managed'
  BY <1>1, <1>3, <1>6 DEF ClientInv, Managed
<1>8. Asked'
  <2> SUFFICES ASSUME NEW m \in Listener \ dead', call'[m] # None
               PROVE  call'[m].info = IF all'[m] = {} THEN None
                                      ELSE TotalSubscribeInfo(all'[m])
    BY DEF Asked, TotalSubscribeInfo
  <2> QED BY <1>1, <1>3 DEF ClientInv, Asked
<1>9. Covered'
  BY <1>1 DEF Covered
<1> QED BY <1>5, <1>7, <1>8, <1>9 DEF ClientInv

LEMMA CrashEmptiesService ==
    ASSUME ServiceInv, Crash
    PROVE  ServiceInv'
<1>1. /\ record' = [l \in Listener |-> None] /\ deque' = [u \in Uids |-> None]
      /\ stray' = {} /\ robbed' = {} /\ strayed' = {} /\ UNCHANGED <<last, got>>
  BY DEF Crash
<1>2. ServiceTypes'
  BY <1>1 DEF ServiceInv, ServiceTypes
<1>3. (\A l \in Listener : record'[l] = None) /\ \A u \in Uids : deque'[u] = None
  BY <1>1
<1>4. Served'
  BY <1>3 DEF Served, Wants
<1>5. Ordered'
  BY <1>1, <1>3 DEF ServiceInv, Ordered
<1> QED BY <1>2, <1>4, <1>5 DEF ServiceInv

-----------------------------------------------------------------------------
(* "stop" states.                                                          *)

LEMMA StopKept ==
    ASSUME StopInv, UNCHANGED stop, dead' = dead, used \subseteq used'
    PROVE  StopInv'
<1>1. /\ pub' = pub /\ queue' = queue /\ sent' = sent /\ reply' = reply /\ told' = told
      /\ waiting' = waiting /\ early' = early
  BY DEF stop
<1>2. StopTypes'
  BY <1>1 DEF StopInv, StopTypes
<1>3. Counted'
  BY <1>1 DEF StopInv, Counted, Open
<1>4. Threads'
  BY <1>1 DEF StopInv, Threads, Unmade, Handed, OneEach, Telling
<1>5. Finished'
  BY <1>1 DEF StopInv, Finished
<1> QED BY <1>2, <1>3, <1>4, <1>5 DEF StopInv

\* The publications that a step leaves alone.
LEMMA ThreadsKept ==
    ASSUME Threads, NEW k \in Stop, pub'[k] = pub[k], dead' = dead, used' = used,
           \A l \in Listener : /\ sent'[<<k, l>>] = sent[<<k, l>>]
                               /\ reply'[<<k, l>>] = reply[<<k, l>>]
                               /\ <<k, l>> \in waiting' => <<k, l>> \in waiting,
           \A s \in Subscriber : told'[<<k, s>>] = told[<<k, s>>]
    PROVE  (Unmade(k) /\ Handed(k) /\ OneEach(k) /\ Telling(k))'
<1>1. Unmade(k)'
  BY DEF Threads, Unmade
<1>2. Handed(k)'
  BY DEF Threads, Handed
<1>3. OneEach(k)'
  BY DEF Threads, OneEach
<1>4. Telling(k)'
  BY DEF Threads, Telling
<1> QED BY <1>1, <1>2, <1>3, <1>4

LEMMA OpenFinite == \A k \in Stop : IsFiniteSet(Open(k)) /\ Cardinality(Open(k)) \in Nat
<1> SUFFICES ASSUME NEW k \in Stop PROVE IsFiniteSet(Open(k)) /\ Cardinality(Open(k)) \in Nat
  OBVIOUS
<1>1. Open(k) \subseteq Listener
  BY DEF Open
<1> QED BY <1>1, FS_Subset, FS_CardinalityType, StatePublicationConstants

\* The queue counts the open replies, whoever completes one.
LEMMA Completed ==
    ASSUME StopInv, NEW k \in Stop, NEW l \in Listener, Complete(k, l), pub' = pub
    PROVE  /\ reply' \in [Stop \X Listener -> {"none", "open", "completed"}]
           /\ queue' \in [Stop -> Int]
           /\ \A j \in Stop, m \in Listener :
                  /\ reply'[<<j, m>>] = reply[<<j, m>>]
                     \/ (j = k /\ m = l /\ reply[<<j, m>>] = "open"
                         /\ reply'[<<j, m>>] = "completed")
           /\ Counted'
<1>1. /\ reply \in [Stop \X Listener -> {"none", "open", "completed"}]
      /\ queue \in [Stop -> Int] /\ <<k, l>> \in Stop \X Listener
  BY DEF StopInv, StopTypes
<1>2. CASE reply[<<k, l>>] # "open"
  <2>1. reply' = reply /\ queue' = queue
    BY <1>2 DEF Complete
  <2>2. Counted'
    BY <2>1 DEF StopInv, Counted, Open
  <2> QED BY <1>1, <2>1, <2>2
<1>3. CASE reply[<<k, l>>] = "open"
  <2>1. /\ reply' = [reply EXCEPT ![<<k, l>>] = "completed"]
        /\ queue' = [queue EXCEPT ![k] = @ - 1]
    BY <1>3 DEF Complete
  <2>2. /\ reply' \in [Stop \X Listener -> {"none", "open", "completed"}]
        /\ reply'[<<k, l>>] = "completed"
        /\ \A j \in Stop, m \in Listener :
               ~(j = k /\ m = l) => reply'[<<j, m>>] = reply[<<j, m>>]
    BY <1>1, <2>1
  <2>3. /\ queue' \in [Stop -> Int] /\ queue'[k] = queue[k] - 1
        /\ \A j \in Stop : j # k => queue'[j] = queue[j]
    BY <1>1, <2>1
  <2>4. \A j \in Stop : j # k => Open(j)' = Open(j)
    BY <2>2 DEF Open
  <2>5. Open(k)' = Open(k) \ {l} /\ l \in Open(k)
    BY <1>3, <2>2 DEF Open
  <2>6. Cardinality(Open(k)') = Cardinality(Open(k)) - 1
    BY <2>5, OpenFinite, FS_RemoveElement
  <2>7. Counted'
    <3> SUFFICES ASSUME NEW j \in Stop
                 PROVE  /\ pub'[j] = "waiting" => queue'[j] = Cardinality(Open(j)')
                        /\ pub'[j] = "ok" => Open(j)' = {}
      BY DEF Counted, Open
    <3>1. /\ pub[j] = "waiting" => queue[j] = Cardinality(Open(j))
          /\ pub[j] = "ok" => Open(j) = {}
      BY DEF StopInv, Counted
    <3>2. CASE j = k
      BY <2>3, <2>5, <2>6, <3>1, <3>2
    <3>3. CASE j # k
      BY <2>3, <2>4, <3>1, <3>3
    <3> QED BY <3>2, <3>3
  <2> QED BY <1>3, <2>2, <2>3, <2>7
<1> QED BY <1>2, <1>3

LEMMA PublishOK ==
    ASSUME StopInv, ClientInv, NEW k \in Stop, Publish(k)
    PROVE  StopInv'
<1> DEFINE to == {l \in Listener : Wants(l, "stop")}
           shaken == {l \in to : record[l].shake}
<1>1. /\ pub[k] = "new" /\ pub' = [pub EXCEPT ![k] = "waiting"]
      /\ queue' = [queue EXCEPT ![k] = Cardinality(shaken)]
      /\ sent' = [x \in Stop \X Listener |->
            IF x[1] = k /\ x[2] \in to THEN "task" ELSE sent[x]]
      /\ reply' = [x \in Stop \X Listener |->
            IF x[1] = k /\ x[2] \in shaken THEN "open" ELSE reply[x]]
      /\ UNCHANGED <<told, waiting, early, used, dead>>
  BY DEF Publish, client, fate
<1>2. /\ shaken \subseteq to /\ to \subseteq Listener
      /\ \A l \in to : record[l] # None
  BY DEF Wants
<1> HIDE DEF to, shaken
<1>3. /\ StopTypes
      /\ pub \in [Stop -> {"new", "waiting", "ok", "timeout", "lost"}]
      /\ queue \in [Stop -> Int]
      /\ sent \in [Stop \X Listener -> {"none", "task", "called", "done"}]
      /\ reply \in [Stop \X Listener -> {"none", "open", "completed"}]
  BY DEF StopInv, StopTypes
<1>4. Cardinality(shaken) \in Nat
  BY <1>2, FS_Subset, FS_CardinalityType, StatePublicationConstants
<1>5. /\ pub'[k] = "waiting" /\ queue'[k] = Cardinality(shaken)
      /\ \A j \in Stop : j # k => pub'[j] = pub[j] /\ queue'[j] = queue[j]
      /\ pub' \in [Stop -> {"new", "waiting", "ok", "timeout", "lost"}]
      /\ queue' \in [Stop -> Int]
  BY <1>1, <1>3, <1>4
<1>6. \A j \in Stop, l \in Listener :
         /\ sent'[<<j, l>>] = IF j = k /\ l \in to THEN "task" ELSE sent[<<j, l>>]
         /\ reply'[<<j, l>>] = IF j = k /\ l \in shaken THEN "open" ELSE reply[<<j, l>>]
  BY <1>1
<1>7. /\ sent' \in [Stop \X Listener -> {"none", "task", "called", "done"}]
      /\ reply' \in [Stop \X Listener -> {"none", "open", "completed"}]
  BY <1>1, <1>3
<1>8. StopTypes'
  BY <1>1, <1>3, <1>5, <1>7 DEF StopTypes
<1>9. /\ \A l \in Listener : sent[<<k, l>>] = "none" /\ reply[<<k, l>>] = "none"
      /\ \A s \in Subscriber : told[<<k, s>>] = "none"
  BY <1>1 DEF StopInv, Threads, Unmade, Handed
<1>10. Counted'
  <2>1. Open(k)' = shaken
    BY <1>2, <1>6, <1>9 DEF Open
  <2>2. \A j \in Stop : j # k => Open(j)' = Open(j)
    BY <1>6 DEF Open
  <2> SUFFICES ASSUME NEW j \in Stop
               PROVE  /\ pub'[j] = "waiting" => queue'[j] = Cardinality(Open(j)')
                      /\ pub'[j] = "ok" => Open(j)' = {}
    BY DEF Counted, Open
  <2> QED BY <1>5, <2>1, <2>2 DEF StopInv, Counted
<1>11. \A l \in to : /\ l \in used
                     /\ l \notin dead => manager[Owner[l]] = l
  BY <1>2 DEF ClientInv, Managed
<1>12. Threads'
  <2>1. ASSUME NEW j \in Stop, j # k
        PROVE  (Unmade(j) /\ Handed(j) /\ OneEach(j) /\ Telling(j))'
    BY <1>1, <1>5, <1>6, <2>1, ThreadsKept DEF StopInv
  <2>2. \A l \in Listener : sent'[<<k, l>>] # "none" => l \in to /\ sent'[<<k, l>>] = "task"
    BY <1>6, <1>9
  <2>3. \A l \in Listener : <<k, l>> \notin waiting
    BY <1>9 DEF StopInv, Threads, Handed
  <2>4. \A l \in Listener : /\ reply'[<<k, l>>] # "none" => sent'[<<k, l>>] = "task"
                            /\ reply'[<<k, l>>] # "completed"
    BY <1>2, <1>6, <1>9
  <2>5. Unmade(k)'
    BY <1>5 DEF Unmade
  <2>6. Handed(k)'
    BY <1>1, <1>11, <2>2, <2>3, <2>4 DEF Handed
  <2>7. OneEach(k)'
    <3> SUFFICES ASSUME NEW l \in Listener \ dead', NEW m \in Listener \ dead',
                        sent'[<<k, l>>] # "none", sent'[<<k, m>>] # "none",
                        Owner[l] = Owner[m]
                 PROVE  l = m
      BY DEF OneEach
    <3>1. l \in to /\ m \in to /\ l \notin dead /\ m \notin dead
      BY <1>1, <2>2
    <3> QED BY <1>11, <3>1
  <2>8. Telling(k)'
    BY <1>1, <1>9 DEF Telling
  <2> QED BY <2>1, <2>5, <2>6, <2>7, <2>8 DEF Threads
<1>13. Finished'
  <2> SUFFICES ASSUME NEW j \in Stop, NEW l \in Listener \ dead',
                      reply'[<<j, l>>] = "completed", pub'[j] \in {"waiting", "ok"},
                      <<j, l>> \notin early', NEW s \in Shakes, Home[s] = Owner[l]
               PROVE  told'[<<j, s>>] \in {"none", "done"}
    BY DEF Finished
  <2>1. j # k
    BY <1>2, <1>6, <1>9
  <2> QED BY <1>1, <1>5, <1>6, <2>1 DEF StopInv, Finished
<1> QED BY <1>8, <1>10, <1>12, <1>13 DEF StopInv

LEMMA WaitForAllRepliesOK ==
    ASSUME StopInv, NEW k \in Stop, WaitForAllReplies(k)
    PROVE  StopInv'
<1>1. /\ pub[k] = "waiting"
      /\ pub' = [pub EXCEPT ![k] = IF queue[k] = 0 THEN "ok" ELSE "timeout"]
      /\ UNCHANGED <<queue, sent, reply, told, waiting, early, used, dead>>
  BY DEF WaitForAllReplies, client, fate
<1>2. pub \in [Stop -> {"new", "waiting", "ok", "timeout", "lost"}] /\ StopTypes
  BY DEF StopInv, StopTypes
<1>3. /\ pub'[k] = IF queue[k] = 0 THEN "ok" ELSE "timeout"
      /\ \A j \in Stop : j # k => pub'[j] = pub[j]
      /\ pub' \in [Stop -> {"new", "waiting", "ok", "timeout", "lost"}]
  BY <1>1, <1>2
<1>4. StopTypes'
  BY <1>1, <1>2, <1>3 DEF StopTypes
<1>5. Counted'
  <2>1. \A j \in Stop : Open(j)' = Open(j)
    BY <1>1 DEF Open
  <2>2. queue[k] = 0 => Open(k) = {}
    BY <1>1, OpenFinite, FS_EmptySet DEF StopInv, Counted
  <2> SUFFICES ASSUME NEW j \in Stop
               PROVE  /\ pub'[j] = "waiting" => queue'[j] = Cardinality(Open(j)')
                      /\ pub'[j] = "ok" => Open(j)' = {}
    BY DEF Counted, Open
  <2>3. /\ pub[j] = "waiting" => queue[j] = Cardinality(Open(j))
        /\ pub[j] = "ok" => Open(j) = {}
    BY DEF StopInv, Counted
  <2>4. CASE j = k
    BY <1>3, <2>1, <2>2, <2>4
  <2>5. CASE j # k
    BY <1>1, <1>3, <2>1, <2>3, <2>5
  <2> QED BY <2>4, <2>5
<1>6. Threads'
  <2>1. ASSUME NEW j \in Stop
        PROVE  (Unmade(j) /\ Handed(j) /\ OneEach(j) /\ Telling(j))'
    <3>1. Unmade(j)'
      BY <1>1, <1>3 DEF StopInv, Threads, Unmade
    <3>2. Handed(j)' /\ OneEach(j)' /\ Telling(j)'
      BY <1>1 DEF StopInv, Threads, Handed, OneEach, Telling
    <3> QED BY <3>1, <3>2
  <2> QED BY <2>1 DEF Threads
<1>7. Finished'
  <2> SUFFICES ASSUME NEW j \in Stop, NEW l \in Listener \ dead',
                      reply'[<<j, l>>] = "completed", pub'[j] \in {"waiting", "ok"},
                      <<j, l>> \notin early', NEW s \in Shakes, Home[s] = Owner[l]
               PROVE  told'[<<j, s>>] \in {"none", "done"}
    BY DEF Finished
  <2>1. pub[j] \in {"waiting", "ok"}
    BY <1>1, <1>3
  <2> QED BY <1>1, <2>1 DEF StopInv, Finished
<1> QED BY <1>4, <1>5, <1>6, <1>7 DEF StopInv

\* A thread that is through with listener l, whose reply may be complete now.
LEMMA ThreadDone ==
    ASSUME StopInv, NEW k \in Stop, NEW l \in Listener,
           sent[<<k, l>>] \in {"task", "called"},
           sent' = [sent EXCEPT ![<<k, l>>] = "done"], Complete(k, l),
           UNCHANGED <<pub, told, waiting, early, used, dead>>,
           l \in dead \/ sent[<<k, l>>] = "task"
    PROVE  StopInv'
<1>1. /\ StopTypes
      /\ sent \in [Stop \X Listener -> {"none", "task", "called", "done"}]
      /\ <<k, l>> \in Stop \X Listener
  BY DEF StopInv, StopTypes
<1>2. /\ sent'[<<k, l>>] = "done"
      /\ \A j \in Stop, m \in Listener :
             ~(j = k /\ m = l) => sent'[<<j, m>>] = sent[<<j, m>>]
      /\ sent' \in [Stop \X Listener -> {"none", "task", "called", "done"}]
  BY <1>1
<1>3. /\ reply' \in [Stop \X Listener -> {"none", "open", "completed"}]
      /\ queue' \in [Stop -> Int]
      /\ \A j \in Stop, m \in Listener :
             /\ reply'[<<j, m>>] = reply[<<j, m>>]
                \/ (j = k /\ m = l /\ reply[<<j, m>>] = "open"
                    /\ reply'[<<j, m>>] = "completed")
      /\ Counted'
  BY Completed
<1>4. StopTypes'
  BY <1>1, <1>2, <1>3 DEF StopTypes
<1>5. Threads'
  <2>1. ASSUME NEW j \in Stop, j # k
        PROVE  (Unmade(j) /\ Handed(j) /\ OneEach(j) /\ Telling(j))'
    BY <1>2, <1>3, <2>1, ThreadsKept DEF StopInv
  <2>2. Unmade(k) /\ Handed(k) /\ OneEach(k) /\ Telling(k)
    BY DEF StopInv, Threads
  <2>3. pub[k] # "new"
    BY <2>2 DEF Unmade
  <2>4. Unmade(k)'
    BY <2>3 DEF Unmade
  <2>5. Handed(k)'
    BY <1>2, <1>3, <2>2 DEF Handed
  <2>6. OneEach(k)'
    BY <1>2, <2>2 DEF OneEach
  <2>7. Telling(k)'
    BY <1>2, <2>2 DEF Telling
  <2> QED BY <2>1, <2>4, <2>5, <2>6, <2>7 DEF Threads
<1>6. Finished'
  <2> SUFFICES ASSUME NEW j \in Stop, NEW m \in Listener \ dead',
                      reply'[<<j, m>>] = "completed", pub'[j] \in {"waiting", "ok"},
                      <<j, m>> \notin early', NEW s \in Shakes, Home[s] = Owner[m]
               PROVE  told'[<<j, s>>] \in {"none", "done"}
    BY DEF Finished
  <2>1. CASE reply[<<j, m>>] = "completed"
    BY <2>1 DEF StopInv, Finished
  <2>2. CASE reply[<<j, m>>] # "completed"
    <3>1. j = k /\ m = l
      BY <1>3, <2>2
    <3>2. sent[<<k, l>>] = "task" /\ l \notin dead
      BY <3>1
    <3>3. s \in Subscriber
      BY StatePublicationConstants
    <3>4. told[<<k, s>>] = "none"
      <4> SUFFICES ASSUME told[<<k, s>>] # "none" PROVE FALSE
        OBVIOUS
      <4>1. PICK n \in Listener \ dead :
              Owner[n] = Home[s] /\ sent[<<k, n>>] \in {"called", "done"}
        BY <3>3 DEF StopInv, Threads, Telling
      <4>2. n = l
        BY <3>1, <3>2, <4>1 DEF StopInv, Threads, OneEach
      <4> QED BY <3>2, <4>1, <4>2
    <3> QED BY <3>1, <3>4
  <2> QED BY <2>1, <2>2
<1> QED BY <1>3, <1>4, <1>5, <1>6 DEF StopInv

\* A listener that is alive has started the threads of its subscribers.
LEMMA ListenerCalled ==
    ASSUME StopInv, ClientInv, NEW k \in Stop, NEW l \in Listener \ dead,
           sent[<<k, l>>] = "task",
           sent' = [sent EXCEPT ![<<k, l>>] = "called"],
           told' = [x \in Stop \X Subscriber |->
               IF x[1] = k /\ x[2] \in all[l] /\ "stop" \in States[x[2]]
               THEN "spawned" ELSE told[x]],
           waiting' = IF reply[<<k, l>>] = "none" THEN waiting
                      ELSE waiting \cup {<<k, l>>},
           UNCHANGED <<pub, queue, reply, early, used, dead>>
    PROVE  StopInv'
<1>1. /\ StopTypes
      /\ sent \in [Stop \X Listener -> {"none", "task", "called", "done"}]
      /\ told \in [Stop \X Subscriber -> {"none", "spawned", "working", "done"}]
      /\ waiting \subseteq Stop \X Listener /\ <<k, l>> \in Stop \X Listener
  BY DEF StopInv, StopTypes
<1>2. /\ sent'[<<k, l>>] = "called"
      /\ \A j \in Stop, m \in Listener :
             ~(j = k /\ m = l) => sent'[<<j, m>>] = sent[<<j, m>>]
      /\ sent' \in [Stop \X Listener -> {"none", "task", "called", "done"}]
  BY <1>1
<1>3. \A j \in Stop, s \in Subscriber :
         told'[<<j, s>>] = told[<<j, s>>] \/ (j = k /\ s \in all[l])
  OBVIOUS
<1>4. told' \in [Stop \X Subscriber -> {"none", "spawned", "working", "done"}]
  BY <1>1
<1>5. \A s \in all[l] : Home[s] = Owner[l]
  BY DEF ClientInv, Managed
<1>6. /\ waiting' \subseteq Stop \X Listener
      /\ \A j \in Stop, m \in Listener :
             <<j, m>> \in waiting' => <<j, m>> \in waiting \/ (j = k /\ m = l)
  BY <1>1
<1>7. StopTypes'
  BY <1>1, <1>2, <1>4, <1>6 DEF StopTypes
<1>8. Counted'
  BY DEF StopInv, Counted, Open
<1>9. Unmade(k) /\ Handed(k) /\ OneEach(k) /\ Telling(k)
  BY DEF StopInv, Threads
<1>10. Threads'
  <2>1. ASSUME NEW j \in Stop, j # k
        PROVE  (Unmade(j) /\ Handed(j) /\ OneEach(j) /\ Telling(j))'
    BY <1>2, <1>3, <1>6, <2>1, ThreadsKept DEF StopInv
  <2>2. pub[k] # "new"
    BY <1>9 DEF Unmade
  <2>3. Unmade(k)'
    BY <2>2 DEF Unmade
  <2>4. Handed(k)'
    BY <1>2, <1>6, <1>9 DEF Handed
  <2>5. OneEach(k)'
    BY <1>2, <1>9 DEF OneEach
  <2>6. Telling(k)'
    <3> SUFFICES ASSUME NEW s \in Subscriber, told'[<<k, s>>] # "none"
                 PROVE  \E m \in Listener \ dead' :
                            Owner[m] = Home[s] /\ sent'[<<k, m>>] \in {"called", "done"}
      BY DEF Telling
    <3>1. CASE s \in all[l]
      BY <1>2, <1>5, <3>1
    <3>2. CASE s \notin all[l]
      <4>1. told[<<k, s>>] # "none"
        BY <1>3, <3>2
      <4>2. PICK m \in Listener \ dead :
              Owner[m] = Home[s] /\ sent[<<k, m>>] \in {"called", "done"}
        BY <1>9, <4>1 DEF Telling
      <4>3. sent'[<<k, m>>] \in {"called", "done"}
        BY <1>2, <4>2
      <4> QED BY <4>2, <4>3
    <3> QED BY <3>1, <3>2
  <2> QED BY <2>1, <2>3, <2>4, <2>5, <2>6 DEF Threads
<1>11. Finished'
  <2> SUFFICES ASSUME NEW j \in Stop, NEW m \in Listener \ dead',
                      reply'[<<j, m>>] = "completed", pub'[j] \in {"waiting", "ok"},
                      <<j, m>> \notin early', NEW s \in Shakes, Home[s] = Owner[m]
               PROVE  told'[<<j, s>>] \in {"none", "done"}
    BY DEF Finished
  <2>1. s \in Subscriber
    BY StatePublicationConstants
  <2>2. told[<<j, s>>] \in {"none", "done"}
    BY DEF StopInv, Finished
  <2>3. ~(j = k /\ s \in all[l])
    <3> SUFFICES ASSUME j = k, s \in all[l] PROVE FALSE
      OBVIOUS
    <3>1. Owner[m] = Owner[l] /\ m \notin dead
      BY <1>5
    <3>2. sent[<<k, m>>] # "none"
      BY <1>9 DEF Handed
    <3>3. m = l
      BY <1>9, <3>1, <3>2 DEF OneEach
    <3> QED BY <1>9, <3>3 DEF Handed
  <2> QED BY <1>3, <2>1, <2>2, <2>3
<1> QED BY <1>7, <1>8, <1>10, <1>11 DEF StopInv

LEMMA OnStateChangedOK ==
    ASSUME StopInv, ClientInv, NEW k \in Stop, NEW l \in Listener, OnStateChanged(k, l)
    PROVE  StopInv'
<1>1. sent[<<k, l>>] = "task" /\ UNCHANGED <<pub, early, used, dead>>
  BY DEF OnStateChanged, client, fate
<1>2. CASE /\ l \notin dead
           /\ sent' = [sent EXCEPT ![<<k, l>>] = "called"]
           /\ told' = [x \in Stop \X Subscriber |->
                 IF x[1] = k /\ x[2] \in all[l] /\ "stop" \in States[x[2]]
                 THEN "spawned" ELSE told[x]]
           /\ waiting' = IF reply[<<k, l>>] = "none" THEN waiting
                         ELSE waiting \cup {<<k, l>>}
           /\ UNCHANGED <<reply, queue>>
  BY <1>1, <1>2, ListenerCalled
<1>3. CASE /\ sent' = [sent EXCEPT ![<<k, l>>] = "done"]
           /\ Complete(k, l)
           /\ UNCHANGED <<told, waiting>>
  BY <1>1, <1>3, ThreadDone
<1> QED BY <1>2, <1>3 DEF OnStateChanged

LEMMA CallReturnsOK ==
    ASSUME StopInv, NEW k \in Stop, NEW l \in Listener, CallReturns(k, l)
    PROVE  StopInv'
<1>1. /\ sent[<<k, l>>] = "called" /\ sent' = [sent EXCEPT ![<<k, l>>] = "done"]
      /\ UNCHANGED <<pub, told, waiting, early, used, dead>>
  BY DEF CallReturns, client, fate
<1>2. CASE l \in dead
  <2>1. Complete(k, l)
    BY <1>2 DEF CallReturns
  <2> QED BY <1>1, <1>2, <2>1, ThreadDone
<1>3. CASE l \notin dead
  <2>1. UNCHANGED <<reply, queue>>
    BY <1>3 DEF CallReturns
  <2>2. /\ StopTypes /\ sent \in [Stop \X Listener -> {"none", "task", "called", "done"}]
        /\ <<k, l>> \in Stop \X Listener
    BY DEF StopInv, StopTypes
  <2>3. /\ sent'[<<k, l>>] = "done"
        /\ \A j \in Stop, m \in Listener :
               ~(j = k /\ m = l) => sent'[<<j, m>>] = sent[<<j, m>>]
        /\ sent' \in [Stop \X Listener -> {"none", "task", "called", "done"}]
    BY <1>1, <2>2
  <2>4. StopTypes'
    BY <1>1, <2>1, <2>2, <2>3 DEF StopTypes
  <2>5. Counted'
    BY <1>1, <2>1 DEF StopInv, Counted, Open
  <2>6. Threads'
    <3>1. ASSUME NEW j \in Stop, j # k
          PROVE  (Unmade(j) /\ Handed(j) /\ OneEach(j) /\ Telling(j))'
      BY <1>1, <2>1, <2>3, <3>1, ThreadsKept DEF StopInv
    <3>2. Unmade(k) /\ Handed(k) /\ OneEach(k) /\ Telling(k)
      BY DEF StopInv, Threads
    <3>3. pub[k] # "new"
      BY <1>1, <3>2 DEF Unmade
    <3>4. Unmade(k)'
      BY <1>1, <3>3 DEF Unmade
    <3>5. Handed(k)'
      BY <1>1, <2>1, <2>3, <3>2 DEF Handed
    <3>6. OneEach(k)'
      BY <1>1, <2>3, <3>2 DEF OneEach
    <3>7. Telling(k)'
      BY <1>1, <2>3, <3>2 DEF Telling
    <3> QED BY <3>1, <3>4, <3>5, <3>6, <3>7 DEF Threads
  <2>7. Finished'
    BY <1>1, <2>1 DEF StopInv, Finished
  <2> QED BY <2>4, <2>5, <2>6, <2>7 DEF StopInv
<1> QED BY <1>2, <1>3

LEMMA WaitForCompleteOK ==
    ASSUME StopInv, NEW k \in Stop, NEW l \in Listener, WaitForComplete(k, l)
    PROVE  StopInv'
<1>1. /\ <<k, l>> \in waiting /\ waiting' = waiting \ {<<k, l>>}
      /\ early' = IF Unfinished(k, l) = {} THEN early ELSE early \cup {<<k, l>>}
      /\ Complete(k, l)
      /\ UNCHANGED <<pub, sent, told, used, dead>>
  BY DEF WaitForComplete, client, fate
<1>2. StopTypes /\ waiting \subseteq Stop \X Listener /\ early \subseteq Stop \X Listener
  BY DEF StopInv, StopTypes
<1>3. /\ reply' \in [Stop \X Listener -> {"none", "open", "completed"}]
      /\ queue' \in [Stop -> Int]
      /\ \A j \in Stop, m \in Listener :
             /\ reply'[<<j, m>>] = reply[<<j, m>>]
                \/ (j = k /\ m = l /\ reply[<<j, m>>] = "open"
                    /\ reply'[<<j, m>>] = "completed")
      /\ Counted'
  BY <1>1, Completed
<1>4. early \subseteq early' /\ early' \subseteq Stop \X Listener
  BY <1>1, <1>2
<1>5. StopTypes'
  BY <1>1, <1>2, <1>3, <1>4 DEF StopTypes
<1>6. Threads'
  <2>1. ASSUME NEW j \in Stop
        PROVE  (Unmade(j) /\ Handed(j) /\ OneEach(j) /\ Telling(j))'
    <3>1. Unmade(j) /\ Handed(j) /\ OneEach(j) /\ Telling(j)
      BY DEF StopInv, Threads
    <3>2. Unmade(j)' /\ OneEach(j)' /\ Telling(j)'
      BY <1>1, <3>1 DEF Unmade, OneEach, Telling
    <3>3. sent[<<k, l>>] \in {"called", "done"}
      BY <1>1 DEF StopInv, Threads, Handed
    <3>4. Handed(j)'
      BY <1>1, <1>3, <3>1, <3>3 DEF Handed
    <3> QED BY <3>2, <3>4
  <2> QED BY <2>1 DEF Threads
<1>7. Finished'
  <2> SUFFICES ASSUME NEW j \in Stop, NEW m \in Listener \ dead',
                      reply'[<<j, m>>] = "completed", pub'[j] \in {"waiting", "ok"},
                      <<j, m>> \notin early', NEW s \in Shakes, Home[s] = Owner[m]
               PROVE  told'[<<j, s>>] \in {"none", "done"}
    BY DEF Finished
  <2>1. CASE reply[<<j, m>>] = "completed"
    BY <1>1, <1>4, <2>1 DEF StopInv, Finished
  <2>2. CASE reply[<<j, m>>] # "completed"
    <3>1. j = k /\ m = l /\ reply[<<k, l>>] = "open"
      BY <1>3, <2>2
    <3>2. Unfinished(k, l) = {}
      BY <1>1, <3>1
    <3>3. told[<<k, s>>] # "working" /\ told[<<k, s>>] # "spawned"
      BY <3>1, <3>2 DEF Unfinished, Told
    <3>4. told[<<k, s>>] \in {"none", "spawned", "working", "done"}
      BY <1>2, StatePublicationConstants DEF StopTypes
    <3> QED BY <1>1, <3>1, <3>3, <3>4
  <2> QED BY <2>1, <2>2
<1> QED BY <1>3, <1>5, <1>6, <1>7 DEF StopInv

\* A subscriber goes on: it is counted, or done.
LEMMA SubscriberGoesOn ==
    ASSUME StopInv, NEW k \in Stop, NEW s \in Subscriber,
           NEW to \in {"working", "done"},
           told[<<k, s>>] \in {"spawned", "working"},
           told' = [told EXCEPT ![<<k, s>>] = to],
           UNCHANGED <<pub, queue, sent, reply, waiting, early, used, dead>>
    PROVE  StopInv'
<1>1. /\ StopTypes /\ <<k, s>> \in Stop \X Subscriber
      /\ told \in [Stop \X Subscriber -> {"none", "spawned", "working", "done"}]
  BY DEF StopInv, StopTypes
<1>2. /\ told'[<<k, s>>] = to
      /\ \A j \in Stop, r \in Subscriber :
             ~(j = k /\ r = s) => told'[<<j, r>>] = told[<<j, r>>]
      /\ told' \in [Stop \X Subscriber -> {"none", "spawned", "working", "done"}]
  BY <1>1
<1>3. StopTypes'
  BY <1>1, <1>2 DEF StopTypes
<1>4. Counted'
  BY DEF StopInv, Counted, Open
<1>5. Threads'
  <2>1. ASSUME NEW j \in Stop
        PROVE  (Unmade(j) /\ Handed(j) /\ OneEach(j) /\ Telling(j))'
    <3>1. Unmade(j) /\ Handed(j) /\ OneEach(j) /\ Telling(j)
      BY DEF StopInv, Threads
    <3>2. Handed(j)' /\ OneEach(j)'
      BY <3>1 DEF Handed, OneEach
    <3>3. Unmade(j)'
      BY <1>2, <3>1 DEF Unmade
    <3>4. \A r \in Subscriber : told'[<<j, r>>] # "none" => told[<<j, r>>] # "none"
      BY <1>2
    <3>5. Telling(j)'
      BY <3>1, <3>4 DEF Telling
    <3> QED BY <3>2, <3>3, <3>5
  <2> QED BY <2>1 DEF Threads
<1>6. Finished'
  <2> SUFFICES ASSUME NEW j \in Stop, NEW m \in Listener \ dead',
                      reply'[<<j, m>>] = "completed", pub'[j] \in {"waiting", "ok"},
                      <<j, m>> \notin early', NEW r \in Shakes, Home[r] = Owner[m]
               PROVE  told'[<<j, r>>] \in {"none", "done"}
    BY DEF Finished
  <2>1. told[<<j, r>>] \in {"none", "done"} /\ r \in Subscriber
    BY StatePublicationConstants DEF StopInv, Finished
  <2> QED BY <1>2, <2>1
<1> QED BY <1>3, <1>4, <1>5, <1>6 DEF StopInv

LEMMA NotifySubscriberOK ==
    ASSUME StopInv, NEW k \in Stop, NEW s \in Subscriber, NotifySubscriber(k, s)
    PROVE  StopInv'
<1>1. /\ told[<<k, s>>] = "spawned" /\ told' = [told EXCEPT ![<<k, s>>] = "working"]
      /\ UNCHANGED <<pub, queue, sent, reply, waiting, early, used, dead>>
  BY DEF NotifySubscriber, client, fate
<1> QED BY <1>1, SubscriberGoesOn

LEMMA SubscriberCompletesOK ==
    ASSUME StopInv, NEW k \in Stop, NEW s \in Subscriber, SubscriberCompletes(k, s)
    PROVE  StopInv'
<1>1. /\ told[<<k, s>>] = "working" /\ told' = [told EXCEPT ![<<k, s>>] = "done"]
      /\ UNCHANGED <<pub, queue, sent, reply, waiting, early, used, dead>>
  BY DEF SubscriberCompletes, client, fate
<1> QED BY <1>1, SubscriberGoesOn

LEMMA DieKeepsStop ==
    ASSUME StopInv, NEW p \in Process, Die(p)
    PROVE  StopInv'
<1>1. PICK gone : gone = {l \in used \ dead : Owner[l] = p}
  OBVIOUS
<1>2. /\ dead' = dead \cup gone
      /\ told' = [x \in Stop \X Subscriber |->
                    IF Home[x[2]] = p THEN "none" ELSE told[x]]
      /\ waiting' = {x \in waiting : x[2] \notin gone}
      /\ UNCHANGED <<pub, queue, sent, reply, early, used>>
  BY <1>1 DEF Die
<1>3. /\ StopTypes /\ waiting' \subseteq waiting
      /\ told \in [Stop \X Subscriber -> {"none", "spawned", "working", "done"}]
  BY <1>2 DEF StopInv, StopTypes
<1>4. /\ \A j \in Stop, s \in Subscriber :
             told'[<<j, s>>] = IF Home[s] = p THEN "none" ELSE told[<<j, s>>]
      /\ told' \in [Stop \X Subscriber -> {"none", "spawned", "working", "done"}]
  BY <1>2, <1>3
<1>5. StopTypes'
  BY <1>2, <1>3, <1>4 DEF StopTypes
<1>6. Counted'
  BY <1>2 DEF StopInv, Counted, Open
<1>7. Threads'
  <2>1. ASSUME NEW j \in Stop
        PROVE  (Unmade(j) /\ Handed(j) /\ OneEach(j) /\ Telling(j))'
    <3>1. Unmade(j) /\ Handed(j) /\ OneEach(j) /\ Telling(j)
      BY DEF StopInv, Threads
    <3>2. Unmade(j)'
      BY <1>2, <1>4, <3>1 DEF Unmade
    <3>3. Handed(j)'
      BY <1>2, <1>3, <3>1 DEF Handed
    <3>4. OneEach(j)'
      BY <1>2, <3>1 DEF OneEach
    <3>5. Telling(j)'
      <4> SUFFICES ASSUME NEW s \in Subscriber, told'[<<j, s>>] # "none"
                   PROVE  \E m \in Listener \ dead' :
                              Owner[m] = Home[s] /\ sent'[<<j, m>>] \in {"called", "done"}
        BY DEF Telling
      <4>1. Home[s] # p /\ told[<<j, s>>] # "none"
        BY <1>4
      <4>2. PICK m \in Listener \ dead :
              Owner[m] = Home[s] /\ sent[<<j, m>>] \in {"called", "done"}
        BY <3>1, <4>1 DEF Telling
      <4>3. m \notin dead'
        BY <1>1, <1>2, <4>1, <4>2
      <4> QED BY <1>2, <4>2, <4>3
    <3> QED BY <3>2, <3>3, <3>4, <3>5
  <2> QED BY <2>1 DEF Threads
<1>8. Finished'
  <2> SUFFICES ASSUME NEW j \in Stop, NEW m \in Listener \ dead',
                      reply'[<<j, m>>] = "completed", pub'[j] \in {"waiting", "ok"},
                      <<j, m>> \notin early', NEW s \in Shakes, Home[s] = Owner[m]
               PROVE  told'[<<j, s>>] \in {"none", "done"}
    BY DEF Finished
  <2>1. s \in Subscriber /\ m \notin dead
    BY <1>2, StatePublicationConstants
  <2>2. told[<<j, s>>] \in {"none", "done"}
    BY <1>2, <2>1 DEF StopInv, Finished
  <2> QED BY <1>4, <2>1, <2>2
<1> QED BY <1>5, <1>6, <1>7, <1>8 DEF StopInv

LEMMA CrashKeepsStop ==
    ASSUME StopInv, Crash
    PROVE  StopInv'
<1>1. /\ pub' = [k \in Stop |-> IF pub[k] = "waiting" THEN "lost" ELSE pub[k]]
      /\ queue' = [k \in Stop |-> 0]
      /\ sent' = [x \in Stop \X Listener |-> IF sent[x] = "none" THEN "none" ELSE "done"]
      /\ reply' = [x \in Stop \X Listener |->
                     IF reply[x] = "none" THEN "none" ELSE "completed"]
      /\ UNCHANGED <<told, waiting, early, used, dead>>
  BY DEF Crash
<1>2. /\ StopTypes /\ pub \in [Stop -> {"new", "waiting", "ok", "timeout", "lost"}]
      /\ reply \in [Stop \X Listener -> {"none", "open", "completed"}]
  BY DEF StopInv, StopTypes
<1>3. \A k \in Stop : pub'[k] = IF pub[k] = "waiting" THEN "lost" ELSE pub[k]
  BY <1>1
<1>4. \A k \in Stop, l \in Listener :
         /\ sent'[<<k, l>>] = IF sent[<<k, l>>] = "none" THEN "none" ELSE "done"
         /\ reply'[<<k, l>>] = IF reply[<<k, l>>] = "none" THEN "none" ELSE "completed"
  BY <1>1
<1>5. StopTypes'
  <2>1. /\ pub' \in [Stop -> {"new", "waiting", "ok", "timeout", "lost"}]
        /\ queue' \in [Stop -> Int]
    BY <1>1, <1>2
  <2>2. /\ sent' \in [Stop \X Listener -> {"none", "task", "called", "done"}]
        /\ reply' \in [Stop \X Listener -> {"none", "open", "completed"}]
    BY <1>1
  <2> QED BY <1>1, <1>2, <2>1, <2>2 DEF StopTypes
<1>6. Counted'
  <2>1. \A k \in Stop : Open(k)' = {}
    BY <1>4 DEF Open
  <2>2. \A k \in Stop : pub'[k] # "waiting"
    BY <1>3
  <2> QED BY <2>1, <2>2 DEF Counted, Open
<1>7. Threads'
  <2>1. ASSUME NEW j \in Stop
        PROVE  (Unmade(j) /\ Handed(j) /\ OneEach(j) /\ Telling(j))'
    <3>1. Unmade(j) /\ Handed(j) /\ OneEach(j) /\ Telling(j)
      BY DEF StopInv, Threads
    <3>2. Unmade(j)'
      BY <1>1, <1>3, <1>4, <3>1 DEF Unmade
    <3>3. Handed(j)'
      BY <1>1, <1>4, <3>1 DEF Handed
    <3>4. OneEach(j)'
      BY <1>1, <1>4, <3>1 DEF OneEach
    <3>5. Telling(j)'
      BY <1>1, <1>4, <3>1 DEF Telling
    <3> QED BY <3>2, <3>3, <3>4, <3>5
  <2> QED BY <2>1 DEF Threads
<1>8. Finished'
  <2> SUFFICES ASSUME NEW j \in Stop, NEW m \in Listener \ dead',
                      reply'[<<j, m>>] = "completed", pub'[j] \in {"waiting", "ok"},
                      <<j, m>> \notin early', NEW s \in Shakes, Home[s] = Owner[m]
               PROVE  told'[<<j, s>>] \in {"none", "done"}
    BY DEF Finished
  <2>1. pub[j] = "ok"
    BY <1>3
  <2>2. reply[<<j, m>>] # "none" /\ reply[<<j, m>>] # "open"
    BY <1>4, <2>1 DEF StopInv, Counted, Open
  <2>3. reply[<<j, m>>] = "completed"
    BY <1>2, <2>2
  <2> QED BY <1>1, <2>1, <2>3 DEF StopInv, Finished
<1> QED BY <1>5, <1>6, <1>7, <1>8 DEF StopInv

-----------------------------------------------------------------------------
LEMMA ServiceKept ==
    ASSUME ServiceInv, UNCHANGED <<service, last, got>>
    PROVE  ServiceInv'
<1>1. UNCHANGED <<record, deque, stray, robbed, strayed, last, got>>
  BY DEF service
<1> QED BY <1>1 DEF ServiceInv, ServiceTypes, Served, Ordered, Wants, UidOf, Newer, Own

LEMMA InitOK == Init => IInv
<1> SUFFICES ASSUME Init PROVE ServiceInv /\ StopInv /\ ClientInv
  BY InParts
<1>1. ServiceInv
  <2>1. ServiceTypes
    BY DEF Init, ServiceTypes
  <2>2. (\A l \in Listener : record[l] = None /\ got[l] = 0) /\ \A u \in Uids : deque[u] = None
    BY DEF Init
  <2>3. Served
    BY <2>2 DEF Served, Wants
  <2>4. Ordered
    BY <2>2 DEF Init, Ordered
  <2> QED BY <2>1, <2>3, <2>4 DEF ServiceInv
<1>2. StopInv
  <2>1. StopTypes
    BY DEF Init, StopTypes
  <2>2. /\ \A k \in Stop : pub[k] = "new"
        /\ \A k \in Stop, l \in Listener : sent[<<k, l>>] = "none" /\ reply[<<k, l>>] = "none"
        /\ \A k \in Stop, s \in Subscriber : told[<<k, s>>] = "none"
    BY DEF Init
  <2>3. Counted /\ Finished
    BY <2>2 DEF Counted, Finished
  <2>4. Threads
    BY <2>2 DEF Init, Threads, Unmade, Handed, OneEach, Telling
  <2> QED BY <2>1, <2>3, <2>4 DEF StopInv
<1>3. ClientInv
  <2>1. ClientTypes
    BY DEF Init, ClientTypes
  <2>2. /\ \A p \in Process : manager[p] = None
        /\ \A l \in Listener : record[l] = None /\ call[l] = None /\ all[l] = {}
    BY DEF Init
  <2>3. Managed
    BY <2>2 DEF Init, Managed
  <2>4. Asked /\ Covered
    BY <2>2 DEF Asked, Covered
  <2> QED BY <2>1, <2>3, <2>4 DEF ClientInv
<1> QED BY <1>1, <1>2, <1>3

\* Every step keeps the three parts.
LEMMA NextOK ==
    ASSUME ServiceInv, StopInv, ClientInv, [Next]_vars
    PROVE  ServiceInv' /\ StopInv' /\ ClientInv'
<1>1. CASE PublishSwitch
  <2>1. UNCHANGED <<record, stop, client, fate>> /\ used' = used /\ dead' = dead
    BY <1>1 DEF PublishSwitch, client, fate
  <2> QED BY <1>1, <2>1, PublishSwitchOK, StopKept, ClientKept
<1>2. ASSUME NEW u \in Uids, ConsumerTask(u)
      PROVE  ServiceInv' /\ StopInv' /\ ClientInv'
  <2>1. UNCHANGED <<record, stop, client, fate>> /\ used' = used /\ dead' = dead
    BY <1>2 DEF ConsumerTask, client, fate
  <2> QED BY <1>2, <2>1, ConsumerTaskOK, StopKept, ClientKept
<1>3. ASSUME NEW u \in Uids, SendSwitch(u)
      PROVE  ServiceInv' /\ StopInv' /\ ClientInv'
  <2>1. UNCHANGED <<record, stop, client, fate>> /\ used' = used /\ dead' = dead
    BY <1>3 DEF SendSwitch, client, fate
  <2> QED BY <1>3, <2>1, SendSwitchOK, StopKept, ClientKept
<1>4. ASSUME NEW w \in stray, SendStray(w)
      PROVE  ServiceInv' /\ StopInv' /\ ClientInv'
  <2>1. UNCHANGED <<record, stop, client, fate>> /\ used' = used /\ dead' = dead
    BY <1>4 DEF SendStray, client, fate
  <2> QED BY <1>4, <2>1, SendStrayOK, StopKept, ClientKept
<1>5. ASSUME NEW k \in Stop, Publish(k) \/ WaitForAllReplies(k)
      PROVE  ServiceInv' /\ StopInv' /\ ClientInv'
  <2>1. UNCHANGED <<service, last, got>> /\ UNCHANGED <<record, client, fate>>
    BY <1>5 DEF Publish, WaitForAllReplies, service
  <2> QED BY <1>5, <2>1, PublishOK, WaitForAllRepliesOK, ServiceKept, ClientKept
<1>6. ASSUME NEW k \in Stop, NEW l \in Listener,
             OnStateChanged(k, l) \/ CallReturns(k, l) \/ WaitForComplete(k, l)
      PROVE  ServiceInv' /\ StopInv' /\ ClientInv'
  <2>1. UNCHANGED <<service, last, got>> /\ UNCHANGED <<record, client, fate>>
    BY <1>6 DEF OnStateChanged, CallReturns, WaitForComplete, service
  <2> QED BY <1>6, <2>1, OnStateChangedOK, CallReturnsOK, WaitForCompleteOK, ServiceKept, ClientKept
<1>7. ASSUME NEW k \in Stop, NEW s \in Subscriber,
             NotifySubscriber(k, s) \/ SubscriberCompletes(k, s)
      PROVE  ServiceInv' /\ StopInv' /\ ClientInv'
  <2>1. UNCHANGED <<service, last, got>> /\ UNCHANGED <<record, client, fate>>
    BY <1>7 DEF NotifySubscriber, SubscriberCompletes, service
  <2> QED BY <1>7, <2>1, NotifySubscriberOK, SubscriberCompletesOK, ServiceKept, ClientKept
<1>8. ASSUME NEW s \in Subscriber, Subscribe(s) \/ Unsubscribe(s)
      PROVE  ServiceInv' /\ StopInv' /\ ClientInv'
  <2>1. UNCHANGED <<service, last, got>> /\ UNCHANGED stop
    BY <1>8 DEF Subscribe, Unsubscribe
  <2>2. ClientInv' /\ used \subseteq used' /\ dead' = dead
    BY <1>8, SubscribeOK, UnsubscribeOK
  <2> QED BY <2>1, <2>2, ServiceKept, StopKept
<1>9. ASSUME NEW l \in Listener, CallServed(l) \/ OnRemoteDied(l)
      PROVE  ServiceInv' /\ StopInv' /\ ClientInv'
  <2>1. UNCHANGED stop
    BY <1>9 DEF CallServed, OnRemoteDied
  <2>2. ServiceInv' /\ ClientInv' /\ used' = used /\ dead' = dead
    BY <1>9, CallServedOK, OnRemoteDiedOK
  <2> QED BY <2>1, <2>2, StopKept
<1>10. ASSUME NEW l \in Listener, CallFails(l)
       PROVE  ServiceInv' /\ StopInv' /\ ClientInv'
  <2>1. UNCHANGED <<service, last, got>> /\ UNCHANGED stop
    BY <1>10 DEF CallFails
  <2>2. ClientInv' /\ used' = used /\ dead' = dead
    BY <1>10, CallFailsOK
  <2> QED BY <2>1, <2>2, ServiceKept, StopKept
<1>11. ASSUME NEW p \in Process, RestoreListenerRecords(p)
       PROVE  ServiceInv' /\ StopInv' /\ ClientInv'
  <2>1. UNCHANGED stop
    BY <1>11 DEF RestoreListenerRecords
  <2>2. ServiceInv' /\ ClientInv' /\ used' = used /\ dead' = dead
    BY <1>11, RestoreListenerRecordsOK
  <2> QED BY <2>1, <2>2, StopKept
<1>12. ASSUME NEW p \in Process, Die(p)
       PROVE  ServiceInv' /\ StopInv' /\ ClientInv'
  <2>1. UNCHANGED <<service, last, got>>
    BY <1>12 DEF Die
  <2> QED BY <1>12, <2>1, ServiceKept, DieKeepsStop, DieKeepsClients
<1>13. CASE Crash
  BY <1>13, CrashEmptiesService, CrashKeepsStop, CrashKeepsClients
<1>14. CASE UNCHANGED vars
  <2>1. UNCHANGED <<service, last, got>> /\ UNCHANGED stop /\ UNCHANGED <<client, fate>>
    BY <1>14 DEF vars
  <2>2. record' = record /\ used' = used /\ dead' = dead
    BY <2>1 DEF service, client, fate
  <2> QED BY <2>1, <2>2, ServiceKept, StopKept, ClientKept
<1> QED
  BY <1>1, <1>2, <1>3, <1>4, <1>5, <1>6, <1>7, <1>8, <1>9, <1>10, <1>11, <1>12, <1>13,
     <1>14 DEF Next

LEMMA Inductive == Spec => []IInv
<1>1. IInv /\ [Next]_vars => IInv'
  BY NextOK, InParts, InPartsNext
<1> QED BY <1>1, InitOK, PTL DEF Spec

-----------------------------------------------------------------------------
\* Records, deques, publications and calls keep their types, whatever fails and
\* whoever dies.
THEOREM TypeCorrect == Spec => []TypeOK
<1>1. IInv => TypeOK
  BY DEF IInv
<1> QED BY <1>1, Inductive, PTL

\* OsAccountSubscribeManager knows every subscriber whose client has no call
\* under way and has heard of the last restart, through failing calls, deaths
\* and crashes.
THEOREM SubscribersAreRecorded == Spec => []SubscribedIsRecorded
<1>1. ASSUME IInv PROVE SubscribedIsRecorded
  <2> SUFFICES ASSUME NEW p \in Process, manager[p] # None, call[manager[p]] = None,
                      p \notin restore, all[manager[p]] # {}
               PROVE  /\ record[manager[p]] # None
                      /\ TotalSubscribeInfo(all[manager[p]]).states
                             \subseteq record[manager[p]].states
                      /\ Wants(manager[p], "switch") /\ manager[p] \notin robbed
                         => deque[Uid[p]] # None
    BY DEF SubscribedIsRecorded
  <2>1. PICK l : l = manager[p]
    OBVIOUS
  <2>2. l \in Listener /\ Owner[l] = p /\ Base(l) = all[l] /\ Knows(l, Base(l))
    BY <1>1, <2>1 DEF IInv, TypeOK, Managed, Covered, Base
  <2>3. Wants(l, "switch") /\ l \notin robbed => deque[UidOf(l)] # None
    BY <1>1, <2>2 DEF IInv, Served
  <2> QED BY <2>1, <2>2, <2>3 DEF Knows, UidOf
<1> QED BY <1>1, Inductive, PTL

-----------------------------------------------------------------------------
(* The threads of deques that were erased.                                 *)

\* Nothing in a deque is for listener l.
NotDue(d, l) ==
    d # None => /\ \A i \in 1..Len(d.work) : d.work[i].to # l
                /\ d.now # <<>> => d.now[1].to # l

\* Listener l was removed, and no client will ever ask for it again.
Retired(l) ==
    /\ l \in used /\ record[l] = None /\ call[l] = None /\ manager[Owner[l]] # l
    /\ NotDue(deque[UidOf(l)], l)

\* What the thread of an erased deque still sends to the listener whose removal
\* erased it is newer than what the listener got, and the last that it gets.
Late ==
    \A w \in stray :
        w.to \notin strayed \cup dead =>
            /\ w.n > got[w.to] /\ Retired(w.to)
            /\ \A x \in stray : x.to = w.to => x = w

LEMMA LateKept ==
    ASSUME ServiceInv, Late,
           stray' \subseteq stray, strayed \subseteq strayed', dead \subseteq dead',
           \A l \in Listener : Retired(l) => Retired(l)',
           \A w \in stray' : w.to \notin strayed \cup dead => got'[w.to] = got[w.to]
    PROVE  Late'
<1> SUFFICES ASSUME NEW w \in stray', w.to \notin strayed' \cup dead'
             PROVE  /\ w.n > got'[w.to] /\ Retired(w.to)'
                    /\ \A x \in stray' : x.to = w.to => x = w
  BY DEF Late, Retired
<1>1. w \in stray /\ w.to \notin strayed \cup dead /\ w.to \in Listener
  BY TaskParts DEF ServiceInv, ServiceTypes
<1>2. /\ w.n > got[w.to] /\ Retired(w.to)
      /\ \A x \in stray : x.to = w.to => x = w
  BY <1>1 DEF Late
<1> QED BY <1>1, <1>2

LEMMA StaysRetired ==
    ASSUME NEW l \in Listener, Retired(l), used \subseteq used', record'[l] = None,
           call'[l] = None, manager'[Owner[l]] # l, NotDue(deque'[UidOf(l)], l)
    PROVE  Retired(l)'
BY DEF Retired, NotDue, UidOf

\* A step that leaves the service alone, and what no client does again.
LEMMA LateUntouched ==
    ASSUME ServiceInv, Late, UNCHANGED <<service, got>>,
           used \subseteq used', dead \subseteq dead',
           \A l \in Listener : Retired(l) => call'[l] = None /\ manager'[Owner[l]] # l
    PROVE  Late'
<1>1. UNCHANGED <<record, deque, stray, strayed>> /\ got' = got
  BY DEF service
<1>2. \A l \in Listener : Retired(l) => Retired(l)'
  <2> SUFFICES ASSUME NEW l \in Listener, Retired(l) PROVE Retired(l)'
    OBVIOUS
  <2>1. record'[l] = None /\ NotDue(deque'[UidOf(l)], l)
    BY <1>1 DEF Retired
  <2> QED BY <2>1, StaysRetired
<1> QED BY <1>1, <1>2, LateKept

\* A step that changes only deques and what the listeners got.
LEMMA LateServed ==
    ASSUME ServiceInv, Late, UNCHANGED <<record, client, fate, strayed>>,
           stray' \subseteq stray,
           \A l \in Listener : Retired(l) => NotDue(deque'[UidOf(l)], l),
           \A w \in stray' : w.to \notin strayed \cup dead => got'[w.to] = got[w.to]
    PROVE  Late'
<1>1. UNCHANGED <<manager, used, call, dead>>
  BY DEF client, fate
<1>2. \A l \in Listener : Retired(l) => Retired(l)'
  <2> SUFFICES ASSUME NEW l \in Listener, Retired(l) PROVE Retired(l)'
    OBVIOUS
  <2>1. record'[l] = None /\ call'[l] = None /\ manager'[Owner[l]] # l
    BY <1>1 DEF Retired
  <2> QED BY <1>1, <2>1, StaysRetired
<1> QED BY <1>1, <1>2, LateKept

LEMMA PublishSwitchLate ==
    ASSUME ServiceInv, Late, PublishSwitch
    PROVE  Late'
<1> DEFINE ls(u) == {l \in Listener : UidOf(l) = u /\ Wants(l, "switch")}
<1>1. /\ UNCHANGED <<record, stray, strayed, got>> /\ UNCHANGED <<client, fate>>
      /\ last' = last + 1
      /\ deque' = [u \in Uids |-> ProductTasks(deque[u], ls(u))]
  BY DEF PublishSwitch
<1>2. ASSUME NEW l \in Listener, Retired(l)
      PROVE  NotDue(deque'[UidOf(l)], l)
  <2>1. PICK u \in Uids : u = UidOf(l)
    BY Owners
  <2>2. PICK d : d = deque[u]
    OBVIOUS
  <2>3. PICK e : e = ProductTasks(d, ls(u))
    OBVIOUS
  <2>4. deque'[u] = e
    BY <1>1, <2>2, <2>3
  <2>5. ls(u) \in SUBSET Listener /\ l \notin ls(u) /\ \A m \in ls(u) : UidOf(m) = u
    BY <1>2 DEF Retired, Wants
  <2> HIDE DEF ls
  <2>6. NotDue(d, l)
    BY <1>2, <2>1, <2>2 DEF Retired
  <2>7. CASE d = None
    BY <2>1, <2>3, <2>4, <2>7 DEF ProductTasks, NotDue
  <2>8. CASE d # None
    <3>1. d \in Deque /\ Newer(d) /\ Own(u, d)
      BY <2>2, <2>8 DEF ServiceInv, ServiceTypes, Ordered
    <3>2. /\ e.now = d.now
          /\ \A i \in 1..Len(e.work) : \/ i \in 1..Len(d.work) /\ e.work[i] = d.work[i]
                                       \/ e.work[i].to \in ls(u)
      BY <1>1, <2>3, <2>5, <3>1, Produced
    <3> QED BY <2>1, <2>4, <2>5, <2>6, <2>8, <3>2 DEF NotDue
  <2> QED BY <2>7, <2>8
<1> QED BY <1>1, <1>2, LateServed

LEMMA ConsumerTaskLate ==
    ASSUME ServiceInv, Late, NEW u \in Uids, ConsumerTask(u)
    PROVE  Late'
<1>1. PICK d : d = deque[u]
  OBVIOUS
<1>2. PICK e : e = IF d.work = <<>> THEN [d EXCEPT !.thread = FALSE]
                   ELSE [d EXCEPT !.now = <<Head(d.work)>>, !.work = Tail(d.work)]
  OBVIOUS
<1>3. /\ d # None /\ d.now = <<>> /\ deque' = [deque EXCEPT ![u] = e]
      /\ UNCHANGED <<record, stray, strayed, got>> /\ UNCHANGED <<client, fate>>
  BY <1>1, <1>2 DEF ConsumerTask
<1>4. d \in Deque /\ deque \in [Uids -> Deque \cup {None}]
  BY <1>1, <1>3 DEF ServiceInv, ServiceTypes
<1>5. d.work \in Seq(Task) /\ Len(d.work) \in Nat
  BY <1>4, DequeParts
<1>6. ASSUME NEW l, NotDue(d, l) PROVE NotDue(e, l)
  <2>1. CASE d.work = <<>>
    <3>1. e.work = d.work /\ e.now = d.now
      BY <1>2, <1>4, <2>1 DEF Deque
    <3> QED BY <1>3, <1>6, <3>1 DEF NotDue
  <2>2. CASE d.work # <<>>
    <3>1. Len(d.work) # 0
      BY <1>4, <2>2, DequeParts
    <3>2. PICK head : head = Head(d.work)
      OBVIOUS
    <3>3. PICK tail : tail = Tail(d.work)
      OBVIOUS
    <3>4. /\ head = d.work[1] /\ 1 \in 1..Len(d.work)
          /\ tail \in Seq(Task) /\ Len(tail) = Len(d.work) - 1
          /\ \A i \in 1..Len(tail) : i + 1 \in 1..Len(d.work) /\ tail[i] = d.work[i + 1]
      BY <1>5, <2>2, <3>1, <3>2, <3>3, HeadTailProperties
    <3>5. e.work = tail /\ e.now = <<head>>
      BY <1>2, <1>4, <2>2, <3>2, <3>3 DEF Deque
    <3>6. \A i \in 1..Len(d.work) : d.work[i].to # l
      BY <1>3, <1>6 DEF NotDue
    <3>7. e.now[1].to # l /\ \A i \in 1..Len(e.work) : e.work[i].to # l
      BY <3>4, <3>5, <3>6
    <3> QED BY <3>7 DEF NotDue
  <2> QED BY <2>1, <2>2
<1>7. \A l \in Listener : Retired(l) => NotDue(deque'[UidOf(l)], l)
  <2> SUFFICES ASSUME NEW l \in Listener, Retired(l) PROVE NotDue(deque'[UidOf(l)], l)
    OBVIOUS
  <2>1. CASE UidOf(l) = u
    BY <1>1, <1>3, <1>4, <1>6, <2>1 DEF Retired
  <2>2. CASE UidOf(l) # u
    BY <1>3, <1>4, <2>2, Owners DEF Retired
  <2> QED BY <2>1, <2>2
<1> QED BY <1>3, <1>7, LateServed

\* A listener that still gets a state from its deque is not retired.
LEMMA SendSwitchLate ==
    ASSUME ServiceInv, Late, NEW u \in Uids, SendSwitch(u)
    PROVE  Late' /\ \A l \in Listener : got'[l] >= got[l]
<1>1. PICK d : d = deque[u]
  OBVIOUS
<1>2. /\ d # None /\ d.now # <<>> /\ Receive(d.now[1])
      /\ deque' = [deque EXCEPT ![u].now = <<>>] /\ last' = last
      /\ UNCHANGED <<record, stray, strayed>> /\ UNCHANGED <<client, fate>>
  BY <1>1 DEF SendSwitch
<1>3. /\ d \in Deque /\ Newer(d) /\ Own(u, d)
      /\ deque \in [Uids -> Deque \cup {None}]
      /\ got \in [Listener -> Nat] /\ stray \subseteq Task
  BY <1>1, <1>2 DEF ServiceInv, ServiceTypes, Ordered
<1>4. PICK w : w = d.now[1]
  OBVIOUS
<1>5. w \in Task /\ w.n <= last /\ UidOf(w.to) = u /\ w.n > got[w.to]
  BY <1>2, <1>3, <1>4, DequeParts DEF Newer, Own
<1>6. \A l \in Listener : got'[l] = got[l] \/ (l = w.to /\ got'[l] = w.n)
  BY <1>2, <1>4, <1>5, Received
<1>7. \A l \in Listener : got'[l] >= got[l]
  <2>1. w.n \in Nat /\ \A l \in Listener : got[l] \in Nat
    BY <1>3, <1>5, TaskParts
  <2> QED BY <1>5, <1>6, <2>1
<1>8. PICK e : e = [d EXCEPT !.now = <<>>]
  OBVIOUS
<1>9. e.work = d.work /\ e.now = <<>> /\ deque' = [deque EXCEPT ![u] = e]
  BY <1>1, <1>2, <1>3, <1>8 DEF Deque
<1>10. \A l \in Listener : Retired(l) => NotDue(deque'[UidOf(l)], l)
  <2> SUFFICES ASSUME NEW l \in Listener, Retired(l) PROVE NotDue(deque'[UidOf(l)], l)
    OBVIOUS
  <2>1. CASE UidOf(l) = u
    BY <1>1, <1>2, <1>3, <1>9, <2>1 DEF Retired, NotDue
  <2>2. CASE UidOf(l) # u
    BY <1>3, <1>9, <2>2, Owners DEF Retired
  <2> QED BY <2>1, <2>2
<1>11. \A x \in stray' : x.to \notin strayed \cup dead => got'[x.to] = got[x.to]
  <2> SUFFICES ASSUME NEW x \in stray, x.to \notin strayed \cup dead
               PROVE  got'[x.to] = got[x.to]
    BY <1>2
  <2>1. Retired(x.to) /\ x.to \in Listener
    BY <1>3, TaskParts DEF Late
  <2>2. x.to # w.to
    BY <1>1, <1>2, <1>4, <1>5, <2>1 DEF Retired, NotDue
  <2> QED BY <1>6, <2>1, <2>2
<1> QED BY <1>2, <1>7, <1>10, <1>11, LateServed

LEMMA SendStrayLate ==
    ASSUME ServiceInv, Late, NEW w \in stray, SendStray(w)
    PROVE  Late' /\ \A l \in Listener \ strayed : got'[l] >= got[l]
<1>1. /\ stray' = stray \ {w} /\ Receive(w) /\ last' = last
      /\ UNCHANGED <<record, deque, strayed>> /\ UNCHANGED <<client, fate>>
  BY DEF SendStray
<1>2. /\ w \in Task /\ w.n <= last /\ stray \subseteq Task /\ got \in [Listener -> Nat]
      /\ w.to \in Listener /\ w.n \in Nat
  BY TaskParts DEF ServiceInv, ServiceTypes, Ordered
<1>3. \A l \in Listener : got'[l] = got[l] \/ (l = w.to /\ got'[l] = w.n)
  BY <1>1, <1>2, Received
<1>4. w.to \in dead => got' = got
  BY <1>1 DEF Receive
<1>5. w.to \notin strayed \cup dead => w.n > got[w.to]
  BY DEF Late
<1>6. \A l \in Listener \ strayed : got'[l] >= got[l]
  <2>1. \A l \in Listener : got[l] \in Nat
    BY <1>2
  <2> QED BY <1>2, <1>3, <1>4, <1>5, <2>1
<1>7. \A x \in stray' : x.to \notin strayed \cup dead => got'[x.to] = got[x.to]
  <2> SUFFICES ASSUME NEW x \in stray', x.to \notin strayed \cup dead
               PROVE  got'[x.to] = got[x.to]
    OBVIOUS
  <2>1. x \in stray /\ x # w /\ x.to \in Listener
    BY <1>1, <1>2, TaskParts
  <2>2. w.to # x.to
    BY <2>1 DEF Late
  <2> QED BY <1>3, <2>1, <2>2
<1>8. \A l \in Listener : Retired(l) => NotDue(deque'[UidOf(l)], l)
  BY <1>1 DEF Retired
<1> QED BY <1>1, <1>6, <1>7, <1>8, LateServed

\* A subscription of listener m, which is not retired.
LEMMA SubscribedLate ==
    ASSUME ServiceInv, Late, NEW m \in Listener, NEW info \in Info,
           SubscribeOsAccount(m, info), ~Retired(m), got' = got,
           used' = used, dead' = dead,
           \A l \in Listener : Retired(l) => call'[l] = None /\ manager'[Owner[l]] # l
    PROVE  Late'
<1> DEFINE u == UidOf(m)
           e == Referenced(deque[u])
<1>1. /\ record \in [Listener -> Info \cup {None}] /\ deque \in [Uids -> Deque \cup {None}]
      /\ u \in Uids
  BY Owners DEF ServiceInv, ServiceTypes
<1>2. /\ \A l \in Listener : l # m => record'[l] = record[l]
      /\ stray' = stray /\ strayed' = strayed
      /\ deque' = deque \/ deque' = [deque EXCEPT ![u] = e]
  BY <1>1 DEF SubscribeOsAccount
<1>3. ASSUME NEW l \in Listener, Retired(l) PROVE Retired(l)'
  <2>1. l # m /\ record'[l] = None
    BY <1>2, <1>3 DEF Retired
  <2>2. NotDue(deque[UidOf(l)], l) /\ UidOf(l) \in Uids
    BY <1>3, Owners DEF Retired
  <2>3. NotDue(e, l) \/ UidOf(l) # u
    <3>1. CASE deque[u] = None
      <4>1. e.work = <<>> /\ e.now = <<>>
        BY <3>1 DEF Referenced, NewDeque
      <4>2. Len(e.work) = 0
        BY <4>1
      <4> QED BY <4>1, <4>2 DEF NotDue
    <3>2. CASE deque[u] # None
      <4>1. e.work = deque[u].work /\ e.now = deque[u].now
        BY <1>1, <3>2, ReferencedDeque
      <4> QED BY <2>2, <3>2, <4>1 DEF NotDue
    <3> QED BY <3>1, <3>2
  <2> HIDE DEF e
  <2>4. NotDue(deque'[UidOf(l)], l)
    BY <1>1, <1>2, <2>2, <2>3
  <2> QED BY <1>3, <2>1, <2>4, StaysRetired
<1> QED BY <1>2, <1>3, LateKept

\* The removal of listener m, which is dead or retires.
LEMMA RemovedLate ==
    ASSUME ServiceInv, ClientInv, Late, NEW m \in Listener, RemoveSubscribeRecord(m),
           got' = got, used' = used, dead' = dead,
           \A l \in Listener : Retired(l) => call'[l] = None /\ manager'[Owner[l]] # l,
           m \in dead \/ (call'[m] = None /\ manager'[Owner[m]] # m)
    PROVE  Late'
<1> DEFINE u == UidOf(m)
           d == deque[u]
<1>1. /\ record \in [Listener -> Info \cup {None}] /\ deque \in [Uids -> Deque \cup {None}]
      /\ stray \subseteq Task /\ u \in Uids
  BY Owners DEF ServiceInv, ServiceTypes
<1>2. record'[m] = None /\ \A l \in Listener : l # m => record'[l] = record[l]
  BY <1>1 DEF RemoveSubscribeRecord
<1>3. ASSUME NEW l \in Listener, Retired(l)
      PROVE  l # m \/ ~Wants(m, "switch")
  BY <1>3 DEF Retired, Wants
<1>4. ASSUME NEW l \in Listener, Retired(l), NotDue(deque'[UidOf(l)], l)
      PROVE  Retired(l)'
  <2>1. record'[l] = None
    BY <1>2, <1>4 DEF Retired
  <2> QED BY <1>4, <2>1, StaysRetired
<1>5. CASE UNCHANGED <<deque, stray, strayed>>
  <2>1. \A l \in Listener : Retired(l) => Retired(l)'
    BY <1>4, <1>5 DEF Retired
  <2> QED BY <1>5, <2>1, LateKept
<1>6. CASE /\ d # None /\ \E c : deque' = [deque EXCEPT ![u].count = c]
           /\ UNCHANGED <<stray, strayed>>
  <2>1. PICK c : deque' = [deque EXCEPT ![u].count = c]
    BY <1>6
  <2>2. PICK e : e = [d EXCEPT !.count = c]
    OBVIOUS
  <2>3. e.work = d.work /\ e.now = d.now
    BY <1>1, <1>6, <2>2 DEF Deque
  <2>4. deque'[u] = e /\ \A v \in Uids : v # u => deque'[v] = deque[v]
    BY <1>1, <2>1, <2>2
  <2>5. ASSUME NEW l \in Listener, Retired(l) PROVE NotDue(deque'[UidOf(l)], l)
    <3>1. NotDue(deque[UidOf(l)], l) /\ UidOf(l) \in Uids
      BY <2>5, Owners DEF Retired
    <3>2. CASE UidOf(l) = u
      BY <1>6, <2>3, <2>4, <3>1, <3>2 DEF NotDue
    <3>3. CASE UidOf(l) # u
      BY <2>4, <3>1, <3>3
    <3> QED BY <3>2, <3>3
  <2>6. \A l \in Listener : Retired(l) => Retired(l)'
    BY <1>4, <2>5
  <2> QED BY <1>6, <2>6, LateKept
<1>7. CASE /\ Wants(m, "switch") /\ d # None /\ deque' = [deque EXCEPT ![u] = None]
           /\ stray' = stray \cup Range(d.now)
           /\ strayed' = strayed \cup ({w.to : w \in Range(d.now)} \ {m})
  <2>1. deque'[u] = None /\ \A v \in Uids : v # u => deque'[v] = deque[v]
    BY <1>1, <1>7
  <2>2. \A l \in Listener : Retired(l) => Retired(l)'
    <3> SUFFICES ASSUME NEW l \in Listener, Retired(l) PROVE Retired(l)'
      OBVIOUS
    <3>1. NotDue(deque[UidOf(l)], l) /\ UidOf(l) \in Uids
      BY Owners DEF Retired
    <3>2. NotDue(deque'[UidOf(l)], l)
      BY <2>1, <3>1 DEF NotDue
    <3> QED BY <1>4, <3>2
  <2>3. ASSUME NEW x \in Range(d.now)
        PROVE  x = d.now[1] /\ x.n > got[x.to] /\ x.to \in Listener
    <3>1. d \in Deque /\ Newer(d)
      BY <1>1, <1>7 DEF ServiceInv, Ordered
    <3>2. d.now \in Seq(Task) /\ Len(d.now) \in Nat /\ Len(d.now) <= 1
      BY <3>1, DequeParts DEF Newer
    <3>3. PICK i \in DOMAIN d.now : x = d.now[i]
      BY DEF Range
    <3>4. DOMAIN d.now = 1..Len(d.now)
      BY <3>2
    <3>5. i = 1 /\ d.now # <<>> /\ d.now[1] \in Task
      BY <3>2, <3>3, <3>4
    <3> QED BY <3>1, <3>3, <3>5, TaskParts DEF Newer
  <2>4. \A x \in Range(d.now) : x.to = m \/ x.to \in strayed'
    BY <1>7
  <2> HIDE DEF d
  <2> SUFFICES ASSUME NEW w \in stray', w.to \notin strayed' \cup dead'
               PROVE  /\ w.n > got'[w.to] /\ Retired(w.to)'
                      /\ \A x \in stray' : x.to = w.to => x = w
    BY DEF Late, Retired
  <2>5. w.to \notin strayed \cup dead
    BY <1>7
  <2>6. CASE w \in stray
    <3>1. /\ w.n > got[w.to] /\ Retired(w.to) /\ w.to \in Listener
          /\ \A x \in stray : x.to = w.to => x = w
      BY <1>1, <2>5, <2>6, TaskParts DEF Late
    <3>2. w.to # m
      BY <1>3, <1>7, <3>1
    <3>3. \A x \in stray' : x.to = w.to => x \in stray
      BY <1>7, <2>4, <3>2
    <3>4. Retired(w.to)'
      BY <2>2, <3>1
    <3> QED BY <3>1, <3>3, <3>4
  <2>7. CASE w \notin stray
    <3>1. w \in Range(d.now)
      BY <1>7, <2>7
    <3>2. w.to = m /\ m \notin dead
      BY <2>4, <2>5, <3>1
    <3>3. m \in used /\ ~Retired(m)
      BY <1>3, <1>7 DEF ClientInv, Managed, Wants
    <3>4. Retired(m)'
      BY <1>2, <2>1, <3>2, <3>3 DEF Retired, NotDue, UidOf
    <3>5. \A x \in stray : x.to # m
      BY <2>5, <3>2, <3>3 DEF Late
    <3>6. \A x \in stray' : x.to = w.to => x = w
      BY <1>7, <2>3, <3>1, <3>2, <3>5
    <3>7. w.n > got'[w.to]
      BY <2>3, <3>1
    <3>8. Retired(w.to)'
      BY <3>2, <3>4
    <3> QED BY <3>6, <3>7, <3>8
  <2> QED BY <2>6, <2>7
<1>8. \/ UNCHANGED <<deque, stray, strayed>>
      \/ /\ d # None /\ \E c : deque' = [deque EXCEPT ![u].count = c]
         /\ UNCHANGED <<stray, strayed>>
      \/ /\ Wants(m, "switch") /\ d # None /\ deque' = [deque EXCEPT ![u] = None]
         /\ stray' = stray \cup Range(d.now)
         /\ strayed' = strayed \cup ({w.to : w \in Range(d.now)} \ {m})
  BY Zenon DEF RemoveSubscribeRecord
<1> QED BY <1>5, <1>6, <1>7, <1>8

\* A listener that is retired is neither asked for nor the one of its process.
LEMMA NeverAgain ==
    ASSUME ClientInv, NEW l \in Listener, Retired(l)
    PROVE  /\ l \in used /\ call[l] = None /\ Owner[l] \in Process
           /\ \A p \in Process : manager[p] # l
<1>1. l \in used /\ call[l] = None /\ manager[Owner[l]] # l /\ Owner[l] \in Process /\ l # None
  BY Owners, NoneIsNothing DEF Retired
<1>2. \A p \in Process : manager[p] # None => Owner[manager[p]] = p
  BY DEF ClientInv, Managed
<1> QED BY <1>1, <1>2

LEMMA ClientLate ==
    ASSUME ServiceInv, ClientInv, Late, NEW s \in Subscriber, Subscribe(s) \/ Unsubscribe(s)
    PROVE  Late'
<1>1. /\ manager \in [Process -> Listener \cup {None}] /\ Home[s] \in Process
      /\ call \in [Listener -> Request \cup {None}]
  BY Owners DEF ClientInv, ClientTypes
<1>2. UNCHANGED <<service, got>> /\ dead' = dead
  BY DEF Subscribe, Unsubscribe, fate
<1>3. CASE Subscribe(s)
  <2>1. PICK m \in Listener :
          /\ IF manager[Home[s]] = None THEN m \notin used ELSE m = manager[Home[s]]
          /\ manager' = [manager EXCEPT ![Home[s]] = m] /\ used' = used \cup {m}
          /\ \E c : call' = [call EXCEPT ![m] = c]
    BY <1>3 DEF Subscribe
  <2>2. ASSUME NEW l \in Listener, Retired(l)
        PROVE  call'[l] = None /\ manager'[Owner[l]] # l
    <3>1. /\ l \in used /\ call[l] = None /\ Owner[l] \in Process
          /\ \A p \in Process : manager[p] # l
      BY <2>2, NeverAgain
    <3>2. l # m
      BY <1>1, <2>1, <3>1
    <3> QED BY <1>1, <2>1, <3>1, <3>2
  <2> QED BY <1>2, <2>1, <2>2, LateUntouched
<1>4. CASE Unsubscribe(s)
  <2>1. PICK m : m = manager[Home[s]]
    OBVIOUS
  <2>2. /\ m # None /\ UNCHANGED <<manager, used>>
        /\ \E c : call' = [call EXCEPT ![m] = c]
    BY <1>4, <2>1 DEF Unsubscribe
  <2>3. ASSUME NEW l \in Listener, Retired(l)
        PROVE  call'[l] = None /\ manager'[Owner[l]] # l
    <3>1. /\ call[l] = None /\ Owner[l] \in Process /\ \A p \in Process : manager[p] # l
      BY <2>3, NeverAgain
    <3>2. l # m
      BY <1>1, <2>1, <3>1
    <3> QED BY <1>1, <2>2, <3>1, <3>2
  <2> QED BY <1>2, <2>2, <2>3, LateUntouched
<1> QED BY <1>3, <1>4

LEMMA CallServedLate ==
    ASSUME ServiceInv, ClientInv, Late, NEW m \in Listener, CallServed(m)
    PROVE  Late'
<1>1. /\ call[m] # None /\ call' = [call EXCEPT ![m] = None]
      /\ used' = used /\ dead' = dead /\ got' = got
  BY DEF CallServed
<1>2. /\ manager \in [Process -> Listener \cup {None}]
      /\ call \in [Listener -> Request \cup {None}] /\ m # None
  BY NoneIsNothing DEF ClientInv, ClientTypes
<1>3. \A l \in Listener : Retired(l) => l # m /\ call'[l] = None
  BY <1>1, <1>2 DEF Retired
<1>4. call'[m] = None
  BY <1>1, <1>2
<1>5. CASE call[m].info = None
  <2>1. /\ RemoveSubscribeRecord(m)
        /\ manager' = [p \in Process |-> IF manager[p] = m THEN None ELSE manager[p]]
    BY <1>5 DEF CallServed
  <2>2. manager'[Owner[m]] # m
    BY <1>2, <2>1, Owners
  <2>3. \A l \in Listener : Retired(l) => manager'[Owner[l]] # l
    BY <2>1, NeverAgain, NoneIsNothing
  <2> QED BY <1>1, <1>3, <1>4, <2>1, <2>2, <2>3, RemovedLate
<1>6. CASE call[m].info # None
  <2>1. SubscribeOsAccount(m, call[m].info) /\ manager' = manager
    BY <1>6 DEF CallServed
  <2>2. PICK info \in Info : info = call[m].info
    BY <1>1, <1>2, <1>6, RequestParts
  <2>3. SubscribeOsAccount(m, info)
    BY <2>1, <2>2
  <2>4. ~Retired(m) /\ \A l \in Listener : Retired(l) => manager'[Owner[l]] # l
    BY <1>3, <2>1 DEF Retired
  <2> QED BY <1>1, <1>3, <2>3, <2>4, SubscribedLate
<1> QED BY <1>5, <1>6

\* The steps that leave alone what the threads of erased deques depend on.
LEMMA OthersLate ==
    ASSUME ServiceInv, ClientInv, Late, UNCHANGED <<service, got>>, UNCHANGED <<client, fate>>
    PROVE  Late'
<1>1. UNCHANGED <<manager, used, call, dead>>
  BY DEF client, fate
<1>2. \A l \in Listener : Retired(l) => call'[l] = None /\ manager'[Owner[l]] # l
  BY <1>1 DEF Retired
<1> QED BY <1>1, <1>2, LateUntouched

\* No step serves a listener an older state, except one whose deque was erased
\* by another listener, and every step keeps Late.
LEMMA NextLate ==
    ASSUME ServiceInv, ClientInv, Late, [Next]_vars
    PROVE  Late' /\ \A l \in Listener \ strayed : got'[l] >= got[l]
<1> DEFINE Goal == Late' /\ \A l \in Listener \ strayed : got'[l] >= got[l]
<1>1. got' = got => \A l \in Listener \ strayed : got'[l] >= got[l]
  BY DEF ServiceInv, ServiceTypes
<1>2. CASE PublishSwitch
  BY <1>1, <1>2, PublishSwitchLate DEF PublishSwitch
<1>3. ASSUME NEW u \in Uids, ConsumerTask(u) \/ SendSwitch(u) PROVE Goal
  <2>1. CASE ConsumerTask(u)
    BY <1>1, <2>1, ConsumerTaskLate DEF ConsumerTask
  <2>2. CASE SendSwitch(u)
    BY <2>2, SendSwitchLate
  <2> QED BY <1>3, <2>1, <2>2
<1>4. ASSUME NEW w \in stray, SendStray(w) PROVE Goal
  BY <1>4, SendStrayLate
<1>5. ASSUME UNCHANGED <<service, got, client, fate>> PROVE Goal
  BY <1>1, <1>5, OthersLate
<1>6. ASSUME NEW k \in Stop, Publish(k) \/ WaitForAllReplies(k) PROVE Goal
  BY <1>5, <1>6 DEF Publish, WaitForAllReplies
<1>7. ASSUME NEW k \in Stop, NEW l \in Listener,
             OnStateChanged(k, l) \/ CallReturns(k, l) \/ WaitForComplete(k, l)
      PROVE  Goal
  BY <1>5, <1>7 DEF OnStateChanged, CallReturns, WaitForComplete
<1>8. ASSUME NEW k \in Stop, NEW s \in Subscriber,
             NotifySubscriber(k, s) \/ SubscriberCompletes(k, s)
      PROVE  Goal
  BY <1>5, <1>8 DEF NotifySubscriber, SubscriberCompletes
<1>9. ASSUME NEW s \in Subscriber, Subscribe(s) \/ Unsubscribe(s) PROVE Goal
  <2>1. got' = got
    BY <1>9 DEF Subscribe, Unsubscribe
  <2> QED BY <1>1, <1>9, <2>1, ClientLate
<1>10. ASSUME NEW m \in Listener, CallServed(m) PROVE Goal
  BY <1>1, <1>10, CallServedLate DEF CallServed
<1>11. ASSUME NEW m \in Listener, CallFails(m) PROVE Goal
  <2>1. /\ call' = [call EXCEPT ![m] = None] /\ UNCHANGED <<service, got>>
        /\ UNCHANGED <<manager, used, dead>>
    BY <1>11 DEF CallFails, fate
  <2>2. \A l \in Listener : Retired(l) => call'[l] = None /\ manager'[Owner[l]] # l
    BY <2>1 DEF Retired, ClientInv, ClientTypes
  <2> QED BY <1>1, <2>1, <2>2, LateUntouched
<1>12. ASSUME NEW m \in Listener, OnRemoteDied(m) PROVE Goal
  <2>1. /\ m \in notice /\ RemoveSubscribeRecord(m) /\ got' = got
        /\ UNCHANGED <<manager, used, call, dead>>
    BY <1>12 DEF OnRemoteDied, client
  <2>2. m \in dead
    BY <2>1 DEF ClientInv, Managed
  <2>3. \A l \in Listener : Retired(l) => call'[l] = None /\ manager'[Owner[l]] # l
    BY <2>1 DEF Retired
  <2> QED BY <1>1, <2>1, <2>2, <2>3, RemovedLate
<1>13. ASSUME NEW p \in Process, RestoreListenerRecords(p) PROVE Goal
  <2>1. PICK m : m = manager[p]
    OBVIOUS
  <2>2. /\ UNCHANGED <<manager, used, all, call, dead, got>>
        /\ \/ UNCHANGED service
           \/ m # None /\ SubscribeOsAccount(m, TotalSubscribeInfo(all[m]))
    BY <1>13, <2>1 DEF RestoreListenerRecords, fate
  <2>3. \A l \in Listener : Retired(l) => call'[l] = None /\ manager'[Owner[l]] # l
    BY <2>2 DEF Retired
  <2>4. CASE UNCHANGED service
    BY <1>1, <2>2, <2>3, <2>4, LateUntouched
  <2>5. CASE m # None /\ SubscribeOsAccount(m, TotalSubscribeInfo(all[m]))
    <3>1. m \in Listener /\ all[m] \in SUBSET Subscriber
      BY <2>1, <2>5 DEF ClientInv, ClientTypes
    <3>2. PICK info \in Info : info = TotalSubscribeInfo(all[m])
      BY <3>1, Infos
    <3>3. ~Retired(m)
      BY <2>1, <3>1, NeverAgain
    <3>4. SubscribeOsAccount(m, info)
      BY <2>5, <3>2
    <3> QED BY <1>1, <2>2, <2>3, <3>1, <3>3, <3>4, SubscribedLate
  <2> QED BY <2>2, <2>4, <2>5
<1>14. ASSUME NEW p \in Process, Die(p) PROVE Goal
  <2>1. /\ UNCHANGED <<service, got>> /\ UNCHANGED <<used, call>> /\ dead \subseteq dead'
        /\ manager' = [manager EXCEPT ![p] = None]
    BY <1>14 DEF Die
  <2>2. \A l \in Listener : Retired(l) => call'[l] = None /\ manager'[Owner[l]] # l
    BY <2>1, NeverAgain, NoneIsNothing DEF ClientInv, ClientTypes
  <2> QED BY <1>1, <2>1, <2>2, LateUntouched
<1>15. CASE Crash
  <2>1. stray' = {} /\ got' = got
    BY <1>15 DEF Crash
  <2> QED BY <1>1, <2>1 DEF Late
<1>16. CASE UNCHANGED vars
  BY <1>5, <1>16 DEF vars
<1> HIDE DEF Goal
<1>17. Goal
  BY <1>2, <1>3, <1>4, <1>6, <1>7, <1>8, <1>9, <1>10, <1>11, <1>12, <1>13, <1>14, <1>15,
     <1>16 DEF Next, Goal
<1> QED BY <1>17 DEF Goal

\* ConsumerTask never serves a listener an older state after a newer one, and no
\* state waits without a thread, whoever unsubscribes, dies or subscribes again
\* under the same uid; the listener to whom a state is being sent while another
\* listener's removal erases the deque is the exception.
THEOREM SwitchesStayInOrder == Spec => SwitchServedInOrder
<1>1. Init => Late
  BY DEF Init, Late
<1>2. IInv /\ Late /\ [Next]_vars => Late'
  BY InParts, NextLate
<1>3. ASSUME IInv, Late, [Next]_vars
      PROVE  [/\ \A l \in Listener \ strayed : got'[l] >= got[l]
              /\ \A u \in Uids :
                    deque[u] # None /\ deque[u].work # <<>> => deque[u].thread]_vars
  <2>1. \A l \in Listener \ strayed : got'[l] >= got[l]
    BY <1>3, InParts, NextLate
  <2>2. \A u \in Uids : deque[u] # None /\ deque[u].work # <<>> => deque[u].thread
    BY <1>3 DEF IInv, Ordered, Newer
  <2> QED BY <2>1, <2>2
<1> QED BY <1>1, <1>2, <1>3, Inductive, PTL DEF Spec, SwitchServedInOrder

\* When WaitForAllReplies answers ERR_OK, the subscribers with a handshake are
\* done, unless their listener gave up waiting for them: neither a reply that is
\* forced nor one that comes late or twice lets the queue run empty too early.
THEOREM OkIsHonest == Spec => []OkMeansDone
<1>1. ASSUME IInv PROVE OkMeansDone
  <2> SUFFICES ASSUME NEW k \in Stop, NEW l \in Listener \ dead, pub[k] = "ok",
                      reply[<<k, l>>] # "none", <<k, l>> \notin early
               PROVE  Unfinished(k, l) = {}
    BY DEF OkMeansDone
  <2>1. reply[<<k, l>>] = "completed"
    <3>1. reply[<<k, l>>] \in {"none", "open", "completed"}
      BY <1>1 DEF IInv, TypeOK
    <3>2. l \notin Open(k)
      BY <1>1 DEF IInv, Counted
    <3> QED BY <3>1, <3>2 DEF Open
  <2>2. \A s \in Shakes : Home[s] = Owner[l] => told[<<k, s>>] \in {"none", "done"}
    BY <1>1, <2>1 DEF IInv, Finished
  <2> QED BY <2>2 DEF Unfinished, Told
<1> QED BY <1>1, Inductive, PTL
===============================================================================
