-------------------------- MODULE AppAccount_proof --------------------------
(***************************************************************************)
(* Theorems about AppAccount, for any threads, apps and accounts, any      *)
(* owners, any bounds and any faults.  What holds of the calls together    *)
(* depends on which calls are made: each theorem about an account or an    *)
(* app says on which.                                                      *)
(*                                                                         *)
(* The second part is about AuthenticatorSession, for any requests and     *)
(* selections, any number of accounts to ask, any limit and any faults.    *)
(***************************************************************************)
EXTENDS AppAccount, AuthenticatorSession, TLAPS, FiniteSetTheorems

\* The calls that change one value of a record.
ChangeOps == {"setdata", "setinfo", "settoken", "deltoken", "setvisible",
              "sethidden"}

\* The places of a call; the last ones are inside its transaction.
InTx == {"save", "acl", "delete", "uncache", "unauthorize", "uninstall",
         "sweep", "commit"}
Places == {"idle", "add", "put", "start"} \cup InTx

\* A call, with its four parts.
At4(p, c, i, d) == [pc |-> p, c |-> c, info |-> i, todo |-> d]

\* The call of t becomes this one.
Put4(t, p, c, i, d) == call' = [call EXCEPT ![t] = At4(p, c, i, d)]

Fields ==
    /\ call = [t \in Thread |-> call[t]]
    /\ \A t \in Thread :
           call[t] = At4(call[t].pc, call[t].c, call[t].info, call[t].todo)

\* What call w is about at its place.
Shape(w) ==
    /\ w.pc \in Places
    /\ w.pc = "idle" => w = Idle
    /\ w.pc # "idle" => w.c \in Calls
    /\ w.pc = "add" => /\ w.c.op \in {"create", "implicit"}
                       /\ w.info \in Record /\ w.info.apps = {}
    /\ w.pc = "put" => w.c.op \in ChangeOps /\ w.info \in Record
    /\ w.pc = "start" => w.c.op \in AccessOps \cup {"delete", "uninstall"}
    /\ w.pc \in {"save", "acl"} => w.c.op \in AccessOps
    /\ w.pc \in {"start", "save", "acl"} /\ w.c.op \in AccessOps => w.info \in Record
    /\ w.pc \in {"delete", "uncache", "unauthorize"} => w.c.op = "delete"
    /\ w.pc \in {"uncache", "unauthorize"} => w.todo \in SUBSET App
    /\ w.pc \in {"uninstall", "sweep"} => w.c.op = "uninstall"
    /\ w.pc = "sweep" => /\ w.todo \in SUBSET Account
                         /\ \A a \in w.todo : Owner[a] = Owner[w.c.acct]
    /\ w.pc = "commit" => w.c.op \in AccessOps \cup {"delete", "uninstall"}

Shapes == \A t \in Thread : Shape(call[t])

\* A call holds the lock of its app.
Locks ==
    \A t \in Thread :
        ~At(t, "idle") /\ call[t].c.op \in Locked => uid[Caller(call[t].c)] = t

\* Who is in a transaction.
Trans == \A t \in Thread : call[t].pc \in InTx <=> tx # None /\ tx.holder = t

TInv == TypeOK /\ Fields /\ Shapes /\ Locks /\ Trans

-----------------------------------------------------------------------------
Others(t) == \A s \in Thread \ {t} : call'[s] = call[s]

LEMMA CallParts ==
    ASSUME NEW c \in Calls
    PROVE  /\ c.acct \in Account /\ c.app \in App /\ c.op \in Operation
           /\ Owner[c.acct] \in App /\ Caller(c) \in App
<1>1. c \in [op : Operation, acct : Account, app : App]
  BY AppAccountConstants
<1>2. c.acct \in Account /\ c.app \in App /\ c.op \in Operation
  BY <1>1
<1>3. Owner[c.acct] \in App
  BY <1>2, AppAccountConstants
<1> QED BY <1>2, <1>3 DEF Caller

LEMMA Parts ==
    ASSUME NEW p, NEW c, NEW i, NEW d
    PROVE  /\ At4(p, c, i, d).pc = p /\ At4(p, c, i, d).c = c
           /\ At4(p, c, i, d).info = i /\ At4(p, c, i, d).todo = d
BY DEF At4

LEMMA Moved ==
    ASSUME Fields, NEW t \in Thread, NEW p, NEW c, NEW i, NEW d,
           Put4(t, p, c, i, d)
    PROVE  /\ Fields' /\ Others(t)
           /\ call'[t] = At4(p, c, i, d)
           /\ call'[t].pc = p /\ call'[t].c = c
           /\ call'[t].info = i /\ call'[t].todo = d
<1>1. call'[t] = At4(p, c, i, d) /\ Others(t) /\ DOMAIN call = Thread
  BY DEF Fields, Others, Put4
<1>2. call'[t].pc = p /\ call'[t].c = c /\ call'[t].info = i /\ call'[t].todo = d
  BY <1>1, Parts
<1>3. \A s \in Thread : call'[s] = At4(call'[s].pc, call'[s].c, call'[s].info, call'[s].todo)
  BY <1>1, <1>2 DEF Fields, Others
<1>4. call' = [s \in Thread |-> call'[s]]
  BY DEF Fields, Put4
<1> QED BY <1>1, <1>2, <1>3, <1>4 DEF Fields

LEMMA Gone ==
    ASSUME Fields, NEW t \in Thread, NEW p, Goto(t, p)
    PROVE  Put4(t, p, call[t].c, call[t].info, call[t].todo)
<1>1. call[t] = At4(call[t].pc, call[t].c, call[t].info, call[t].todo)
  BY DEF Fields
<1>2. [call[t] EXCEPT !.pc = p] = At4(p, call[t].c, call[t].info, call[t].todo)
  BY <1>1 DEF At4
<1> QED BY <1>2 DEF Goto, Put4

LEMMA Entered ==
    ASSUME Fields, NEW t \in Thread, NEW p, NEW c, NEW i, Enter(t, p, c, i)
    PROVE  /\ Fields' /\ Others(t)
           /\ call'[t].pc = p /\ call'[t].c = c
           /\ call'[t].info = i /\ call'[t].todo = {}
<1>1. Put4(t, p, c, i, {})
  BY DEF Enter, At4, Put4
<1> QED BY <1>1, Moved

LEMMA WentTo ==
    ASSUME Fields, NEW t \in Thread, NEW p, Goto(t, p)
    PROVE  /\ Fields' /\ Others(t)
           /\ call'[t].pc = p /\ call'[t].c = call[t].c
           /\ call'[t].info = call[t].info /\ call'[t].todo = call[t].todo
BY Gone, Moved

\* A call that returns gives its lock back and no other.
LEMMA Returned ==
    ASSUME TInv, NEW t \in Thread, Return(t)
    PROVE  /\ Fields' /\ Others(t) /\ Locks' /\ Shapes'
           /\ call'[t] = Idle /\ call'[t].pc = "idle"
           /\ uid' \in [App -> Thread \cup {None}]
<1>1. Put4(t, "idle", None, None, {})
  BY DEF Return, Idle, At4, Put4
<1>2. /\ Fields' /\ Others(t) /\ call'[t] = Idle /\ call'[t].pc = "idle"
  <2>1. At4("idle", None, None, {}) = Idle
    BY DEF Idle, At4
  <2> QED BY <1>1, <2>1, Moved DEF TInv
<1>3. uid' \in [App -> Thread \cup {None}]
  BY DEF Return, TInv, TypeOK
<1>4. ASSUME NEW s \in Thread, ~At(s, "idle")', call'[s].c.op \in Locked
      PROVE  uid'[Caller(call'[s].c)] = s
  <2>1. s # t /\ call'[s] = call[s]
    BY <1>2, <1>4 DEF At, Others
  <2>2. call[s].pc # "idle" /\ call[s].c \in Calls
    BY <1>4, <2>1 DEF TInv, Shapes, Shape, At
  <2>3. uid[Caller(call[s].c)] = s /\ Caller(call[s].c) \in App
    BY <1>4, <2>1, <2>2, CallParts DEF TInv, Locks, At
  <2> QED BY <2>1, <2>3 DEF Return
<1>5. Shape(Idle)
  BY DEF Shape, Idle, Places, InTx
<1>6. Shapes'
  BY <1>2, <1>5 DEF Shapes, TInv, Others
<1> QED BY <1>2, <1>3, <1>4, <1>6 DEF Locks

\* A call that begins takes a lock that nobody holds.
LEMMA Acquired ==
    ASSUME TInv, NEW t \in Thread, NEW c \in Calls, Acquire(t, c),
           Others(t), call'[t].c = c
    PROVE  Locks' /\ uid' \in [App -> Thread \cup {None}]
<1>1. Caller(c) \in App
  BY CallParts
<1>2. uid' \in [App -> Thread \cup {None}]
  BY <1>1 DEF Acquire, TInv, TypeOK
<1>3. c.op \in Locked => uid'[Caller(c)] = t
  BY <1>1 DEF Acquire, TInv, TypeOK
<1>4. ASSUME NEW s \in Thread, s # t, ~At(s, "idle")', call'[s].c.op \in Locked
      PROVE  uid'[Caller(call'[s].c)] = s
  <2>1. call'[s] = call[s]
    BY <1>4 DEF Others
  <2>2. uid[Caller(call[s].c)] = s
    BY <1>4, <2>1 DEF TInv, Locks, At
  <2>3. s # None
    BY AppAccountConstants
  <2>4. call[s].c \in Calls
    BY <1>4, <2>1 DEF TInv, Shapes, Shape, At
  <2>5. Caller(call[s].c) \in App
    BY <2>4, CallParts
  <2> QED BY <2>1, <2>2, <2>3, <2>5, <1>1 DEF Acquire, TInv, TypeOK
<1> QED BY <1>2, <1>3, <1>4 DEF Locks

\* A call that goes on keeps its lock.
LEMMA LocksKept ==
    ASSUME TInv, NEW t \in Thread, ~At(t, "idle"), uid' = uid,
           Others(t), call'[t].c = call[t].c
    PROVE  Locks'
BY DEF TInv, Locks, At, Others

\* Only one call is in a transaction.
LEMMA OneInTx ==
    ASSUME TInv, NEW s \in Thread, NEW t \in Thread, call[s].pc \in InTx, call[t].pc \in InTx
    PROVE  s = t
BY DEF TInv, Trans

\* What makes a step of t keep the types.
LEMMA StepTyped ==
    ASSUME TInv, NEW t \in Thread, TypeOK', Fields', Others(t), Locks', Shape(call[t])',
           call'[t].pc \in InTx <=> tx' # None /\ tx'.holder = t,
           \/ tx' = tx
           \/ tx' = None /\ call[t].pc \in InTx
           \/ tx = None /\ tx'.holder = t
    PROVE  TInv'
<1>1. Shapes'
  BY DEF TInv, Shapes, Others
<1>2. ASSUME NEW s \in Thread, s # t
      PROVE  call'[s].pc \in InTx <=> tx' # None /\ tx'.holder = s
  <2>1. call'[s] = call[s] /\ (call[s].pc \in InTx <=> tx # None /\ tx.holder = s)
    BY <1>2 DEF TInv, Trans, Others
  <2>2. call[t].pc \in InTx <=> tx # None /\ tx.holder = t
    BY DEF TInv, Trans
  <2> QED BY <1>2, <2>1, <2>2
<1>3. Trans'
  BY <1>2 DEF Trans
<1> QED BY <1>1, <1>3 DEF TInv

LEMMA CacheTyped ==
    ASSUME TypeOK, NEW k \in [App -> Item \cup {None}], NEW S \in SUBSET Account, SetCache(k, S)
    PROVE  cache' \in [App -> Item \cup {None}] /\ lost' \subseteq Account
BY DEF TypeOK, SetCache

LEMMA FreshTyped ==
    ASSUME NEW d \in Data
    PROVE  Fresh(d) \in Record /\ Fresh(d).apps = {}
BY DEF Fresh, Record

LEMMA AddCheckTyped ==
    ASSUME TInv, NEW t \in Thread, NEW c \in Calls, At(t, "idle"), AddCheck(t, c)
    PROVE  /\ TInv' /\ Others(t)
           /\ call'[t].pc = "add" /\ call'[t].c = c
<1>1. PICK d \in Data : Enter(t, "add", c, Fresh(d))
  BY DEF AddCheck
<1>2. /\ Fields' /\ Others(t) /\ call'[t].pc = "add" /\ call'[t].c = c
      /\ call'[t].info = Fresh(d) /\ call'[t].todo = {}
  BY <1>1, Entered DEF TInv
<1>3. Locks' /\ uid' \in [App -> Thread \cup {None}]
  BY <1>2, Acquired DEF AddCheck
<1>4. TypeOK'
  BY <1>3 DEF TInv, TypeOK, AddCheck
<1>5. Shape(call[t])'
  BY <1>2, FreshTyped DEF Shape, AddCheck, Places, InTx
<1>6. tx' = tx /\ call[t].pc \notin InTx /\ call'[t].pc \notin InTx
  BY <1>2 DEF AddCheck, At, InTx
<1>7. ~(tx # None /\ tx.holder = t)
  BY <1>6 DEF TInv, Trans
<1> QED BY <1>2, <1>3, <1>4, <1>5, <1>6, <1>7, StepTyped

LEMMA AddPutTyped ==
    ASSUME TInv, NEW t \in Thread, AddPut(t)
    PROVE  /\ TInv' /\ Others(t)
           /\ call'[t] = Idle /\ call'[t].pc = "idle"
           /\ call[t].pc = "add" /\ call[t].c \in Calls
           /\ call[t].info \in Record
<1>1. call[t].pc = "add" /\ call[t].c \in Calls /\ call[t].info \in Record
  BY DEF AddPut, At, TInv, Shapes, Shape
<1>2. /\ Fields' /\ Others(t) /\ Locks' /\ Shapes'
      /\ call'[t] = Idle /\ call'[t].pc = "idle"
      /\ uid' \in [App -> Thread \cup {None}]
  BY Returned DEF AddPut
<1>3. rec' \in [Account -> Record \cup {None}]
  BY <1>1, CallParts DEF AddPut, TInv, TypeOK
<1>4. TypeOK'
  BY <1>2, <1>3 DEF TInv, TypeOK, AddPut
<1>5. tx' = tx /\ call[t].pc \notin InTx /\ call'[t].pc \notin InTx
  BY <1>1, <1>2 DEF AddPut, InTx
<1>6. ~(tx # None /\ tx.holder = t)
  BY <1>5 DEF TInv, Trans
<1> QED BY <1>1, <1>2, <1>4, <1>5, <1>6, StepTyped DEF Shapes

\* What GetAssociatedData makes of the cache: the item of a, if there is one,
\* has the data of the record; the other items are old ones.
LEMMA Fetched ==
    ASSUME TInv, NEW c \in Calls, NEW t \in Thread, GetAssociatedData(t, c)
    PROVE  \E k \in [App -> Item \cup {None}] :
              /\ SetCache(k, {})
              /\ \A y \in App : \/ k[y] = None
                                \/ k[y] = cache[y] /\ y # Owner[c.acct]
                                \/ /\ y = Owner[c.acct] /\ rec[c.acct] # None
                                   /\ k[y] = [acct |-> c.acct, data |-> rec[c.acct].data]
<1> DEFINE a == c.acct
           x == Owner[a]
           mine == [cache EXCEPT ![x] = None]
           item == [acct |-> a, data |-> rec[a].data]
<1>1. a \in Account /\ x \in App
  BY CallParts
<1>2. mine \in [App -> Item \cup {None}]
  BY <1>1 DEF TInv, TypeOK
<1>3. CASE SetCache(mine, {})
  BY <1>1, <1>2, <1>3 DEF TInv, TypeOK
<1>4. CASE rec[a] # None
  <2>1. item \in Item
    BY <1>1, <1>4 DEF Item, Record, TInv, TypeOK
  <2>2. CASE SetCache([mine EXCEPT ![x] = item], {})
    <3> DEFINE k == [mine EXCEPT ![x] = item]
    <3>1. k \in [App -> Item \cup {None}]
      BY <1>2, <2>1
    <3>2. \A y \in App : IF y = x THEN k[y] = item ELSE k[y] = cache[y]
      BY <1>1, <1>2, <2>1 DEF TInv, TypeOK
    <3> QED BY <1>4, <2>2, <3>1, <3>2
  <2>3. ASSUME NEW y \in App, SetCache([mine EXCEPT ![x] = item, ![y] = None], {})
        PROVE  \E k \in [App -> Item \cup {None}] :
              /\ SetCache(k, {})
              /\ \A z \in App : \/ k[z] = None
                                \/ k[z] = cache[z] /\ z # x
                                \/ /\ z = x /\ rec[a] # None
                                   /\ k[z] = item
    <3> DEFINE k == [mine EXCEPT ![x] = item, ![y] = None]
    <3>1. k \in [App -> Item \cup {None}]
      BY <1>2, <2>1
    <3>2. \A z \in App : \/ k[z] = None
                         \/ z # x /\ k[z] = cache[z]
                         \/ z = x /\ k[z] = item
      BY <1>1, <1>2, <2>1 DEF TInv, TypeOK
    <3> QED BY <1>4, <2>3, <3>1, <3>2
  <2> QED BY <1>3, <1>4, <2>2, <2>3 DEF GetAssociatedData
<1> QED BY <1>3, <1>4 DEF GetAssociatedData

LEMMA GetAssociatedDataTyped ==
    ASSUME TInv, NEW t \in Thread, NEW c \in Calls, GetAssociatedData(t, c)
    PROVE  TInv'
<1>1. PICK k \in [App -> Item \cup {None}] : SetCache(k, {})
  BY Fetched
<1>2. cache' \in [App -> Item \cup {None}] /\ lost' \subseteq Account
  BY <1>1, CacheTyped DEF TInv
<1>3. TypeOK'
  BY <1>2 DEF TInv, TypeOK, GetAssociatedData
<1> QED
  BY <1>3 DEF TInv, GetAssociatedData, Fields, Shapes, Locks, At, Trans

\* What the changes of a record leave alone: who may access the account, and
\* all but SetAssociatedData its data.
LEMMA ChangedKeeps ==
    ASSUME NEW c \in Calls, NEW r \in Record, NEW s \in Changed(c, r)
    PROVE  /\ s \in Record /\ s.apps = r.apps /\ c.op \in ChangeOps
           /\ c.op # "setdata" => s.data = r.data
<1>1. c.app \in App
  BY CallParts
<1>2. CASE c.op = "setinfo"
  BY <1>2 DEF Changed, ChangeOps
<1>3. CASE c.op = "setdata"
  BY <1>3 DEF Changed, ChangeOps, Record
<1>4. CASE c.op = "settoken"
  BY <1>4 DEF Changed, ChangeOps, Record
<1>5. CASE c.op = "deltoken"
  BY <1>5 DEF Changed, ChangeOps, Record
<1>6. CASE c.op = "setvisible"
  <2> DEFINE w == [apps |-> r.apps, data |-> r.data, vis |-> r.vis \cup {c.app},
                   tok |-> IF r.tok = "none" THEN "blank" ELSE r.tok]
  <2>1. s = [r EXCEPT !.vis = @ \cup {c.app}, !.tok = IF @ = "none" THEN "blank" ELSE @]
    BY <1>6 DEF Changed
  <2>2. s = w
    BY <2>1 DEF Record
  <2>3. w \in Record
    BY <1>1 DEF Record
  <2>4. w.apps = r.apps /\ w.data = r.data
    OBVIOUS
  <2> QED BY <1>6, <2>2, <2>3, <2>4 DEF ChangeOps
<1>7. CASE c.op = "sethidden"
  BY <1>7 DEF Changed, ChangeOps, Record
<1> QED BY <1>2, <1>3, <1>4, <1>5, <1>6, <1>7 DEF Changed

LEMMA ChangeLoadTyped ==
    ASSUME TInv, NEW t \in Thread, NEW c \in Calls, At(t, "idle"), ChangeLoad(t, c)
    PROVE  /\ TInv' /\ Others(t)
           /\ call'[t].pc = "put" /\ call'[t].c = c /\ c.op \in ChangeOps
           /\ rec[c.acct] \in Record
           /\ call'[t].info.apps = rec[c.acct].apps
           /\ c.op # "setdata" => call'[t].info.data = rec[c.acct].data
<1>1. rec[c.acct] \in Record
  BY CallParts DEF ChangeLoad, TInv, TypeOK
<1>2. PICK r \in Changed(c, rec[c.acct]) : Enter(t, "put", c, r)
  BY DEF ChangeLoad
<1>3. /\ r \in Record /\ r.apps = rec[c.acct].apps /\ c.op \in ChangeOps
      /\ c.op # "setdata" => r.data = rec[c.acct].data
  BY <1>1, ChangedKeeps
<1>4. /\ Fields' /\ Others(t) /\ call'[t].pc = "put" /\ call'[t].c = c
      /\ call'[t].info = r /\ call'[t].todo = {}
  BY <1>2, Entered DEF TInv
<1>5. Locks' /\ uid' \in [App -> Thread \cup {None}]
  BY <1>4, Acquired DEF ChangeLoad
<1>6. datamx' \in Thread \cup {None} /\ tokmx' \in Thread \cup {None}
  BY DEF ChangeLoad, TInv, TypeOK
<1>7. TypeOK'
  BY <1>5, <1>6 DEF TInv, TypeOK, ChangeLoad
<1>8. Shape(call[t])'
  BY <1>3, <1>4 DEF Shape, Places, InTx
<1>9. tx' = tx /\ call[t].pc \notin InTx /\ call'[t].pc \notin InTx
  BY <1>4 DEF ChangeLoad, At, InTx
<1>10. ~(tx # None /\ tx.holder = t)
  BY <1>9 DEF TInv, Trans
<1>11. TInv'
  BY <1>4, <1>5, <1>7, <1>8, <1>9, <1>10, StepTyped
<1> QED BY <1>1, <1>3, <1>4, <1>11

LEMMA ChangePutTyped ==
    ASSUME TInv, NEW t \in Thread, ChangePut(t)
    PROVE  /\ TInv' /\ Others(t)
           /\ call'[t] = Idle /\ call'[t].pc = "idle"
           /\ call[t].pc = "put" /\ call[t].c \in Calls /\ call[t].c.op \in ChangeOps
           /\ call[t].info \in Record
<1> DEFINE a == call[t].c.acct
<1>1. call[t].pc = "put" /\ call[t].c \in Calls /\ call[t].info \in Record /\ call[t].c.op \in ChangeOps
  BY DEF ChangePut, At, TInv, Shapes, Shape
<1>2. /\ Fields' /\ Others(t) /\ Locks' /\ Shapes'
      /\ call'[t] = Idle /\ call'[t].pc = "idle"
      /\ uid' \in [App -> Thread \cup {None}]
  BY Returned DEF ChangePut
<1>3. a \in Account /\ Owner[a] \in App
  BY <1>1, CallParts
<1>4. rec' \in [Account -> Record \cup {None}]
  BY <1>1, <1>3 DEF ChangePut, TInv, TypeOK
<1>5. cache' \in [App -> Item \cup {None}] /\ lost' \subseteq Account
  <2>1. CASE UNCHANGED <<cache, lost>>
    BY <2>1 DEF TInv, TypeOK
  <2> DEFINE k == [cache EXCEPT ![Owner[a]].data = call[t].info.data]
  <2>2. CASE Cached(cache, a) /\ SetCache(k, {})
    <3>1. cache[Owner[a]] \in Item /\ call[t].info.data \in Data
      BY <1>1, <1>3, <2>2 DEF Cached, TInv, TypeOK, Record
    <3>2. [cache[Owner[a]] EXCEPT !.data = call[t].info.data] \in Item
      BY <3>1 DEF Item
    <3>3. k \in [App -> Item \cup {None}]
      BY <3>2 DEF TInv, TypeOK
    <3> HIDE DEF k
    <3> QED BY <2>2, <3>3, CacheTyped DEF TInv
  <2> QED BY <2>1, <2>2 DEF ChangePut
<1>6. datamx' \in Thread \cup {None} /\ tokmx' \in Thread \cup {None}
  BY DEF ChangePut, TInv, TypeOK
<1>7. TypeOK'
  BY <1>2, <1>4, <1>5, <1>6 DEF TInv, TypeOK, ChangePut
<1>8. tx' = tx /\ call[t].pc \notin InTx /\ call'[t].pc \notin InTx
  BY <1>1, <1>2 DEF ChangePut, InTx
<1>9. ~(tx # None /\ tx.holder = t)
  BY <1>8 DEF TInv, Trans
<1> QED BY <1>1, <1>2, <1>7, <1>8, <1>9, StepTyped DEF Shapes

\* Who has access after call c if S have it before.
After(c, S) == IF c.op = "enable" THEN S \cup {c.app} ELSE S \ {c.app}

LEMMA AccessLoadTyped ==
    ASSUME TInv, NEW t \in Thread, NEW c \in Calls, At(t, "idle"), AccessLoad(t, c)
    PROVE  /\ TInv' /\ Others(t)
           /\ call'[t].pc = "start" /\ call'[t].c = c
           /\ c.op \in AccessOps \cup {"delete"}
           /\ rec[c.acct] \in Record
           /\ c.op \in AccessOps => /\ call'[t].info.apps = After(c, rec[c.acct].apps)
                                    /\ call'[t].info.data = rec[c.acct].data
<1> DEFINE r == rec[c.acct]
           i == CASE c.op = "enable" -> [r EXCEPT !.apps = @ \cup {c.app}]
                  [] c.op = "disable" -> [r EXCEPT !.apps = @ \ {c.app}]
                  [] OTHER -> None
<1>1. r \in Record /\ c.app \in App
  BY CallParts DEF AccessLoad, TInv, TypeOK
<1>2. Enter(t, "start", c, i) /\ c.op \in AccessOps \cup {"delete"}
  BY DEF AccessLoad, AccessOps
<1>3. c.op \in AccessOps => i \in Record /\ i.apps = After(c, r.apps) /\ i.data = r.data
  <2>1. CASE c.op = "enable"
    BY <1>1, <2>1 DEF Record, After
  <2>2. CASE c.op = "disable"
    BY <1>1, <2>2 DEF Record, After
  <2> QED BY <2>1, <2>2 DEF AccessOps
<1> HIDE DEF i
<1>4. /\ Fields' /\ Others(t) /\ call'[t].pc = "start" /\ call'[t].c = c
      /\ call'[t].info = i /\ call'[t].todo = {}
  BY <1>2, Entered DEF TInv
<1>5. Locks' /\ uid' \in [App -> Thread \cup {None}]
  BY <1>4, Acquired DEF AccessLoad
<1>6. TypeOK'
  BY <1>5 DEF TInv, TypeOK, AccessLoad
<1>7. Shape(call[t])'
  BY <1>2, <1>3, <1>4 DEF Shape, Places, InTx
<1>8. tx' = tx /\ call[t].pc \notin InTx /\ call'[t].pc \notin InTx
  BY <1>4 DEF AccessLoad, At, InTx
<1>9. ~(tx # None /\ tx.holder = t)
  BY <1>8 DEF TInv, Trans
<1>10. TInv'
  BY <1>4, <1>5, <1>6, <1>7, <1>8, <1>9, StepTyped
<1> QED BY <1>1, <1>2, <1>3, <1>4, <1>10

LEMMA UninstallBeginTyped ==
    ASSUME TInv, NEW t \in Thread, NEW c \in Calls, At(t, "idle"), UninstallBegin(t, c)
    PROVE  /\ TInv' /\ Others(t)
           /\ call'[t].pc = "start" /\ call'[t].c = c
<1>1. /\ Fields' /\ Others(t) /\ call'[t].pc = "start" /\ call'[t].c = c
      /\ call'[t].info = None /\ call'[t].todo = {}
  BY Entered DEF TInv, UninstallBegin
<1>2. c.op = "uninstall" /\ c.op \notin Locked /\ c.op \notin AccessOps
  BY DEF UninstallBegin, Locked, AccessOps
<1>3. Locks'
  BY <1>1, <1>2 DEF TInv, Locks, At, Others, UninstallBegin
<1>4. cache' \in [App -> Item \cup {None}] /\ lost' \subseteq Account
  <2> DEFINE k == [cache EXCEPT ![Owner[c.acct]] = None]
  <2>1. k \in [App -> Item \cup {None}] /\ SetCache(k, {})
    BY DEF TInv, TypeOK, UninstallBegin
  <2> HIDE DEF k
  <2> QED BY <2>1, CacheTyped DEF TInv
<1>5. TypeOK'
  BY <1>4 DEF TInv, TypeOK, UninstallBegin
<1>6. Shape(call[t])'
  BY <1>1, <1>2 DEF Shape, Places, InTx
<1>7. tx' = tx /\ call[t].pc \notin InTx /\ call'[t].pc \notin InTx
  BY <1>1 DEF UninstallBegin, At, InTx
<1>8. ~(tx # None /\ tx.holder = t)
  BY <1>7 DEF TInv, Trans
<1> QED BY <1>1, <1>3, <1>5, <1>6, <1>7, <1>8, StepTyped

LEMMA StartTyped ==
    ASSUME TInv, NEW t \in Thread, StartDbTransaction(t)
    PROVE  /\ TInv' /\ Others(t) /\ tx = None /\ call[t].pc = "start"
           /\ \/ tx' = None /\ call'[t] = Idle /\ call'[t].pc = "idle"
              \/ /\ tx'.holder = t /\ tx'.rec = rec /\ tx'.acl = acl
                 /\ tx' # None
                 /\ call'[t].pc = (IF call[t].c.op \in {"delete", "uninstall"}
                                   THEN call[t].c.op ELSE "save")
                 /\ call'[t].c = call[t].c /\ call'[t].info = call[t].info
<1>1. /\ call[t].pc = "start" /\ call[t].c \in Calls /\ tx = None
      /\ call[t].c.op \in AccessOps \cup {"delete", "uninstall"}
  BY DEF StartDbTransaction, At, TInv, Shapes, Shape
<1>2. CASE tx' = tx /\ Return(t)
  <2>1. /\ Fields' /\ Others(t) /\ Locks' /\ Shapes'
        /\ call'[t] = Idle /\ call'[t].pc = "idle"
        /\ uid' \in [App -> Thread \cup {None}]
    BY <1>2, Returned
  <2>2. TypeOK'
    BY <1>2, <2>1 DEF TInv, TypeOK, StartDbTransaction
  <2>3. call'[t].pc \notin InTx
    BY <2>1 DEF InTx
  <2> QED BY <1>1, <1>2, <2>1, <2>2, <2>3, StepTyped DEF Shapes
<1>3. CASE /\ tx' = [holder |-> t, rec |-> rec, acl |-> acl]
           /\ Goto(t, IF call[t].c.op \in {"delete", "uninstall"}
                      THEN call[t].c.op ELSE "save")
           /\ uid' = uid
  <2> DEFINE p == IF call[t].c.op \in {"delete", "uninstall"} THEN call[t].c.op ELSE "save"
  <2>1. /\ Fields' /\ Others(t) /\ call'[t].pc = p /\ call'[t].c = call[t].c
        /\ call'[t].info = call[t].info
    BY <1>3, WentTo DEF TInv
  <2>2. tx' \in Transaction /\ tx'.holder = t /\ tx'.rec = rec /\ tx'.acl = acl
    BY <1>3 DEF Transaction, TInv, TypeOK
  <2>3. tx' # None
    BY <2>2, NoneIsNothing
  <2>4. TypeOK'
    BY <1>3, <2>2 DEF TInv, TypeOK, StartDbTransaction
  <2>5. Locks'
    BY <1>1, <1>3, <2>1, LocksKept DEF At
  <2>6. p \in InTx
    BY <1>1 DEF InTx
  <2>7. Shape(call[t])
    BY DEF TInv, Shapes
  <2>8. Shape(call[t])'
    BY <1>1, <2>1, <2>7 DEF Shape, Places, InTx, AccessOps
  <2> QED BY <1>1, <2>1, <2>2, <2>3, <2>4, <2>5, <2>6, <2>8, StepTyped
<1> QED BY <1>2, <1>3 DEF StartDbTransaction

\* A transaction that is rolled back.
Undone(t) ==
    /\ tx # None /\ tx.holder = t
    /\ rec' = tx.rec /\ acl' = tx.acl /\ tx' = None
    /\ cache' = cache
    /\ lost' = {b \in lost \cup {a \in Account : rec[a] # tx.rec[a]} : Cached(cache, b)}
    /\ call'[t] = Idle /\ call'[t].pc = "idle"

LEMMA RollbackTyped ==
    ASSUME TInv, NEW t \in Thread, call[t].pc \in InTx, Rollback(t),
           UNCHANGED <<datamx, tokmx, crashes>>
    PROVE  TInv' /\ Others(t) /\ Undone(t)
<1>1. tx # None /\ tx.holder = t /\ tx \in Transaction
  BY DEF TInv, Trans, TypeOK
<1>2. /\ Fields' /\ Others(t) /\ Locks' /\ Shapes'
      /\ call'[t] = Idle /\ call'[t].pc = "idle"
      /\ uid' \in [App -> Thread \cup {None}]
  BY Returned DEF Rollback
<1>3. /\ cache' = cache
      /\ lost' = {b \in lost \cup {a \in Account : rec[a] # tx.rec[a]} : Cached(cache, b)}
  BY DEF Rollback, SetCache
<1>4. rec' = tx.rec /\ acl' = tx.acl /\ tx' = None
  BY DEF Rollback, Restore
<1>5. TypeOK'
  BY <1>1, <1>2, <1>3, <1>4 DEF TypeOK, TInv, Transaction
<1>6. call'[t].pc \notin InTx
  BY <1>2 DEF InTx
<1>7. TInv'
  BY <1>2, <1>4, <1>5, <1>6, StepTyped DEF Shapes
<1> QED BY <1>1, <1>2, <1>3, <1>4, <1>7 DEF Undone

\* A call in its transaction goes on to the place p of the transaction.
LEMMA InsideTyped ==
    ASSUME TInv, NEW t \in Thread, call[t].pc \in InTx, call'[t].pc \in InTx,
           Fields', Others(t), tx' = tx, uid' = uid, call'[t].c = call[t].c,
           TypeOK', Shape(call[t])'
    PROVE  TInv'
<1>1. ~At(t, "idle")
  BY DEF At, InTx
<1>2. tx # None /\ tx.holder = t
  BY DEF TInv, Trans
<1> QED BY <1>1, <1>2, LocksKept, StepTyped

LEMMA AccessSaveTyped ==
    ASSUME TInv, NEW t \in Thread, AccessSave(t)
    PROVE  /\ TInv' /\ Others(t)
           /\ call[t].pc = "save" /\ call[t].c \in Calls /\ call[t].c.op \in AccessOps
           /\ call[t].info \in Record
           /\ \/ Undone(t)
              \/ /\ rec' = [rec EXCEPT ![call[t].c.acct] = call[t].info]
                 /\ UNCHANGED <<acl, tx, cache, lost, uid>>
                 /\ call'[t].pc = "acl" /\ call'[t].c = call[t].c
                 /\ call'[t].info = call[t].info
<1>1. /\ call[t].pc = "save" /\ call[t].c \in Calls /\ call[t].c.op \in AccessOps
      /\ call[t].info \in Record
  BY DEF AccessSave, At, TInv, Shapes, Shape
<1>2. call[t].pc \in InTx
  BY <1>1 DEF InTx
<1>3. CASE Rollback(t)
  BY <1>1, <1>2, <1>3, RollbackTyped DEF AccessSave
<1>4. CASE /\ rec' = [rec EXCEPT ![call[t].c.acct] = call[t].info]
           /\ Goto(t, "acl")
           /\ UNCHANGED <<acl, tx, cache, lost, uid>>
  <2>1. /\ Fields' /\ Others(t) /\ call'[t].pc = "acl" /\ call'[t].c = call[t].c
        /\ call'[t].info = call[t].info
    BY <1>4, WentTo DEF TInv
  <2>2. TypeOK'
    BY <1>1, <1>4, CallParts DEF AccessSave, TInv, TypeOK
  <2>3. Shape(call[t])'
    BY <1>1, <2>1 DEF Shape, Places, InTx
  <2>4. call'[t].pc \in InTx
    BY <2>1 DEF InTx
  <2> QED BY <1>1, <1>2, <1>4, <2>1, <2>2, <2>3, <2>4, InsideTyped
<1> QED BY <1>3, <1>4 DEF AccessSave

\* What is read of the lists is typed, and is what is there if no read fails.
LEMMA ReadTyped ==
    ASSUME TInv, NEW lists \in ReadLists
    PROVE  lists \in [App -> SUBSET Account]
BY DEF ReadLists, TInv, TypeOK

LEMMA ReadWell ==
    ASSUME AccessGuarded
    PROVE  ReadLists = {acl}
BY DEF ReadLists, AccessGuarded

LEMMA AccessAuthorizeTyped ==
    ASSUME TInv, NEW t \in Thread, AccessAuthorize(t)
    PROVE  /\ TInv' /\ Others(t)
           /\ call[t].pc = "acl" /\ call[t].c \in Calls /\ call[t].c.op \in AccessOps
           /\ \/ Undone(t)
              \/ /\ \E lists \in ReadLists :
                       acl' = [lists EXCEPT ![call[t].c.app] =
                                   IF call[t].c.op = "enable" THEN @ \cup {call[t].c.acct}
                                                      ELSE @ \ {call[t].c.acct}]
                 /\ UNCHANGED <<rec, tx, cache, lost, uid>>
                 /\ call'[t].pc = "commit" /\ call'[t].c = call[t].c
<1>1. /\ call[t].pc = "acl" /\ call[t].c \in Calls /\ call[t].c.op \in AccessOps
  BY DEF AccessAuthorize, At, TInv, Shapes, Shape
<1>2. call[t].pc \in InTx
  BY <1>1 DEF InTx
<1>3. CASE Rollback(t)
  BY <1>1, <1>2, <1>3, RollbackTyped DEF AccessAuthorize
<1>4. ASSUME NEW lists \in ReadLists,
             acl' = [lists EXCEPT ![call[t].c.app] =
                                   IF call[t].c.op = "enable" THEN @ \cup {call[t].c.acct}
                                                      ELSE @ \ {call[t].c.acct}],
             Goto(t, "commit"),
             UNCHANGED <<rec, tx, cache, lost, uid>>
      PROVE  /\ TInv' /\ Others(t) /\ call'[t].pc = "commit" /\ call'[t].c = call[t].c
  <2>1. /\ Fields' /\ Others(t) /\ call'[t].pc = "commit" /\ call'[t].c = call[t].c
    BY <1>4, WentTo DEF TInv
  <2>2. call[t].c.acct \in Account /\ call[t].c.app \in App
    BY <1>1, CallParts
  <2>3. acl' \in [App -> SUBSET Account]
    BY <1>4, <2>2, ReadTyped
  <2>4. TypeOK'
    BY <1>4, <2>3 DEF AccessAuthorize, TInv, TypeOK
  <2>5. Shape(call[t])'
    BY <1>1, <2>1 DEF Shape, Places, InTx
  <2>6. call'[t].pc \in InTx
    BY <2>1 DEF InTx
  <2> QED BY <1>1, <1>2, <1>4, <2>1, <2>4, <2>5, <2>6, InsideTyped
<1> QED BY <1>1, <1>3, <1>4 DEF AccessAuthorize

\* The parts of a call that are set together.
SetTwo(t, p, d) == call' = [call EXCEPT ![t].pc = p, ![t].todo = d]
SetThree(t, p, i, d) ==
    call' = [call EXCEPT ![t].pc = p, ![t].info = i, ![t].todo = d]
OneLess(t, x) ==
    call' = [call EXCEPT ![t].todo = @ \ {x},
                         ![t].pc = IF call[t].todo = {x} THEN "commit" ELSE @]

LEMMA Twice ==
    ASSUME Fields, NEW t \in Thread, NEW p, NEW d,
           SetTwo(t, p, d)
    PROVE  Put4(t, p, call[t].c, call[t].info, d)
<1>1. call[t] = At4(call[t].pc, call[t].c, call[t].info, call[t].todo) /\ DOMAIN call = Thread
  BY DEF Fields
<1>2. [call[t] EXCEPT !.pc = p] = At4(p, call[t].c, call[t].info, call[t].todo)
  BY <1>1 DEF At4
<1>3. [At4(p, call[t].c, call[t].info, call[t].todo) EXCEPT !.todo = d] = At4(p, call[t].c, call[t].info, d)
  BY DEF At4
<1>4. call' = [call EXCEPT ![t] = [[call[t] EXCEPT !.pc = p] EXCEPT !.todo = d]]
  BY <1>1 DEF SetTwo
<1> QED BY <1>2, <1>3, <1>4 DEF Put4

LEMMA Thrice ==
    ASSUME Fields, NEW t \in Thread, NEW p, NEW i, NEW d,
           SetThree(t, p, i, d)
    PROVE  Put4(t, p, call[t].c, i, d)
<1>1. call[t] = At4(call[t].pc, call[t].c, call[t].info, call[t].todo) /\ DOMAIN call = Thread
  BY DEF Fields
<1>2. [call[t] EXCEPT !.pc = p] = At4(p, call[t].c, call[t].info, call[t].todo)
  BY <1>1 DEF At4
<1>3. /\ [At4(p, call[t].c, call[t].info, call[t].todo) EXCEPT !.info = i] = At4(p, call[t].c, i, call[t].todo)
      /\ [At4(p, call[t].c, i, call[t].todo) EXCEPT !.todo = d] = At4(p, call[t].c, i, d)
  BY DEF At4
<1>4. call' = [call EXCEPT ![t] = [[[call[t] EXCEPT !.pc = p] EXCEPT !.info = i] EXCEPT !.todo = d]]
  BY <1>1 DEF SetThree
<1> QED BY <1>2, <1>3, <1>4 DEF Put4

LEMMA Lessened ==
    ASSUME Fields, NEW t \in Thread, NEW x,
           OneLess(t, x)
    PROVE  Put4(t, IF call[t].todo = {x} THEN "commit" ELSE call[t].pc,
                call[t].c, call[t].info, call[t].todo \ {x})
<1>1. call[t] = At4(call[t].pc, call[t].c, call[t].info, call[t].todo) /\ DOMAIN call = Thread
  BY DEF Fields
<1> DEFINE v == IF call[t].todo = {x} THEN "commit" ELSE call[t].pc
           d == call[t].todo \ {x}
<1>4. call' = [call EXCEPT ![t] = [[call[t] EXCEPT !.todo = d] EXCEPT !.pc = v]]
  BY <1>1 DEF OneLess, At4
<1> HIDE DEF v, d
<1>2. [call[t] EXCEPT !.todo = d] = At4(call[t].pc, call[t].c, call[t].info, d)
  BY <1>1 DEF At4
<1>3. [At4(call[t].pc, call[t].c, call[t].info, d) EXCEPT !.pc = v] = At4(v, call[t].c, call[t].info, d)
  BY <1>1 DEF At4
<1>5. Put4(t, v, call[t].c, call[t].info, d)
  BY <1>2, <1>3, <1>4 DEF Put4
<1> QED BY <1>5 DEF v, d

LEMMA DeleteRecordTyped ==
    ASSUME TInv, NEW t \in Thread, DeleteRecord(t)
    PROVE  /\ TInv' /\ Others(t)
           /\ call[t].pc = "delete" /\ call[t].c \in Calls /\ call[t].c.op = "delete"
           /\ \/ Undone(t)
              \/ /\ rec[call[t].c.acct] \in Record
                 /\ rec' = [rec EXCEPT ![call[t].c.acct] = None]
                 /\ UNCHANGED <<acl, tx, cache, lost, uid>>
                 /\ call'[t].pc = "uncache" /\ call'[t].c = call[t].c
                 /\ call'[t].todo = rec[call[t].c.acct].apps
<1> DEFINE a == call[t].c.acct
<1>1. /\ call[t].pc = "delete" /\ call[t].c \in Calls /\ call[t].c.op = "delete"
  BY DEF DeleteRecord, At, TInv, Shapes, Shape
<1>2. call[t].pc \in InTx
  BY <1>1 DEF InTx
<1>3. CASE Rollback(t)
  BY <1>1, <1>2, <1>3, RollbackTyped DEF DeleteRecord
<1>4. CASE /\ rec[a] # None
           /\ rec' = [rec EXCEPT ![a] = None]
           /\ call' = [call EXCEPT ![t].pc = "uncache", ![t].todo = rec[a].apps]
           /\ UNCHANGED <<acl, tx, cache, lost, uid>>
  <2>1. Fields
    BY DEF TInv
  <2>2. Put4(t, "uncache", call[t].c, call[t].info, rec[a].apps)
    <3>1. SetTwo(t, "uncache", rec[a].apps)
      BY <1>4 DEF SetTwo
    <3> QED BY <2>1, <3>1, Twice
  <2>3. /\ Fields' /\ Others(t) /\ call'[t].pc = "uncache" /\ call'[t].c = call[t].c
        /\ call'[t].todo = rec[a].apps
    BY <2>1, <2>2, Moved
  <2>4. rec[a] \in Record /\ a \in Account
    BY <1>1, <1>4, CallParts DEF TInv, TypeOK
  <2>5. TypeOK'
    BY <1>4, <2>4 DEF DeleteRecord, TInv, TypeOK
  <2>6. rec[a].apps \in SUBSET App
    BY <2>4 DEF Record
  <2>7. Shape(call[t])'
    BY <1>1, <2>3, <2>6 DEF Shape, Places, InTx
  <2>8. call'[t].pc \in InTx
    BY <2>3 DEF InTx
  <2> QED BY <1>1, <1>2, <1>4, <2>3, <2>4, <2>5, <2>7, <2>8, InsideTyped
<1> QED BY <1>3, <1>4 DEF DeleteRecord

LEMMA DeleteCacheTyped ==
    ASSUME TInv, NEW t \in Thread, DeleteCache(t)
    PROVE  /\ TInv' /\ Others(t)
           /\ call[t].pc = "uncache" /\ call[t].c \in Calls /\ call[t].c.op = "delete"
           /\ call'[t].pc = (IF call[t].todo = {} THEN "commit" ELSE "unauthorize")
           /\ call'[t].c = call[t].c /\ call'[t].todo = call[t].todo
<1> DEFINE a == call[t].c.acct
           k == [cache EXCEPT ![Owner[a]] = IF Cached(cache, a) THEN None ELSE @]
           p == IF call[t].todo = {} THEN "commit" ELSE "unauthorize"
<1>1. /\ call[t].pc = "uncache" /\ call[t].c \in Calls /\ call[t].c.op = "delete"
      /\ call[t].todo \in SUBSET App
  BY DEF DeleteCache, At, TInv, Shapes, Shape
<1>2. call[t].pc \in InTx
  BY <1>1 DEF InTx
<1>3. Goto(t, p) /\ SetCache(k, {})
  BY DEF DeleteCache
<1>4. k \in [App -> Item \cup {None}]
  BY DEF TInv, TypeOK
<1> HIDE DEF k
<1>5. cache' \in [App -> Item \cup {None}] /\ lost' \subseteq Account
  BY <1>3, <1>4, CacheTyped DEF TInv
<1>6. /\ Fields' /\ Others(t) /\ call'[t].pc = p /\ call'[t].c = call[t].c
      /\ call'[t].todo = call[t].todo
  BY <1>3, WentTo DEF TInv
<1>7. TypeOK'
  BY <1>5 DEF DeleteCache, TInv, TypeOK
<1>8. Shape(call[t])'
  BY <1>1, <1>6 DEF Shape, Places, InTx
<1>9. call'[t].pc \in InTx
  BY <1>6 DEF InTx
<1>10. uid' = uid /\ tx' = tx
  BY DEF DeleteCache
<1> QED BY <1>1, <1>2, <1>6, <1>7, <1>8, <1>9, <1>10, InsideTyped

LEMMA DeleteAuthorizedTyped ==
    ASSUME TInv, NEW t \in Thread, DeleteAuthorized(t)
    PROVE  /\ TInv' /\ Others(t)
           /\ call[t].pc = "unauthorize" /\ call[t].c \in Calls /\ call[t].c.op = "delete"
           /\ \/ Undone(t)
              \/ \E x \in call[t].todo, lists \in ReadLists :
                     /\ x \in App
                     /\ acl' = [lists EXCEPT ![x] = @ \ {call[t].c.acct}]
                     /\ UNCHANGED <<rec, tx, cache, lost, uid>>
                     /\ call'[t].pc = (IF call[t].todo = {x} THEN "commit" ELSE "unauthorize")
                     /\ call'[t].c = call[t].c
                     /\ call'[t].todo = call[t].todo \ {x}
<1> DEFINE a == call[t].c.acct
<1>1. /\ call[t].pc = "unauthorize" /\ call[t].c \in Calls /\ call[t].c.op = "delete"
      /\ call[t].todo \in SUBSET App
  BY DEF DeleteAuthorized, At, TInv, Shapes, Shape
<1>2. call[t].pc \in InTx
  BY <1>1 DEF InTx
<1>3. CASE Rollback(t)
  BY <1>1, <1>2, <1>3, RollbackTyped DEF DeleteAuthorized
<1>4. ASSUME NEW x \in call[t].todo, NEW lists \in ReadLists,
             acl' = [lists EXCEPT ![x] = @ \ {a}],
             call' = [call EXCEPT ![t].todo = @ \ {x},
                                  ![t].pc = IF call[t].todo = {x} THEN "commit" ELSE @],
             UNCHANGED <<rec, tx, cache, lost, uid>>
      PROVE  /\ TInv' /\ Others(t) /\ x \in App
             /\ call'[t].pc = (IF call[t].todo = {x} THEN "commit" ELSE "unauthorize")
             /\ call'[t].c = call[t].c
             /\ call'[t].todo = call[t].todo \ {x}
  <2> DEFINE p == IF call[t].todo = {x} THEN "commit" ELSE "unauthorize"
  <2>1. Fields
    BY DEF TInv
  <2>2. Put4(t, p, call[t].c, call[t].info, call[t].todo \ {x})
    <3>1. OneLess(t, x)
      BY <1>4 DEF OneLess
    <3> QED BY <1>1, <2>1, <3>1, Lessened
  <2> HIDE DEF p
  <2>3. /\ Fields' /\ Others(t) /\ call'[t].pc = p /\ call'[t].c = call[t].c
        /\ call'[t].todo = call[t].todo \ {x}
    BY <2>1, <2>2, Moved
  <2>4. x \in App /\ acl' \in [App -> SUBSET Account]
    BY <1>1, <1>4, ReadTyped
  <2>5. TypeOK'
    BY <1>4, <2>4 DEF DeleteAuthorized, TInv, TypeOK
  <2>6. Shape(call[t])'
    BY <1>1, <2>3 DEF Shape, Places, InTx, p
  <2>7. call'[t].pc \in InTx
    BY <2>3 DEF InTx, p
  <2> QED BY <1>1, <1>2, <1>4, <2>3, <2>4, <2>5, <2>6, <2>7, InsideTyped DEF p
<1> QED BY <1>1, <1>3, <1>4 DEF DeleteAuthorized

LEMMA UninstallLoadTyped ==
    ASSUME TInv, NEW t \in Thread, UninstallLoad(t)
    PROVE  /\ TInv' /\ Others(t)
           /\ call[t].pc = "uninstall" /\ call[t].c \in Calls /\ call[t].c.op = "uninstall"
           /\ \/ Undone(t)
              \/ /\ UNCHANGED <<rec, acl, tx, cache, lost, uid>>
                 /\ call'[t].pc \in {"commit", "sweep"} /\ call'[t].c = call[t].c
                 /\ call'[t].todo = Of(Owner[call[t].c.acct])
                 /\ call'[t].info = [a \in Of(Owner[call[t].c.acct]) |-> rec[a].apps]
<1> DEFINE mine == Of(Owner[call[t].c.acct])
           i == [a \in mine |-> rec[a].apps]
           p == IF mine = {} THEN "commit" ELSE "sweep"
<1>1. call[t].pc = "uninstall" /\ call[t].c \in Calls /\ call[t].c.op = "uninstall"
  BY DEF UninstallLoad, At, TInv, Shapes, Shape
<1>2. call[t].pc \in InTx
  BY <1>1 DEF InTx
<1>3. CASE Rollback(t)
  BY <1>1, <1>2, <1>3, RollbackTyped DEF UninstallLoad
<1>4. CASE /\ call' = [call EXCEPT ![t].pc = p, ![t].info = i, ![t].todo = mine]
           /\ UNCHANGED <<rec, acl, tx, cache, lost, uid>>
  <2>1. Fields
    BY DEF TInv
  <2>2. mine \in SUBSET Account /\ \A b \in mine : Owner[b] = Owner[call[t].c.acct]
    BY DEF Of
  <2> HIDE DEF i, p, mine
  <2>3. Put4(t, p, call[t].c, i, mine)
    <3>1. SetThree(t, p, i, mine)
      BY <1>4 DEF SetThree
    <3> QED BY <2>1, <3>1, Thrice
  <2>4. /\ Fields' /\ Others(t) /\ call'[t].pc = p /\ call'[t].c = call[t].c
        /\ call'[t].todo = mine /\ call'[t].info = i
    BY <2>1, <2>3, Moved
  <2>5. TypeOK'
    BY <1>4 DEF UninstallLoad, TInv, TypeOK
  <2>6. p \in {"commit", "sweep"}
    BY DEF p
  <2>7. Shape(call[t])'
    BY <1>1, <2>2, <2>4, <2>6 DEF Shape, Places, InTx
  <2>8. call'[t].pc \in InTx
    BY <2>4, <2>6 DEF InTx
  <2>9. TInv'
    BY <1>1, <1>2, <1>4, <2>4, <2>5, <2>7, <2>8, InsideTyped
  <2> QED BY <1>1, <1>4, <2>4, <2>6, <2>9 DEF i, mine
<1> QED BY <1>3, <1>4 DEF UninstallLoad

LEMMA UninstallSweepTyped ==
    ASSUME TInv, NEW t \in Thread, UninstallSweep(t)
    PROVE  /\ TInv' /\ Others(t)
           /\ call[t].pc = "sweep" /\ call[t].c \in Calls /\ call[t].c.op = "uninstall"
           /\ UNCHANGED <<tx, uid>>
           /\ \E a \in call[t].todo, unlisted, deleted \in Outcome("sweep"), lists \in ReadLists :
                 /\ a \in Account /\ Owner[a] = Owner[call[t].c.acct]
                 /\ acl' = [x \in App |-> IF ~unlisted \/ call[t].info[a] = {} THEN acl[x]
                                          ELSE IF x \in call[t].info[a] THEN lists[x] \ {a}
                                          ELSE lists[x]]
                 /\ rec' = IF deleted THEN [rec EXCEPT ![a] = None] ELSE rec
                 /\ SetCache(cache, IF deleted THEN {a} ELSE {})
                 /\ call'[t].pc \in {"commit", "sweep"} /\ call'[t].c = call[t].c
                 /\ call'[t].info = call[t].info
                 /\ call'[t].todo = call[t].todo \ {a}
<1>1. /\ call[t].pc = "sweep" /\ call[t].c \in Calls /\ call[t].c.op = "uninstall"
      /\ call[t].todo \in SUBSET Account
      /\ \A a \in call[t].todo : Owner[a] = Owner[call[t].c.acct]
  BY DEF UninstallSweep, At, TInv, Shapes, Shape
<1>2. call[t].pc \in InTx
  BY <1>1 DEF InTx
<1>3. PICK a \in call[t].todo, unlisted \in Outcome("sweep"), deleted \in Outcome("sweep"),
           lists \in ReadLists :
           /\ acl' = [x \in App |-> IF ~unlisted \/ call[t].info[a] = {} THEN acl[x]
                                    ELSE IF x \in call[t].info[a] THEN lists[x] \ {a}
                                    ELSE lists[x]]
           /\ rec' = IF deleted THEN [rec EXCEPT ![a] = None] ELSE rec
           /\ SetCache(cache, IF deleted THEN {a} ELSE {})
           /\ call' = [call EXCEPT ![t].todo = @ \ {a},
                                   ![t].pc = IF call[t].todo = {a} THEN "commit" ELSE @]
  BY DEF UninstallSweep
<1> DEFINE p == IF call[t].todo = {a} THEN "commit" ELSE "sweep"
           S == IF deleted THEN {a} ELSE {}
<1>4. a \in Account /\ Owner[a] = Owner[call[t].c.acct]
  BY <1>1
<1>5. Fields
  BY DEF TInv
<1>6. Put4(t, p, call[t].c, call[t].info, call[t].todo \ {a})
  <2>1. OneLess(t, a)
    BY <1>3 DEF OneLess
  <2> QED BY <1>1, <1>5, <2>1, Lessened
<1>7. p \in {"commit", "sweep"}
  OBVIOUS
<1>8. S \in SUBSET Account /\ SetCache(cache, S)
  BY <1>3, <1>4
<1> HIDE DEF p, S
<1>9. /\ Fields' /\ Others(t) /\ call'[t].pc = p /\ call'[t].c = call[t].c
      /\ call'[t].todo = call[t].todo \ {a} /\ call'[t].info = call[t].info
  BY <1>5, <1>6, Moved
<1>10. cache' \in [App -> Item \cup {None}] /\ lost' \subseteq Account
  BY <1>8, CacheTyped DEF TInv, TypeOK
<1>11. acl' \in [App -> SUBSET Account]
  <2>1. \A x \in App : /\ acl[x] \in SUBSET Account
                       /\ lists[x] \in SUBSET Account /\ lists[x] \ {a} \in SUBSET Account
    BY ReadTyped DEF TInv, TypeOK
  <2> QED BY <1>3, <2>1
<1>12. rec' \in [Account -> Record \cup {None}]
  BY <1>3 DEF TInv, TypeOK
<1>13. TypeOK' /\ UNCHANGED <<tx, uid>>
  BY <1>10, <1>11, <1>12 DEF TInv, TypeOK, UninstallSweep
<1>14. Shape(call[t])'
  BY <1>1, <1>7, <1>9 DEF Shape, Places, InTx
<1>15. call'[t].pc \in InTx
  BY <1>7, <1>9 DEF InTx
<1>16. TInv'
  BY <1>2, <1>9, <1>13, <1>14, <1>15, InsideTyped
<1> DEFINE Swept(b, u, d, l) ==
               /\ b \in Account /\ Owner[b] = Owner[call[t].c.acct]
               /\ acl' = [x \in App |-> IF ~u \/ call[t].info[b] = {} THEN acl[x]
                                        ELSE IF x \in call[t].info[b] THEN l[x] \ {b}
                                        ELSE l[x]]
               /\ rec' = IF d THEN [rec EXCEPT ![b] = None] ELSE rec
               /\ SetCache(cache, IF d THEN {b} ELSE {})
               /\ call'[t].pc \in {"commit", "sweep"} /\ call'[t].c = call[t].c
               /\ call'[t].info = call[t].info
               /\ call'[t].todo = call[t].todo \ {b}
<1>17. Swept(a, unlisted, deleted, lists)
  BY <1>3, <1>4, <1>7, <1>9
<1>18. \E b \in call[t].todo, u, d \in Outcome("sweep"), l \in ReadLists : Swept(b, u, d, l)
  <2> HIDE DEF Swept
  <2> QED BY <1>17
<1> QED BY <1>1, <1>9, <1>13, <1>16, <1>18

LEMMA CommitTyped ==
    ASSUME TInv, NEW t \in Thread, CommitDbTransaction(t)
    PROVE  /\ TInv' /\ Others(t)
           /\ call[t].pc = "commit" /\ call[t].c \in Calls
           /\ \/ Undone(t)
              \/ /\ tx # None /\ tx.holder = t /\ tx' = None
                 /\ UNCHANGED <<rec, acl, cache, lost>>
                 /\ call'[t] = Idle /\ call'[t].pc = "idle"
<1>1. call[t].pc = "commit" /\ call[t].c \in Calls
  BY DEF CommitDbTransaction, At, TInv, Shapes, Shape
<1>2. call[t].pc \in InTx
  BY <1>1 DEF InTx
<1>3. CASE Rollback(t)
  BY <1>1, <1>2, <1>3, RollbackTyped DEF CommitDbTransaction
<1>4. CASE tx' = None /\ Return(t) /\ UNCHANGED <<rec, acl, cache, lost>>
  <2>1. /\ Fields' /\ Others(t) /\ Locks' /\ Shapes'
        /\ call'[t] = Idle /\ call'[t].pc = "idle"
        /\ uid' \in [App -> Thread \cup {None}]
    BY <1>4, Returned
  <2>2. TypeOK'
    BY <1>4, <2>1 DEF TInv, TypeOK, CommitDbTransaction
  <2>3. tx # None /\ tx.holder = t /\ call'[t].pc \notin InTx
    BY <1>2, <2>1 DEF TInv, Trans, InTx
  <2> QED BY <1>1, <1>2, <1>4, <2>1, <2>2, <2>3, StepTyped DEF Shapes
<1> QED BY <1>3, <1>4 DEF CommitDbTransaction

LEMMA CrashTyped ==
    ASSUME TInv, Crash
    PROVE  /\ TInv'
           /\ \A t \in Thread : call'[t] = Idle /\ call'[t].pc = "idle"
           /\ tx' = None /\ cache' = [x \in App |-> None]
           /\ IF tx = None THEN rec' = rec /\ acl' = acl
                           ELSE rec' = tx.rec /\ acl' = tx.acl
<1>1. /\ tx' = None /\ cache' = [x \in App |-> None]
      /\ IF tx = None THEN rec' = rec /\ acl' = acl
                      ELSE rec' = tx.rec /\ acl' = tx.acl
  BY DEF Crash, Restore, SetCache
<1>2. \A t \in Thread : call'[t] = Idle /\ call'[t].pc = "idle"
  BY DEF Crash, Idle
<1>3. call' = [t \in Thread |-> Idle] /\ Idle = At4("idle", None, None, {})
  BY DEF Crash, Idle, At4
<1>4. Fields'
  <2>1. \A t \in Thread : call'[t] = At4(call'[t].pc, call'[t].c, call'[t].info, call'[t].todo)
    BY <1>2, <1>3, Parts
  <2>2. call' = [t \in Thread |-> call'[t]]
    BY <1>3
  <2> QED BY <2>1, <2>2 DEF Fields
<1>5. lost' \subseteq Account /\ cache' \in [App -> Item \cup {None}]
  BY <1>1 DEF Crash, SetCache, TInv, TypeOK
<1>6. tx # None => tx \in Transaction
  BY DEF TInv, TypeOK
<1>7. rec' \in [Account -> Record \cup {None}] /\ acl' \in [App -> SUBSET Account]
  BY <1>1, <1>6 DEF Transaction, TInv, TypeOK
<1>8. crashes' \in 0 .. MaxCrashes
  BY AppAccountConstants DEF Crash, TInv, TypeOK
<1>9. /\ uid' \in [App -> Thread \cup {None}]
      /\ datamx' \in Thread \cup {None} /\ tokmx' \in Thread \cup {None}
  BY DEF Crash
<1>10. TypeOK'
  BY <1>1, <1>5, <1>7, <1>8, <1>9 DEF TypeOK
<1>11. Shapes' /\ Locks' /\ Trans'
  <2>1. Shape(Idle)
    BY DEF Shape, Idle, Places, InTx
  <2> QED BY <1>1, <1>2, <2>1 DEF Shapes, Locks, Trans, At, InTx
<1> QED BY <1>1, <1>2, <1>4, <1>10, <1>11 DEF TInv

LEMMA InitTyped == Init => TInv
<1>1. SUFFICES ASSUME Init PROVE TInv
  OBVIOUS
<1>2. Initial \in Data
  BY AppAccountConstants DEF Initial
<1>3. \A t \in Thread : call[t] = Idle /\ call[t].pc = "idle"
  BY <1>1 DEF Init, Idle
<1>4. call = [t \in Thread |-> Idle] /\ Idle = At4("idle", None, None, {})
  BY <1>1 DEF Init, Idle, At4
<1>5. Fields
  <2>1. \A t \in Thread : call[t] = At4(call[t].pc, call[t].c, call[t].info, call[t].todo)
    BY <1>3, <1>4, Parts
  <2>2. call = [t \in Thread |-> call[t]]
    BY <1>4
  <2> QED BY <2>1, <2>2 DEF Fields
<1>6. Fresh(Initial) \in Record
  BY <1>2, FreshTyped
<1>7. TypeOK
  BY <1>1, <1>6, AppAccountConstants DEF Init, TypeOK
<1>8. Shapes /\ Locks /\ Trans
  <2>1. Shape(Idle)
    BY DEF Shape, Idle, Places, InTx
  <2> QED BY <1>1, <1>3, <2>1 DEF Shapes, Locks, Trans, At, InTx, Init
<1> QED BY <1>5, <1>7, <1>8 DEF TInv

LEMMA StutterTyped == ASSUME TInv, UNCHANGED vars PROVE TInv'
BY DEF TInv, vars, TypeOK, Fields, Shapes, Locks, Trans, At

LEMMA NextTyped == ASSUME TInv, [Next]_vars PROVE TInv'
<1>1. ASSUME NEW t \in Thread, Begin(t) PROVE TInv'
  <2>1. PICK c \in Calls :
            /\ At(t, "idle")
            /\ \/ AddCheck(t, c) \/ GetAssociatedData(t, c) \/ ChangeLoad(t, c)
               \/ AccessLoad(t, c) \/ UninstallBegin(t, c)
    BY <1>1 DEF Begin
  <2> QED BY <2>1, AddCheckTyped, GetAssociatedDataTyped, ChangeLoadTyped, AccessLoadTyped,
             UninstallBeginTyped
<1>2. ASSUME NEW t \in Thread, Step(t) PROVE TInv'
  BY <1>2, AddPutTyped, ChangePutTyped, StartTyped, AccessSaveTyped, AccessAuthorizeTyped,
     DeleteRecordTyped, DeleteCacheTyped, DeleteAuthorizedTyped, UninstallLoadTyped,
     UninstallSweepTyped, CommitTyped DEF Step
<1>3. CASE Crash
  BY <1>3, CrashTyped
<1>4. CASE UNCHANGED vars
  BY <1>4, StutterTyped
<1> QED BY <1>1, <1>2, <1>3, <1>4 DEF Next

\* In every state the store, the cache, the locks and the transaction have
\* their types, whatever fails and however the calls interleave.
THEOREM TypeCorrect == Spec => []TypeOK
<1>1. Spec => []TInv
  BY InitTyped, NextTyped, PTL DEF Spec
<1>2. TInv => TypeOK
  BY DEF TInv
<1> QED BY <1>1, <1>2, PTL

-----------------------------------------------------------------------------
\* The apps that list account a, and those that its record names.
Listed(l, a) == {x \in App : a \in l[x]}
Named(r, a) == IF r[a] = None THEN {} ELSE r[a].apps

\* The places between the write of the record and that of the lists.
Between == {"acl", "uncache", "unauthorize"}
Mid(t, a) == call[t].pc \in Between /\ call[t].c.acct = a

\* The accounts that the transaction of call c may change.
Touches(c, a) == IF c.op = "uninstall" THEN Owner[c.acct] = Owner[a]
                                       ELSE c.acct = a

\* The record and the lists agree unless a call is between their writes.
Settled ==
    \A a \in Account :
        (\A t \in Thread : ~Mid(t, a)) => Listed(acl, a) = Named(rec, a)

\* They agree in the image of a transaction, which changes no other lists.
Image ==
    tx # None =>
        \A a \in Account :
            /\ Listed(tx.acl, a) = Named(tx.rec, a)
            /\ ~Touches(call[tx.holder].c, a) => Listed(tx.acl, a) = Listed(acl, a)

\* Nobody has access that nobody was given.
Few(l, r) ==
    \A a \in Account :
        /\ Private(a) => Listed(l, a) = {} /\ Named(r, a) = {}
        /\ \A x \in App :
               Single(a, x) => Listed(l, a) \subseteq {x} /\ Named(r, a) \subseteq {x}

\* What a call knows of the access to its account.
Knows(w) ==
    /\ w.pc = "add" => Listed(acl, w.c.acct) = {}
    /\ w.pc = "put" => w.info.apps = Listed(acl, w.c.acct)
    /\ w.pc \in {"start", "save", "acl"} /\ w.c.op \in AccessOps =>
           w.info.apps = After(w.c, Listed(acl, w.c.acct))
    /\ w.pc = "acl" => Named(rec, w.c.acct) = w.info.apps
    /\ w.pc \in {"uncache", "unauthorize"} =>
           /\ Listed(acl, w.c.acct) = w.todo
           /\ rec[w.c.acct] # None => w.todo = {}
           /\ Named(rec, w.c.acct) = {}
    /\ w.pc = "sweep" => \A b \in w.todo : w.info[b] = Listed(acl, b)

Knowing == \A t \in Thread : Knows(call[t])

AInv == Settled /\ Image /\ Few(acl, rec) /\ (tx # None => Few(tx.acl, tx.rec)) /\ Knowing

-----------------------------------------------------------------------------
\* Two calls on an account that only its owner changes are one call.
LEMMA Alone ==
    ASSUME TInv, NEW s \in Thread, NEW t \in Thread, ~At(s, "idle"), ~At(t, "idle"),
           call[s].c.acct = call[t].c.acct, Guarded(call[t].c.acct)
    PROVE  s = t
<1>1. call[s].c \in On(call[t].c.acct) /\ call[t].c \in On(call[t].c.acct)
  BY DEF TInv, Shapes, Shape, At, On
<1>2. Held(call[s].c) /\ Held(call[t].c)
  BY <1>1 DEF Guarded
<1> QED BY <1>2 DEF Held, TInv, Locks

\* What another transaction changes, no call of the owner has in hand.
LEMMA Apart ==
    ASSUME TInv, NEW s \in Thread, NEW t \in Thread, s # t, ~At(s, "idle"), ~At(t, "idle"),
           Touches(call[t].c, call[s].c.acct)
    PROVE  ~Guarded(call[s].c.acct)
<1>1. call[t].c \in Calls
  BY DEF TInv, Shapes, Shape, At
<1>2. CASE call[t].c.op = "uninstall"
  BY <1>1, <1>2 DEF Touches, Guarded
<1>3. CASE call[t].c.op # "uninstall"
  BY <1>3, Alone DEF Touches
<1> QED BY <1>2, <1>3

LEMMA CallOn ==
    ASSUME TInv, NEW s \in Thread, ~At(s, "idle")
    PROVE  /\ call[s].c \in Calls /\ call[s].c.acct \in Account
           /\ call[s].c \in On(call[s].c.acct)
BY CallParts DEF TInv, Shapes, Shape, At, On

\* After says the same of any access to an account of one app.
LEMMA AfterSame ==
    ASSUME NEW a \in Account, NEW c \in On(a), c.op \in AccessOps,
           NEW S \in SUBSET App, NEW T \in SUBSET App,
           \/ Private(a) /\ S = {} /\ T = {}
           \/ \E x \in App : Single(a, x) /\ S \subseteq {x} /\ T \subseteq {x}
    PROVE  After(c, S) = After(c, T)
<1>1. CASE S = {} /\ T = {}
  BY <1>1
<1>2. ASSUME NEW x \in App, Single(a, x), S \subseteq {x}, T \subseteq {x}
      PROVE  After(c, S) = After(c, T)
  <2>1. c.app = x
    BY <1>2 DEF Single
  <2> QED BY <1>2, <2>1 DEF After
<1> QED BY <1>1, <1>2

\* What After makes of the access to such an account is still within it.
LEMMA AfterFew ==
    ASSUME NEW a \in Account, NEW c \in On(a), c.op \in AccessOps,
           NEW S \in SUBSET App
    PROVE  /\ Private(a) /\ S = {} => After(c, S) = {}
           /\ \A x \in App : Single(a, x) /\ S \subseteq {x} => After(c, S) \subseteq {x}
<1>1. Private(a) => c.op = "disable"
  BY DEF Private, AccessOps
<1>2. Private(a) /\ S = {} => After(c, S) = {}
  BY <1>1 DEF After
<1>3. ASSUME NEW x \in App, Single(a, x), S \subseteq {x}
      PROVE  After(c, S) \subseteq {x}
  <2>1. c.app = x
    BY <1>3 DEF Single
  <2> QED BY <1>3, <2>1 DEF After
<1> QED BY <1>2, <1>3

\* An account that a call writes without the access in mind is not one of
\* those that one app is given access to.
LEMMA NotSingle ==
    ASSUME TInv, NEW s \in Thread, call[s].pc \in {"add", "put"}, NEW x
    PROVE  ~Single(call[s].c.acct, x)
<1>1. ~At(s, "idle") /\ call[s].c.op \in {"create", "implicit"} \cup ChangeOps
  BY DEF TInv, Shapes, Shape, At
<1>2. call[s].c \in On(call[s].c.acct)
  BY <1>1, CallOn
<1> QED BY <1>1, <1>2 DEF Single, AccessOps, ChangeOps

\* A call outside its transaction knows what it knew, unless the lists of an
\* account change that only its owner changes.
LEMMA KnowsStill ==
    ASSUME AccessGuarded, TInv, AInv, Few(acl, rec)', NEW s \in Thread,
           call[s].pc \notin InTx, call'[s] = call[s],
           ~At(s, "idle") => \/ Listed(acl', call[s].c.acct) = Listed(acl, call[s].c.acct)
                             \/ ~Guarded(call[s].c.acct)
    PROVE  Knows(call[s])'
<1> DEFINE a == call[s].c.acct
           S == Listed(acl, a)
           T == Listed(acl', a)
<1>1. Knows(call[s])
  BY DEF AInv, Knowing
<1>2. call[s].pc \in {"idle", "add", "put", "start"}
  BY DEF TInv, Shapes, Shape, Places
<1>3. S \in SUBSET App /\ T \in SUBSET App
  BY DEF Listed
<1>4. CASE At(s, "idle")
  BY <1>4 DEF At, Knows
<1>5. CASE ~At(s, "idle") /\ S = T
  BY <1>1, <1>2, <1>5 DEF Knows
<1>6. CASE ~At(s, "idle") /\ ~Guarded(a)
  <2>1. a \in Account /\ call[s].c \in On(a)
    BY <1>6, CallOn
  <2>2. Private(a) \/ \E x \in App : Single(a, x)
    BY <1>6, <2>1 DEF AccessGuarded
  <2>3. /\ Private(a) => S = {} /\ T = {}
        /\ \A x \in App : Single(a, x) => S \subseteq {x} /\ T \subseteq {x}
    BY <2>1 DEF AInv, Few
  <2>4. CASE call[s].pc \in {"add", "put"}
    <3>1. S = {} /\ T = {}
      BY <2>2, <2>3, <2>4, NotSingle
    <3> QED BY <1>5, <1>6, <3>1
  <2>5. CASE call[s].pc = "start"
    <3>1. CASE call[s].c.op \in AccessOps
      <4>1. After(call[s].c, S) = After(call[s].c, T)
        BY <1>3, <2>1, <2>2, <2>3, <3>1, AfterSame
      <4> QED BY <1>1, <2>5, <4>1 DEF Knows
    <3>2. CASE call[s].c.op \notin AccessOps
      BY <2>5, <3>2 DEF Knows
    <3> QED BY <3>1, <3>2
  <2> QED BY <1>2, <1>6, <2>4, <2>5 DEF At
<1> QED BY <1>4, <1>5, <1>6

\* A call that begins under the lock finds that the record and the lists agree,
\* or else one app at most has access.
LEMMA AgreesAtBegin ==
    ASSUME AccessGuarded, TInv, AInv, NEW t \in Thread, NEW c \in Calls, Acquire(t, c)
    PROVE  \/ Listed(acl, c.acct) = Named(rec, c.acct)
           \/ \E x \in App : Single(c.acct, x)
<1> DEFINE a == c.acct
<1>1. a \in Account /\ c \in On(a)
  BY CallParts DEF On
<1>2. CASE Private(a)
  BY <1>1, <1>2 DEF AInv, Few
<1>3. CASE Guarded(a)
  <2>1. c.op \in Locked /\ Caller(c) = Owner[a]
    BY <1>1, <1>3 DEF Guarded, Held
  <2>2. uid[Owner[a]] = None
    BY <2>1 DEF Acquire
  <2>3. ASSUME NEW s \in Thread, Mid(s, a) PROVE FALSE
    <3>1. ~At(s, "idle") /\ call[s].c.acct = a
      BY <2>3 DEF Mid, At, Between
    <3>2. call[s].c \in On(a)
      BY <3>1, CallOn
    <3>3. uid[Owner[a]] = s
      BY <1>3, <3>1, <3>2 DEF Guarded, Held, TInv, Locks
    <3> QED BY <2>2, <3>3, AppAccountConstants
  <2> QED BY <1>1, <2>3 DEF AInv, Settled
<1> QED BY <1>1, <1>2, <1>3 DEF AccessGuarded

\* A step of t outside any transaction that leaves the store alone.
LEMMA OutsideKept ==
    ASSUME TInv, AInv, NEW t \in Thread, Others(t),
           call[t].pc \notin InTx, call'[t].pc \notin InTx,
           rec' = rec, acl' = acl, tx' = tx, Knows(call[t])'
    PROVE  AInv'
<1>1. \A s \in Thread, a \in Account : Mid(s, a)' <=> Mid(s, a)
  BY DEF Mid, Others, InTx, Between
<1>2. Settled'
  BY <1>1 DEF AInv, Settled
<1>3. Image'
  <2>1. tx # None => tx.holder # t /\ tx.holder \in Thread
    BY DEF TInv, Trans, TypeOK, Transaction
  <2> QED BY <2>1 DEF AInv, Image, Others
<1>4. Few(acl, rec)' /\ (tx # None => Few(tx.acl, tx.rec))'
  BY DEF AInv, Few, Listed, Named
<1>5. ASSUME NEW s \in Thread, s # t PROVE Knows(call[s])'
  BY <1>5 DEF AInv, Knowing, Knows, Others
<1> QED BY <1>2, <1>3, <1>4, <1>5 DEF AInv, Knowing

LEMMA AddCheckAccess ==
    ASSUME AccessGuarded, TInv, AInv, NEW t \in Thread, NEW c \in Calls, At(t, "idle"),
           AddCheck(t, c)
    PROVE  AInv'
<1>1. Others(t) /\ call'[t].pc = "add" /\ call'[t].c = c
  BY AddCheckTyped
<1>2. c.op \in {"create", "implicit"} /\ rec[c.acct] = None /\ Acquire(t, c)
      /\ rec' = rec /\ acl' = acl /\ tx' = tx
  BY DEF AddCheck, AccessGuarded
<1>3. \A x : ~Single(c.acct, x)
  BY <1>2 DEF Single, On, AccessOps
<1>4. Listed(acl, c.acct) = {}
  BY <1>2, <1>3, AgreesAtBegin DEF Named
<1>5. Knows(call[t])'
  BY <1>1, <1>2, <1>4 DEF Knows
<1>6. call[t].pc \notin InTx /\ call'[t].pc \notin InTx
  BY <1>1 DEF At, InTx
<1> QED BY <1>1, <1>2, <1>5, <1>6, OutsideKept

LEMMA ChangeLoadAccess ==
    ASSUME AccessGuarded, TInv, AInv, NEW t \in Thread, NEW c \in Calls, At(t, "idle"),
           ChangeLoad(t, c)
    PROVE  AInv'
<1>1. /\ Others(t) /\ call'[t].pc = "put" /\ call'[t].c = c /\ c.op \in ChangeOps
      /\ rec[c.acct] \in Record /\ call'[t].info.apps = rec[c.acct].apps
  BY ChangeLoadTyped
<1>2. rec[c.acct] # None /\ Acquire(t, c) /\ rec' = rec /\ acl' = acl /\ tx' = tx
  BY DEF ChangeLoad
<1>3. \A x : ~Single(c.acct, x)
  BY <1>1 DEF Single, On, AccessOps, ChangeOps
<1>4. Listed(acl, c.acct) = rec[c.acct].apps
  BY <1>2, <1>3, AgreesAtBegin DEF Named
<1>5. Knows(call[t])'
  BY <1>1, <1>2, <1>4 DEF Knows
<1>6. call[t].pc \notin InTx /\ call'[t].pc \notin InTx
  BY <1>1 DEF At, InTx
<1> QED BY <1>1, <1>2, <1>5, <1>6, OutsideKept

LEMMA AccessLoadAccess ==
    ASSUME AccessGuarded, TInv, AInv, NEW t \in Thread, NEW c \in Calls, At(t, "idle"),
           AccessLoad(t, c)
    PROVE  AInv'
<1> DEFINE a == c.acct
<1>1. /\ Others(t) /\ call'[t].pc = "start" /\ call'[t].c = c
      /\ rec[a] \in Record
      /\ c.op \in AccessOps => call'[t].info.apps = After(c, rec[a].apps)
  BY AccessLoadTyped
<1>2. rec[a] # None /\ Acquire(t, c) /\ rec' = rec /\ acl' = acl /\ tx' = tx
  BY DEF AccessLoad
<1>3. a \in Account /\ c \in On(a)
  BY CallParts DEF On
<1>4. c.op \in AccessOps => After(c, rec[a].apps) = After(c, Listed(acl, a))
  <2>1. Named(rec, a) = rec[a].apps /\ rec[a].apps \in SUBSET App /\ Listed(acl, a) \in SUBSET App
    BY <1>1, <1>2 DEF Named, Record, Listed
  <2>2. CASE Listed(acl, a) = Named(rec, a)
    BY <2>1, <2>2
  <2>3. ASSUME NEW x \in App, Single(a, x), c.op \in AccessOps
        PROVE  After(c, rec[a].apps) = After(c, Listed(acl, a))
    <3>1. rec[a].apps \subseteq {x} /\ Listed(acl, a) \subseteq {x}
      BY <1>3, <2>1, <2>3 DEF AInv, Few
    <3> QED BY <1>3, <2>1, <2>3, <3>1, AfterSame
  <2> QED BY <1>2, <2>2, <2>3, AgreesAtBegin
<1>5. Knows(call[t])'
  BY <1>1, <1>2, <1>4 DEF Knows
<1>6. call[t].pc \notin InTx /\ call'[t].pc \notin InTx
  BY <1>1 DEF At, InTx
<1> QED BY <1>1, <1>2, <1>5, <1>6, OutsideKept

LEMMA UninstallBeginAccess ==
    ASSUME TInv, AInv, NEW t \in Thread, NEW c \in Calls, At(t, "idle"), UninstallBegin(t, c)
    PROVE  AInv'
<1>1. Others(t) /\ call'[t].pc = "start" /\ call'[t].c = c
  BY UninstallBeginTyped
<1>2. c.op \notin AccessOps /\ rec' = rec /\ acl' = acl /\ tx' = tx
  BY DEF UninstallBegin, AccessOps
<1>3. Knows(call[t])'
  BY <1>1, <1>2 DEF Knows
<1>4. call[t].pc \notin InTx /\ call'[t].pc \notin InTx
  BY <1>1 DEF At, InTx
<1> QED BY <1>1, <1>2, <1>3, <1>4, OutsideKept

\* A write that names the apps that list the account, outside a transaction.
LEMMA WriteKept ==
    ASSUME AccessGuarded, TInv, TInv', AInv, NEW t \in Thread, Others(t),
           call[t].pc \in {"add", "put"}, call'[t].pc = "idle", acl' = acl, tx' = tx,
           \/ rec' = rec
           \/ rec' = [rec EXCEPT ![call[t].c.acct] = call[t].info]
    PROVE  AInv'
<1> DEFINE a == call[t].c.acct
<1>1. /\ ~At(t, "idle") /\ call[t].pc \notin InTx /\ call'[t].pc \notin InTx
      /\ Knows(call[t])'
  BY DEF At, InTx, Knows
<1>2. CASE rec' = rec
  BY <1>1, <1>2, OutsideKept
<1>3. CASE rec' = [rec EXCEPT ![a] = call[t].info]
  <2>1. call[t].info \in Record /\ a \in Account /\ call[t].info # None
    BY <1>1, CallOn, NoneIsNothing DEF TInv, Shapes, Shape
  <2>2. call[t].info.apps = Listed(acl, a)
    BY <1>1 DEF AInv, Knowing, Knows, TInv, Shapes, Shape
  <2>3. /\ Named(rec', a) = Listed(acl, a) /\ rec'[a] # None
        /\ \A b \in Account \ {a} : rec'[b] = rec[b] /\ Named(rec', b) = Named(rec, b)
    BY <1>3, <2>1, <2>2 DEF Named, TInv, TypeOK
  <2>4. \A s \in Thread, b \in Account : Mid(s, b)' <=> Mid(s, b)
    BY <1>1 DEF Mid, Others, InTx, Between
  <2>5. Settled'
    BY <2>3, <2>4 DEF AInv, Settled
  <2>6. Image'
    <3>1. tx # None => tx.holder # t /\ tx.holder \in Thread
      BY <1>1 DEF TInv, Trans, TypeOK, Transaction
    <3> QED BY <3>1 DEF AInv, Image, Others
  <2>7. Few(acl, rec)'
    <3> SUFFICES ASSUME NEW b \in Account
                 PROVE  /\ Private(b) => Listed(acl, b) = {} /\ Named(rec', b) = {}
                        /\ \A x \in App : Single(b, x) => /\ Listed(acl, b) \subseteq {x}
                                                          /\ Named(rec', b) \subseteq {x}
      BY DEF Few
    <3> QED BY <2>3 DEF AInv, Few
  <2>8. (tx # None => Few(tx.acl, tx.rec))'
    BY DEF AInv
  <2>9. ASSUME NEW s \in Thread, s # t PROVE Knows(call[s])'
    <3>1. call'[s] = call[s]
      BY <2>9 DEF Others
    <3>2. CASE call[s].pc \notin InTx
      BY <2>7, <3>1, <3>2, KnowsStill
    <3>3. CASE call[s].pc \in InTx
      <4> DEFINE b == call[s].c.acct
      <4>1. b \in Account /\ ~At(s, "idle") /\ Knows(call[s])
        BY <3>3, CallOn DEF At, InTx, AInv, Knowing
      <4>2. CASE b # a
        BY <2>3, <3>1, <3>3, <4>1, <4>2 DEF Knows
      <4>3. CASE b = a
        <5>1. Listed(acl, a) = {}
          <6>1. ~Guarded(a)
            BY <1>1, <2>9, <4>1, <4>3, Alone
          <6>2. Private(a)
            BY <2>1, <6>1, NotSingle DEF AccessGuarded
          <6> QED BY <2>1, <6>2 DEF AInv, Few
        <5>2. call[s].pc = "acl" => call[s].info.apps = {}
          <6>1. ASSUME call[s].pc = "acl" PROVE call[s].info.apps = {}
            <7>1. Private(a)
              BY <1>1, <2>1, <2>9, <4>1, <4>3, Alone, NotSingle DEF AccessGuarded
            <7>2. Named(rec, a) = {} /\ Named(rec, a) = call[s].info.apps
              BY <2>1, <4>1, <4>3, <6>1, <7>1 DEF AInv, Few, Knows
            <7> QED BY <7>2
          <6> QED BY <6>1
        <5> QED BY <2>3, <3>1, <3>3, <4>1, <4>3, <5>1, <5>2 DEF Knows
      <4> QED BY <4>2, <4>3
    <3> QED BY <3>2, <3>3
  <2> QED BY <1>1, <2>5, <2>6, <2>7, <2>8, <2>9 DEF AInv, Knowing
<1> QED BY <1>2, <1>3

LEMMA AddPutAccess ==
    ASSUME AccessGuarded, TInv, AInv, NEW t \in Thread, AddPut(t)
    PROVE  AInv'
<1>1. TInv' /\ Others(t) /\ call'[t].pc = "idle" /\ call[t].pc = "add"
  BY AddPutTyped
<1>2. /\ acl' = acl /\ tx' = tx
      /\ rec' = rec \/ rec' = [rec EXCEPT ![call[t].c.acct] = call[t].info]
  BY DEF AddPut
<1> QED BY <1>1, <1>2, WriteKept

LEMMA ChangePutAccess ==
    ASSUME AccessGuarded, TInv, AInv, NEW t \in Thread, ChangePut(t)
    PROVE  AInv'
<1>1. TInv' /\ Others(t) /\ call'[t].pc = "idle" /\ call[t].pc = "put"
  BY ChangePutTyped
<1>2. /\ acl' = acl /\ tx' = tx
      /\ rec' = rec \/ rec' = [rec EXCEPT ![call[t].c.acct] = call[t].info]
  BY DEF ChangePut
<1> QED BY <1>1, <1>2, WriteKept

\* While a call is in its transaction, no other is between its writes.
LEMMA OnlyMid ==
    ASSUME TInv, NEW t \in Thread, call[t].pc \in InTx
    PROVE  /\ \A s \in Thread \ {t} : call[s].pc \notin InTx
           /\ \A s \in Thread \ {t}, b \in Account : ~Mid(s, b)
           /\ tx # None /\ tx.holder = t /\ call[t].c \in Calls
           /\ \A b \in Account : Mid(t, b) => Touches(call[t].c, b)
<1>1. \A s \in Thread \ {t} : call[s].pc \notin InTx
  BY OneInTx
<1>2. \A s \in Thread \ {t}, b \in Account : ~Mid(s, b)
  BY <1>1 DEF Mid, Between, InTx
<1>3. tx # None /\ tx.holder = t
  BY DEF TInv, Trans
<1>4. call[t].c \in Calls
  BY DEF TInv, Shapes, Shape, InTx
<1>5. \A b \in Account : Mid(t, b) => Touches(call[t].c, b)
  BY DEF TInv, Shapes, Shape, Mid, Between, Touches, AccessOps
<1> QED BY <1>1, <1>2, <1>3, <1>4, <1>5

\* A step of t in its transaction.
LEMMA InsideKept ==
    ASSUME AccessGuarded, TInv, TInv', AInv, NEW t \in Thread, Others(t),
           call[t].pc \in InTx, call'[t].pc \in InTx, call'[t].c = call[t].c, tx' = tx,
           Few(acl, rec)', Knows(call[t])',
           \A b \in Account : ~Touches(call[t].c, b) =>
               Listed(acl', b) = Listed(acl, b) /\ Named(rec', b) = Named(rec, b),
           \A b \in Account : Touches(call[t].c, b) /\ ~Mid(t, b)' =>
               Listed(acl', b) = Named(rec', b)
    PROVE  AInv'
<1>1. /\ \A s \in Thread \ {t} : call[s].pc \notin InTx
      /\ \A s \in Thread \ {t}, b \in Account : ~Mid(s, b)
      /\ tx # None /\ tx.holder = t
      /\ \A b \in Account : Mid(t, b) => Touches(call[t].c, b)
  BY OnlyMid
<1>2. Settled'
  <2> SUFFICES ASSUME NEW b \in Account, ~Mid(t, b)'
               PROVE  Listed(acl', b) = Named(rec', b)
    BY DEF Settled
  <2>1. CASE ~Touches(call[t].c, b)
    BY <1>1, <2>1 DEF AInv, Settled
  <2> QED BY <2>1
<1>3. Image'
  BY <1>1 DEF AInv, Image
<1>4. ASSUME NEW s \in Thread, s # t PROVE Knows(call[s])'
  <2>1. call[s].pc \notin InTx /\ call'[s] = call[s] /\ ~At(t, "idle")
    BY <1>1, <1>4 DEF Others, At, InTx
  <2>2. ASSUME ~At(s, "idle")
        PROVE  \/ Listed(acl', call[s].c.acct) = Listed(acl, call[s].c.acct)
               \/ ~Guarded(call[s].c.acct)
    <3>1. call[s].c.acct \in Account
      BY <2>2, CallOn
    <3> QED BY <1>4, <2>1, <2>2, <3>1, Apart
  <2> QED BY <2>1, <2>2, KnowsStill
<1>5. (tx # None => Few(tx.acl, tx.rec))'
  BY DEF AInv
<1> QED BY <1>2, <1>3, <1>4, <1>5 DEF AInv, Knowing

\* A rollback.
LEMMA UndoneAccess ==
    ASSUME AccessGuarded, TInv, TInv', AInv, NEW t \in Thread, Others(t), Undone(t)
    PROVE  AInv'
<1>1. /\ tx # None /\ tx.holder = t
      /\ rec' = tx.rec /\ acl' = tx.acl /\ tx' = None /\ call'[t].pc = "idle"
  BY DEF Undone
<1>2. call[t].pc \in InTx /\ ~At(t, "idle")
  BY <1>1 DEF TInv, Trans, At, InTx
<1>3. \A s \in Thread \ {t} : call[s].pc \notin InTx
  BY <1>2, OnlyMid
<1>4. Settled'
  BY <1>1 DEF AInv, Image, Settled
<1>5. Image' /\ (tx # None => Few(tx.acl, tx.rec))'
  BY <1>1 DEF Image
<1>6. Few(acl, rec)'
  BY <1>1 DEF AInv, Few
<1>7. ASSUME NEW s \in Thread, s # t PROVE Knows(call[s])'
  <2>1. call[s].pc \notin InTx /\ call'[s] = call[s]
    BY <1>3, <1>7 DEF Others
  <2>2. ASSUME ~At(s, "idle")
        PROVE  \/ Listed(acl', call[s].c.acct) = Listed(acl, call[s].c.acct)
               \/ ~Guarded(call[s].c.acct)
    <3>1. call[s].c.acct \in Account
      BY <2>2, CallOn
    <3>2. CASE Touches(call[t].c, call[s].c.acct)
      BY <1>2, <1>7, <2>2, <3>2, Apart
    <3>3. CASE ~Touches(call[t].c, call[s].c.acct)
      BY <1>1, <3>1, <3>3 DEF AInv, Image
    <3> QED BY <3>2, <3>3
  <2> QED BY <1>6, <2>1, <2>2, KnowsStill
<1>8. Knows(call[t])'
  BY <1>1 DEF Knows
<1> QED BY <1>4, <1>5, <1>6, <1>7, <1>8 DEF AInv, Knowing

LEMMA StartAccess ==
    ASSUME AccessGuarded, TInv, AInv, NEW t \in Thread, StartDbTransaction(t)
    PROVE  AInv'
<1>1. TInv' /\ Others(t) /\ tx = None /\ call[t].pc = "start"
  BY StartTyped
<1>2. rec' = rec /\ acl' = acl
  BY DEF StartDbTransaction
<1>3. CASE tx' = None /\ call'[t] = Idle /\ call'[t].pc = "idle"
  <2>1. Knows(call[t])' /\ call[t].pc \notin InTx /\ call'[t].pc \notin InTx
    BY <1>1, <1>3 DEF Knows, InTx
  <2> QED BY <1>1, <1>2, <1>3, <2>1, OutsideKept
<1>4. CASE /\ tx'.holder = t /\ tx'.rec = rec /\ tx'.acl = acl
           /\ tx' # None
           /\ call'[t].pc = (IF call[t].c.op \in {"delete", "uninstall"}
                             THEN call[t].c.op ELSE "save")
           /\ call'[t].c = call[t].c /\ call'[t].info = call[t].info
  <2>1. \A s \in Thread : call[s].pc \notin InTx
    BY <1>1 DEF TInv, Trans
  <2>2. \A s \in Thread, b \in Account : ~Mid(s, b)
    BY <2>1 DEF Mid, Between, InTx
  <2>3. \A b \in Account : Listed(acl, b) = Named(rec, b)
    BY <2>2 DEF AInv, Settled
  <2>4. Settled'
    BY <1>2, <2>3 DEF Settled
  <2>5. Image'
    BY <1>2, <1>4, <2>3 DEF Image
  <2>6. Few(acl, rec)' /\ (tx # None => Few(tx.acl, tx.rec))'
    BY <1>2, <1>4 DEF AInv
  <2>7. ASSUME NEW s \in Thread, s # t PROVE Knows(call[s])'
    BY <1>1, <1>2, <2>7 DEF AInv, Knowing, Knows, Others
  <2>8. Knows(call[t])
    BY DEF AInv, Knowing
  <2>9. call[t].c.op \in AccessOps \cup {"delete", "uninstall"}
    BY <1>1 DEF TInv, Shapes, Shape
  <2>10. Knows(call[t])'
    BY <1>1, <1>2, <1>4, <2>8, <2>9 DEF Knows, AccessOps
  <2> QED BY <2>4, <2>5, <2>6, <2>7, <2>10 DEF AInv, Knowing
<1> QED BY <1>3, <1>4, StartTyped

LEMMA AccessSaveAccess ==
    ASSUME AccessGuarded, TInv, AInv, NEW t \in Thread, AccessSave(t)
    PROVE  AInv'
<1> DEFINE a == call[t].c.acct
<1>1. /\ TInv' /\ Others(t)
      /\ call[t].pc = "save" /\ call[t].c \in Calls /\ call[t].c.op \in AccessOps
      /\ call[t].info \in Record
  BY AccessSaveTyped
<1>2. CASE Undone(t)
  BY <1>1, <1>2, UndoneAccess
<1>3. CASE /\ rec' = [rec EXCEPT ![a] = call[t].info]
           /\ UNCHANGED <<acl, tx, cache, lost, uid>>
           /\ call'[t].pc = "acl" /\ call'[t].c = call[t].c
           /\ call'[t].info = call[t].info
  <2>1. a \in Account /\ call[t].c \in On(a) /\ call[t].info # None
    BY <1>1, CallParts, NoneIsNothing DEF On
  <2>2. /\ Named(rec', a) = call[t].info.apps
        /\ \A b \in Account \ {a} : Named(rec', b) = Named(rec, b)
    BY <1>3, <2>1 DEF Named, TInv, TypeOK
  <2>3. call[t].info.apps = After(call[t].c, Listed(acl, a))
    BY <1>1 DEF AInv, Knowing, Knows
  <2>4. Few(acl, rec)'
    <3> SUFFICES ASSUME NEW b \in Account
                 PROVE  /\ Private(b) => Listed(acl, b) = {} /\ Named(rec', b) = {}
                        /\ \A x \in App : Single(b, x) => /\ Listed(acl, b) \subseteq {x}
                                                          /\ Named(rec', b) \subseteq {x}
      BY <1>3 DEF Few
    <3>1. /\ Private(b) => Listed(acl, b) = {} /\ Named(rec, b) = {}
          /\ \A x \in App : Single(b, x) => /\ Listed(acl, b) \subseteq {x}
                                            /\ Named(rec, b) \subseteq {x}
      BY DEF AInv, Few
    <3>2. CASE b # a
      BY <2>2, <3>1, <3>2
    <3>3. CASE b = a
      <4>1. Listed(acl, a) \in SUBSET App
        BY DEF Listed
      <4> QED BY <1>1, <2>1, <2>2, <2>3, <3>1, <3>3, <4>1, AfterFew
    <3> QED BY <3>2, <3>3
  <2>5. Knows(call[t])'
    BY <1>3, <2>2, <2>3 DEF Knows
  <2>6. \A b \in Account : Touches(call[t].c, b) => Mid(t, b)'
    BY <1>1, <1>3 DEF Touches, Mid, Between, AccessOps
  <2>7. \A b \in Account : ~Touches(call[t].c, b) =>
               Listed(acl', b) = Listed(acl, b) /\ Named(rec', b) = Named(rec, b)
    BY <1>1, <1>3, <2>2 DEF Touches, AccessOps
  <2>8. call[t].pc \in InTx /\ call'[t].pc \in InTx
    BY <1>1, <1>3 DEF InTx
  <2> QED BY <1>1, <1>3, <2>4, <2>5, <2>6, <2>7, <2>8, InsideKept
<1> QED BY <1>2, <1>3, AccessSaveTyped

LEMMA AccessAuthorizeAccess ==
    ASSUME AccessGuarded, TInv, AInv, NEW t \in Thread, AccessAuthorize(t)
    PROVE  AInv'
<1> DEFINE c == call[t].c
           a == c.acct
<1>1. /\ TInv' /\ Others(t)
      /\ call[t].pc = "acl" /\ c \in Calls /\ c.op \in AccessOps
  BY AccessAuthorizeTyped
<1>2. CASE Undone(t)
  BY <1>1, <1>2, UndoneAccess
<1>3. CASE /\ acl' = [acl EXCEPT ![c.app] = IF c.op = "enable" THEN @ \cup {a} ELSE @ \ {a}]
           /\ UNCHANGED <<rec, tx, cache, lost, uid>>
           /\ call'[t].pc = "commit" /\ call'[t].c = c
  <2>1. a \in Account /\ c \in On(a) /\ c.app \in App
    BY <1>1, CallParts DEF On
  <2>2. \A x \in App : acl'[x] = IF x # c.app THEN acl[x]
                                 ELSE IF c.op = "enable" THEN acl[x] \cup {a} ELSE acl[x] \ {a}
    BY <1>3, <2>1 DEF TInv, TypeOK
  <2>3. Listed(acl', a) = After(c, Listed(acl, a))
    BY <2>1, <2>2 DEF Listed, After
  <2>4. \A b \in Account \ {a} : Listed(acl', b) = Listed(acl, b)
    BY <2>2 DEF Listed
  <2>5. Named(rec, a) = After(c, Listed(acl, a))
    BY <1>1 DEF AInv, Knowing, Knows
  <2>6. Few(acl, rec)'
    <3> SUFFICES ASSUME NEW b \in Account
                 PROVE  /\ Private(b) => Listed(acl', b) = {} /\ Named(rec, b) = {}
                        /\ \A x \in App : Single(b, x) => /\ Listed(acl', b) \subseteq {x}
                                                          /\ Named(rec, b) \subseteq {x}
      BY <1>3 DEF Few
    <3>1. /\ Private(b) => Listed(acl, b) = {} /\ Named(rec, b) = {}
          /\ \A x \in App : Single(b, x) => /\ Listed(acl, b) \subseteq {x}
                                            /\ Named(rec, b) \subseteq {x}
      BY DEF AInv, Few
    <3>2. CASE b # a
      BY <2>4, <3>1, <3>2
    <3>3. CASE b = a
      BY <2>3, <2>5, <3>1, <3>3
    <3> QED BY <3>2, <3>3
  <2>7. Knows(call[t])'
    BY <1>3 DEF Knows
  <2>8. \A b \in Account : ~Touches(c, b) =>
               Listed(acl', b) = Listed(acl, b) /\ Named(rec', b) = Named(rec, b)
    BY <1>1, <1>3, <2>4 DEF Touches, AccessOps
  <2>9. \A b \in Account : Touches(c, b) => Listed(acl', b) = Named(rec', b)
    BY <1>1, <1>3, <2>3, <2>5 DEF Touches, AccessOps
  <2>10. call[t].pc \in InTx /\ call'[t].pc \in InTx
    BY <1>1, <1>3 DEF InTx
  <2> HIDE DEF c
  <2> QED BY <1>1, <1>3, <2>6, <2>7, <2>8, <2>9, <2>10, InsideKept DEF c
<1> QED BY <1>2, <1>3, AccessAuthorizeTyped, ReadWell

LEMMA DeleteRecordAccess ==
    ASSUME AccessGuarded, TInv, AInv, NEW t \in Thread, DeleteRecord(t)
    PROVE  AInv'
<1> DEFINE a == call[t].c.acct
<1>1. /\ TInv' /\ Others(t)
      /\ call[t].pc = "delete" /\ call[t].c \in Calls /\ call[t].c.op = "delete"
  BY DeleteRecordTyped
<1>2. CASE Undone(t)
  BY <1>1, <1>2, UndoneAccess
<1>3. CASE /\ rec[a] \in Record
           /\ rec' = [rec EXCEPT ![a] = None]
           /\ UNCHANGED <<acl, tx, cache, lost, uid>>
           /\ call'[t].pc = "uncache" /\ call'[t].c = call[t].c
           /\ call'[t].todo = rec[a].apps
  <2>1. a \in Account /\ rec[a] # None
    BY <1>1, <1>3, CallParts, NoneIsNothing
  <2>2. /\ Named(rec', a) = {} /\ rec'[a] = None
        /\ \A b \in Account \ {a} : Named(rec', b) = Named(rec, b)
    BY <1>3, <2>1 DEF Named, TInv, TypeOK
  <2>3. call[t].pc \in InTx /\ call'[t].pc \in InTx
    BY <1>1, <1>3 DEF InTx
  <2>4. \A s \in Thread : ~Mid(s, a)
    BY <1>1, <2>1, <2>3, OnlyMid DEF Mid, Between
  <2>5. Listed(acl, a) = rec[a].apps
    BY <2>1, <2>4 DEF AInv, Settled, Named
  <2>6. Few(acl, rec)'
    BY <1>3, <2>2 DEF AInv, Few
  <2>7. Knows(call[t])'
    BY <1>3, <2>2, <2>5 DEF Knows
  <2>8. \A b \in Account : Touches(call[t].c, b) => Mid(t, b)'
    BY <1>1, <1>3 DEF Touches, Mid, Between
  <2>9. \A b \in Account : ~Touches(call[t].c, b) =>
               Listed(acl', b) = Listed(acl, b) /\ Named(rec', b) = Named(rec, b)
    BY <1>1, <1>3, <2>2 DEF Touches
  <2> QED BY <1>1, <1>3, <2>3, <2>6, <2>7, <2>8, <2>9, InsideKept
<1> QED BY <1>2, <1>3, DeleteRecordTyped

LEMMA DeleteCacheAccess ==
    ASSUME AccessGuarded, TInv, AInv, NEW t \in Thread, DeleteCache(t)
    PROVE  AInv'
<1> DEFINE a == call[t].c.acct
<1>1. /\ TInv' /\ Others(t)
      /\ call[t].pc = "uncache" /\ call[t].c \in Calls /\ call[t].c.op = "delete"
      /\ call'[t].pc = (IF call[t].todo = {} THEN "commit" ELSE "unauthorize")
      /\ call'[t].c = call[t].c /\ call'[t].todo = call[t].todo
  BY DeleteCacheTyped
<1>2. rec' = rec /\ acl' = acl /\ tx' = tx
  BY DEF DeleteCache
<1>3. call[t].pc \in InTx /\ call'[t].pc \in InTx
  BY <1>1 DEF InTx
<1>4. Knows(call[t])
  BY DEF AInv, Knowing
<1>5. Knows(call[t])'
  BY <1>1, <1>2, <1>4 DEF Knows
<1>6. Few(acl, rec)'
  BY <1>2 DEF AInv, Few
<1>7. call[t].todo = {} => Listed(acl, a) = Named(rec, a)
  BY <1>1, <1>4 DEF Knows
<1>8. \A b \in Account : Touches(call[t].c, b) /\ ~Mid(t, b)' => Listed(acl', b) = Named(rec', b)
  BY <1>1, <1>2, <1>7 DEF Touches, Mid, Between
<1> QED BY <1>1, <1>2, <1>3, <1>5, <1>6, <1>8, InsideKept

LEMMA DeleteAuthorizedAccess ==
    ASSUME AccessGuarded, TInv, AInv, NEW t \in Thread, DeleteAuthorized(t)
    PROVE  AInv'
<1> DEFINE a == call[t].c.acct
<1>1. /\ TInv' /\ Others(t)
      /\ call[t].pc = "unauthorize" /\ call[t].c \in Calls /\ call[t].c.op = "delete"
  BY DeleteAuthorizedTyped
<1>2. CASE Undone(t)
  BY <1>1, <1>2, UndoneAccess
<1>3. ASSUME NEW x \in call[t].todo, x \in App,
             acl' = [acl EXCEPT ![x] = @ \ {a}],
             UNCHANGED <<rec, tx, cache, lost, uid>>,
             call'[t].pc = (IF call[t].todo = {x} THEN "commit" ELSE "unauthorize"),
             call'[t].c = call[t].c,
             call'[t].todo = call[t].todo \ {x}
      PROVE  AInv'
  <2>1. a \in Account
    BY <1>1, CallParts
  <2>2. \A y \in App : acl'[y] = IF y = x THEN acl[y] \ {a} ELSE acl[y]
    BY <1>3 DEF TInv, TypeOK
  <2>3. Listed(acl', a) = Listed(acl, a) \ {x}
    BY <2>2 DEF Listed
  <2>4. \A b \in Account \ {a} : Listed(acl', b) = Listed(acl, b)
    BY <2>2 DEF Listed
  <2>5. Listed(acl, a) = call[t].todo /\ rec[a] = None /\ Named(rec, a) = {}
    <3>1. Knows(call[t])
      BY DEF AInv, Knowing
    <3> QED BY <1>1, <1>3, <3>1 DEF Knows
  <2>6. call[t].pc \in InTx /\ call'[t].pc \in InTx
    BY <1>1, <1>3 DEF InTx
  <2>7. Few(acl, rec)'
    <3> SUFFICES ASSUME NEW b \in Account
                 PROVE  /\ Private(b) => Listed(acl', b) = {} /\ Named(rec, b) = {}
                        /\ \A y \in App : Single(b, y) => /\ Listed(acl', b) \subseteq {y}
                                                          /\ Named(rec, b) \subseteq {y}
      BY <1>3 DEF Few
    <3>1. /\ Private(b) => Listed(acl, b) = {} /\ Named(rec, b) = {}
          /\ \A y \in App : Single(b, y) => /\ Listed(acl, b) \subseteq {y}
                                            /\ Named(rec, b) \subseteq {y}
      BY DEF AInv, Few
    <3>2. Listed(acl', b) \subseteq Listed(acl, b)
      BY <2>3, <2>4
    <3> QED BY <3>1, <3>2
  <2>8. Knows(call[t])'
    BY <1>3, <2>3, <2>5 DEF Knows
  <2>9. \A b \in Account : ~Touches(call[t].c, b) =>
               Listed(acl', b) = Listed(acl, b) /\ Named(rec', b) = Named(rec, b)
    BY <1>1, <1>3, <2>4 DEF Touches
  <2>10. call[t].todo = {x} => Listed(acl', a) = {}
    BY <2>3, <2>5
  <2>11. \A b \in Account : Touches(call[t].c, b) /\ ~Mid(t, b)' => Listed(acl', b) = Named(rec', b)
    BY <1>1, <1>3, <2>5, <2>10 DEF Touches, Mid, Between
  <2> QED BY <1>1, <1>3, <2>6, <2>7, <2>8, <2>9, <2>11, InsideKept
<1> QED BY <1>2, <1>3, DeleteAuthorizedTyped, ReadWell

LEMMA UninstallLoadAccess ==
    ASSUME AccessGuarded, TInv, AInv, NEW t \in Thread, UninstallLoad(t)
    PROVE  AInv'
<1> DEFINE mine == Of(Owner[call[t].c.acct])
<1>1. /\ TInv' /\ Others(t)
      /\ call[t].pc = "uninstall" /\ call[t].c \in Calls /\ call[t].c.op = "uninstall"
  BY UninstallLoadTyped
<1>2. CASE Undone(t)
  BY <1>1, <1>2, UndoneAccess
<1>3. CASE /\ UNCHANGED <<rec, acl, tx, cache, lost, uid>>
           /\ call'[t].pc \in {"commit", "sweep"} /\ call'[t].c = call[t].c
           /\ call'[t].todo = mine
           /\ call'[t].info = [a \in mine |-> rec[a].apps]
  <2>1. call[t].pc \in InTx /\ call'[t].pc \in InTx
    BY <1>1, <1>3 DEF InTx
  <2>2. \A s \in Thread, b \in Account : ~Mid(s, b)
    BY <1>1, <2>1, OnlyMid DEF Mid, Between
  <2>3. \A b \in Account : Listed(acl, b) = Named(rec, b)
    BY <2>2 DEF AInv, Settled
  <2>4. \A b \in mine : call'[t].info[b] = Listed(acl, b)
    <3>1. \A b \in mine : b \in Account /\ rec[b] # None
      BY DEF Of
    <3> HIDE DEF mine
    <3> QED BY <1>3, <2>3, <3>1 DEF Named
  <2>5. Knows(call[t])'
    BY <1>3, <2>4 DEF Knows
  <2>6. Few(acl, rec)'
    BY <1>3 DEF AInv, Few
  <2> QED BY <1>1, <1>3, <2>1, <2>3, <2>5, <2>6, InsideKept
<1> QED BY <1>2, <1>3, UninstallLoadTyped

LEMMA UninstallSweepAccess ==
    ASSUME AccessGuarded, TInv, AInv, NEW t \in Thread, UninstallSweep(t)
    PROVE  AInv'
<1>1. /\ TInv' /\ Others(t)
      /\ call[t].pc = "sweep" /\ call[t].c \in Calls /\ call[t].c.op = "uninstall"
      /\ UNCHANGED <<tx, uid>>
  BY UninstallSweepTyped
<1>2. Outcome("sweep") = {TRUE}
  BY DEF Outcome, AccessGuarded
<1>3. PICK a \in call[t].todo, unlisted \in Outcome("sweep"), deleted \in Outcome("sweep"),
           lists \in ReadLists :
                 /\ a \in Account /\ Owner[a] = Owner[call[t].c.acct]
                 /\ acl' = [x \in App |-> IF ~unlisted \/ call[t].info[a] = {} THEN acl[x]
                                          ELSE IF x \in call[t].info[a] THEN lists[x] \ {a}
                                          ELSE lists[x]]
                 /\ rec' = IF deleted THEN [rec EXCEPT ![a] = None] ELSE rec
                 /\ SetCache(cache, IF deleted THEN {a} ELSE {})
                 /\ call'[t].pc \in {"commit", "sweep"} /\ call'[t].c = call[t].c
                 /\ call'[t].info = call[t].info
                 /\ call'[t].todo = call[t].todo \ {a}
  BY UninstallSweepTyped
<1>4. /\ acl' = [x \in App |-> IF x \in call[t].info[a] THEN acl[x] \ {a} ELSE acl[x]]
      /\ rec' = [rec EXCEPT ![a] = None]
  <2>1. unlisted = TRUE /\ deleted = TRUE /\ lists = acl
    BY <1>2, ReadWell
  <2>2. call[t].info[a] = {} => \A x \in App : x \notin call[t].info[a]
    OBVIOUS
  <2> QED BY <1>3, <2>1, <2>2
<1>5. call[t].pc \in InTx /\ call'[t].pc \in InTx
  BY <1>1, <1>3 DEF InTx
<1>6. \A b \in call[t].todo : call[t].info[b] = Listed(acl, b)
  BY <1>1 DEF AInv, Knowing, Knows
<1>7. Listed(acl', a) = {}
  BY <1>4, <1>6 DEF Listed
<1>8. \A b \in Account \ {a} : Listed(acl', b) = Listed(acl, b)
  BY <1>4 DEF Listed
<1>9. /\ Named(rec', a) = {}
      /\ \A b \in Account \ {a} : Named(rec', b) = Named(rec, b)
  BY <1>3, <1>4 DEF Named, TInv, TypeOK
<1>10. \A s \in Thread, b \in Account : ~Mid(s, b)
  BY <1>1, <1>5, OnlyMid DEF Mid, Between
<1>11. \A b \in Account : Listed(acl', b) = Named(rec', b)
  <2>1. \A b \in Account : Listed(acl, b) = Named(rec, b)
    BY <1>10 DEF AInv, Settled
  <2> QED BY <1>7, <1>8, <1>9, <2>1
<1>12. Few(acl, rec)'
  <2> SUFFICES ASSUME NEW b \in Account
               PROVE  /\ Private(b) => Listed(acl', b) = {} /\ Named(rec', b) = {}
                      /\ \A y \in App : Single(b, y) => /\ Listed(acl', b) \subseteq {y}
                                                        /\ Named(rec', b) \subseteq {y}
    BY DEF Few
  <2> QED BY <1>7, <1>8, <1>9 DEF AInv, Few
<1>13. \A b \in call[t].todo : b \in Account
  BY <1>1 DEF TInv, Shapes, Shape
<1>14. Knows(call[t])'
  BY <1>3, <1>6, <1>8, <1>13 DEF Knows
<1>15. \A b \in Account : ~Touches(call[t].c, b) =>
             Listed(acl', b) = Listed(acl, b) /\ Named(rec', b) = Named(rec, b)
  BY <1>1, <1>3, <1>8, <1>9 DEF Touches
<1> QED BY <1>1, <1>3, <1>5, <1>11, <1>12, <1>14, <1>15, InsideKept

LEMMA CommitAccess ==
    ASSUME AccessGuarded, TInv, AInv, NEW t \in Thread, CommitDbTransaction(t)
    PROVE  AInv'
<1>1. TInv' /\ Others(t) /\ call[t].pc = "commit"
  BY CommitTyped
<1>2. CASE Undone(t)
  BY <1>1, <1>2, UndoneAccess
<1>3. CASE /\ tx # None /\ tx.holder = t /\ tx' = None
           /\ UNCHANGED <<rec, acl, cache, lost>>
           /\ call'[t] = Idle /\ call'[t].pc = "idle"
  <2>1. call[t].pc \in InTx
    BY <1>1 DEF InTx
  <2>2. \A s \in Thread, b \in Account : ~Mid(s, b)
    BY <1>1, <2>1, OnlyMid DEF Mid, Between
  <2>3. Settled'
    BY <1>3, <2>2 DEF AInv, Settled
  <2>4. Few(acl, rec)' /\ Image' /\ (tx # None => Few(tx.acl, tx.rec))'
    BY <1>3 DEF AInv, Few, Image
  <2>5. ASSUME NEW s \in Thread, s # t PROVE Knows(call[s])'
    BY <1>1, <1>3, <2>5 DEF AInv, Knowing, Knows, Others
  <2>6. Knows(call[t])'
    BY <1>3 DEF Knows
  <2> QED BY <2>3, <2>4, <2>5, <2>6 DEF AInv, Knowing
<1> QED BY <1>2, <1>3, CommitTyped

LEMMA CrashAccess ==
    ASSUME TInv, AInv, Crash
    PROVE  AInv'
<1>1. /\ \A t \in Thread : call'[t] = Idle /\ call'[t].pc = "idle"
      /\ tx' = None
      /\ IF tx = None THEN rec' = rec /\ acl' = acl
                      ELSE rec' = tx.rec /\ acl' = tx.acl
  BY CrashTyped
<1>2. Knowing'
  BY <1>1 DEF Knowing, Knows
<1>3. Image' /\ (tx # None => Few(tx.acl, tx.rec))'
  BY <1>1 DEF Image
<1>4. CASE tx # None
  BY <1>1, <1>2, <1>3, <1>4 DEF AInv, Image, Settled, Few
<1>5. CASE tx = None
  <2>1. \A s \in Thread : call[s].pc \notin InTx
    BY <1>5 DEF TInv, Trans
  <2>2. \A s \in Thread, b \in Account : ~Mid(s, b)
    BY <2>1 DEF Mid, Between, InTx
  <2> QED BY <1>1, <1>2, <1>3, <1>5, <2>2 DEF AInv, Settled, Few
<1> QED BY <1>4, <1>5

LEMMA FetchAccess ==
    ASSUME AInv, UNCHANGED <<rec, acl, tx, call>>
    PROVE  AInv'
<1>1. Settled'
  BY DEF AInv, Settled, Mid
<1>2. Image'
  BY DEF AInv, Image
<1>3. Few(acl, rec)' /\ (tx # None => Few(tx.acl, tx.rec))'
  BY DEF AInv, Few
<1>4. Knowing'
  BY DEF AInv, Knowing, Knows
<1> QED BY <1>1, <1>2, <1>3, <1>4 DEF AInv

LEMMA InitAccess == Init => AInv
<1> SUFFICES ASSUME Init PROVE AInv
  OBVIOUS
<1>1. /\ \A x \in App : acl[x] = {} /\ tx = None
      /\ \A t \in Thread : call[t] = Idle /\ call[t].pc = "idle"
  BY DEF Init, Idle
<1>2. \A a \in Account : Listed(acl, a) = {}
  BY <1>1 DEF Listed
<1>3. \A a \in Account : Named(rec, a) = {}
  BY DEF Init, Named, Fresh
<1>4. Settled /\ Few(acl, rec) /\ Knowing
  BY <1>1, <1>2, <1>3 DEF Settled, Few, Knowing, Knows
<1>5. tx = None
  BY DEF Init
<1> QED BY <1>4, <1>5 DEF AInv, Image

LEMMA NextAccess ==
    ASSUME AccessGuarded, TInv, AInv, [Next]_vars
    PROVE  AInv'
<1>1. ASSUME NEW t \in Thread, Begin(t) PROVE AInv'
  <2>1. PICK c \in Calls :
            /\ At(t, "idle")
            /\ \/ AddCheck(t, c) \/ GetAssociatedData(t, c) \/ ChangeLoad(t, c)
               \/ AccessLoad(t, c) \/ UninstallBegin(t, c)
    BY <1>1 DEF Begin
  <2>2. CASE GetAssociatedData(t, c)
    BY <2>2, FetchAccess DEF GetAssociatedData
  <2> QED BY <2>1, <2>2, AddCheckAccess, ChangeLoadAccess, AccessLoadAccess, UninstallBeginAccess
<1>2. ASSUME NEW t \in Thread, Step(t) PROVE AInv'
  BY <1>2, AddPutAccess, ChangePutAccess, StartAccess, AccessSaveAccess, AccessAuthorizeAccess,
     DeleteRecordAccess, DeleteCacheAccess, DeleteAuthorizedAccess, UninstallLoadAccess,
     UninstallSweepAccess, CommitAccess DEF Step
<1>3. CASE Crash
  BY <1>3, CrashAccess
<1>4. CASE UNCHANGED vars
  BY <1>4, FetchAccess DEF vars
<1> QED BY <1>1, <1>2, <1>3, <1>4 DEF Next

\* Outside a transaction there is nobody between its writes.
LEMMA AccessFollows == TInv /\ AInv => AccessAgrees
<1> SUFFICES ASSUME TInv, AInv, tx = None, NEW a \in Account, NEW x \in App
             PROVE  a \in acl[x] <=> rec[a] # None /\ x \in rec[a].apps
  BY DEF AccessAgrees
<1>1. \A s \in Thread : call[s].pc \notin InTx
  BY DEF TInv, Trans
<1>2. \A s \in Thread : ~Mid(s, a)
  BY <1>1 DEF Mid, Between, InTx
<1>3. Listed(acl, a) = Named(rec, a)
  BY <1>2 DEF AInv, Settled
<1> QED BY <1>3 DEF Listed, Named

\* The lists of authorized accounts and the records agree whenever no
\* transaction is open, for any number of threads, apps and accounts, any
\* crashes and any fault but the errors that the code ignores (AccessGuarded): a
\* list or a record that cannot be read, and the sweep over the accounts of a
\* removed package.  Every account is private, or only its owner's calls with
\* the AppAccountLock change it, or one app at most is given access to it.
THEOREM AccessKept == AccessGuarded => (Spec => []AccessAgrees)
<1> SUFFICES ASSUME AccessGuarded PROVE Spec => []AccessAgrees
  OBVIOUS
<1>1. Init => TInv /\ AInv
  BY InitTyped, InitAccess
<1>2. TInv /\ AInv /\ [Next]_vars => TInv' /\ AInv'
  BY NextTyped, NextAccess
<1> QED BY <1>1, <1>2, AccessFollows, PTL DEF Spec

-----------------------------------------------------------------------------
\* The item that GetAssociatedData uses for a; whether the record has its data.
Valid(a) == Cached(cache, a) /\ a \notin lost
Good(a) == rec[a] # None /\ rec[a].data = cache[Owner[a]].data

Uncaching(t, a) == call[t].pc = "uncache" /\ call[t].c.acct = a

Items ==
    \A x \in App : cache[x] # None => /\ Owner[cache[x].acct] = x
                                      /\ Watched(cache[x].acct)

\* A valid item is in the record, or about to be removed with it.
Right ==
    \A a \in Account : Valid(a) => Good(a) \/ \E t \in Thread : Uncaching(t, a)

\* What a call knows of the item of its account.
Carries(w) ==
    /\ w.pc = "add" => ~Valid(w.c.acct)
    /\ /\ w.pc \in {"put", "start", "save"}
       /\ w.c.op \notin {"setdata", "delete", "uninstall"}
       /\ Valid(w.c.acct)
       => w.info.data = cache[Owner[w.c.acct]].data
    /\ w.pc = "unauthorize" => ~Valid(w.c.acct)
    /\ w.pc = "commit" /\ w.c.op = "delete" => ~Valid(w.c.acct)

CInv == Items /\ Right /\ \A t \in Thread : Carries(call[t])

-----------------------------------------------------------------------------
LEMMA ValidWatched ==
    ASSUME TInv, Items, NEW a \in Account, Valid(a)
    PROVE  Watched(a)
<1>1. Owner[a] \in App
  BY AppAccountConstants
<1> QED BY <1>1 DEF Valid, Cached, Items

\* A call on such an account holds the lock.
LEMMA WatchedHeld ==
    ASSUME CacheGuarded, TInv, NEW s \in Thread, ~At(s, "idle"), call[s].c.op # "uninstall",
           Watched(call[s].c.acct)
    PROVE  uid[Owner[call[s].c.acct]] = s
<1>1. call[s].c \in Calls /\ call[s].c.acct \in Account /\ call[s].c \in On(call[s].c.acct)
  BY CallOn
<1>2. Held(call[s].c)
  BY <1>1 DEF CacheGuarded
<1> QED BY <1>2 DEF Held, TInv, Locks

\* A call that begins under the lock finds the data of a valid item in the
\* record.
LEMMA GoodAtBegin ==
    ASSUME CacheGuarded, TInv, CInv, NEW t \in Thread, NEW c \in Calls, Acquire(t, c),
           c.op # "uninstall", Valid(c.acct)
    PROVE  Good(c.acct)
<1> DEFINE a == c.acct
<1>1. a \in Account /\ c \in On(a)
  BY CallParts DEF On
<1>2. Watched(a)
  BY <1>1, ValidWatched DEF CInv
<1>3. uid[Owner[a]] = None
  BY <1>1, <1>2 DEF CacheGuarded, Held, Acquire
<1>4. ASSUME NEW s \in Thread, Uncaching(s, a) PROVE FALSE
  <2>1. ~At(s, "idle") /\ call[s].c.op # "uninstall" /\ call[s].c.acct = a
    BY <1>4 DEF Uncaching, At, TInv, Shapes, Shape
  <2>2. uid[Owner[a]] = s
    BY <1>2, <2>1, WatchedHeld
  <2> QED BY <1>3, <2>2, AppAccountConstants
<1> QED BY <1>1, <1>4 DEF CInv, Right

\* Nothing is valid after SetCache that was not before.
LEMMA Shrunk ==
    ASSUME TInv, Items, NEW k \in [App -> Item \cup {None}], NEW S \in SUBSET Account,
           SetCache(k, S), \A y \in App : k[y] = None \/ k[y] = cache[y]
    PROVE  /\ Items'
           /\ \A b \in Account : Valid(b)' => /\ Valid(b) /\ b \notin S
                                              /\ cache'[Owner[b]] = cache[Owner[b]]
<1>1. cache' = k /\ lost' = {a \in lost \cup S : Cached(k, a)}
  BY DEF SetCache
<1>2. Items'
  BY <1>1 DEF Items
<1>3. ASSUME NEW b \in Account, Valid(b)'
      PROVE  Valid(b) /\ b \notin S /\ cache'[Owner[b]] = cache[Owner[b]]
  <2>1. Cached(k, b) /\ b \notin lost \cup S
    BY <1>1, <1>3 DEF Valid, Cached
  <2>2. Owner[b] \in App
    BY AppAccountConstants
  <2>3. k[Owner[b]] = cache[Owner[b]]
    BY <2>1, <2>2 DEF Cached
  <2> QED BY <1>1, <2>1, <2>3 DEF Valid, Cached
<1> QED BY <1>2, <1>3

\* A step of t after which no more is valid than before.
LEMMA CacheKept ==
    ASSUME TInv, CInv, NEW t \in Thread, Others(t), Items', Carries(call[t])',
           \A b \in Account : Valid(b)' => Valid(b) /\ cache'[Owner[b]] = cache[Owner[b]],
           \A b \in Account : Valid(b)' =>
               \/ rec'[b] = rec[b]
               \/ rec'[b] # None /\ rec'[b].data = cache[Owner[b]].data
               \/ Uncaching(t, b)',
           \A b \in Account : Uncaching(t, b) => ~Valid(b)'
    PROVE  CInv'
<1>1. ASSUME NEW b \in Account, Valid(b)'
      PROVE  Good(b)' \/ \E s \in Thread : Uncaching(s, b)'
  <2>1. Valid(b) /\ cache'[Owner[b]] = cache[Owner[b]]
    BY <1>1
  <2>2. CASE Good(b)
    BY <1>1, <2>1, <2>2 DEF Good
  <2>3. ASSUME NEW s \in Thread, Uncaching(s, b)
        PROVE  Uncaching(s, b)'
    <3>1. s # t
      BY <1>1, <2>3
    <3> QED BY <2>3, <3>1 DEF Others, Uncaching
  <2> QED BY <2>1, <2>2, <2>3 DEF CInv, Right
<1>2. ASSUME NEW s \in Thread, s # t PROVE Carries(call[s])'
  <2>1. call'[s] = call[s] /\ Carries(call[s])
    BY <1>2 DEF Others, CInv
  <2>2. CASE call[s].pc = "idle"
    BY <2>1, <2>2 DEF Carries
  <2>3. CASE call[s].pc # "idle"
    <3>1. call[s].c.acct \in Account
      BY <2>3, CallOn DEF At
    <3> QED BY <2>1, <3>1 DEF Carries
  <2> QED BY <2>2, <2>3
<1> QED BY <1>1, <1>2 DEF CInv, Right

\* One that leaves the cache alone.
LEMMA SameCache ==
    ASSUME CInv, UNCHANGED <<cache, lost>>
    PROVE  /\ Items'
           /\ \A b \in Account : /\ Valid(b)' <=> Valid(b)
                                 /\ cache'[Owner[b]] = cache[Owner[b]]
BY DEF CInv, Items, Valid

LEMMA AddCheckCache ==
    ASSUME CacheGuarded, TInv, CInv, NEW t \in Thread, NEW c \in Calls, At(t, "idle"),
           AddCheck(t, c)
    PROVE  CInv'
<1>1. Others(t) /\ call'[t].pc = "add" /\ call'[t].c = c
  BY AddCheckTyped
<1>2. /\ c.op # "uninstall" /\ rec[c.acct] = None /\ Acquire(t, c)
      /\ rec' = rec /\ UNCHANGED <<cache, lost>>
  BY DEF AddCheck, CacheGuarded
<1>3. c.acct \in Account
  BY CallParts
<1>4. ~Valid(c.acct)
  BY <1>2, GoodAtBegin DEF Good
<1>5. Carries(call[t])'
  BY <1>1, <1>2, <1>3, <1>4, SameCache DEF Carries
<1>6. \A b \in Account : ~Uncaching(t, b)
  BY DEF Uncaching, At
<1> QED BY <1>1, <1>2, <1>5, <1>6, CacheKept, SameCache

LEMMA AddPutCache ==
    ASSUME TInv, CInv, NEW t \in Thread, AddPut(t)
    PROVE  CInv'
<1> DEFINE a == call[t].c.acct
<1>1. Others(t) /\ call'[t].pc = "idle" /\ call[t].pc = "add" /\ call[t].c \in Calls
  BY AddPutTyped
<1>2. /\ UNCHANGED <<cache, lost>>
      /\ rec' = rec \/ rec' = [rec EXCEPT ![a] = call[t].info]
  BY DEF AddPut
<1>3. ~Valid(a) /\ a \in Account
  BY <1>1, CallParts DEF CInv, Carries
<1>4. Carries(call[t])'
  BY <1>1 DEF Carries
<1>5. \A b \in Account : ~Uncaching(t, b)
  BY <1>1 DEF Uncaching
<1>6. \A b \in Account \ {a} : rec'[b] = rec[b]
  BY <1>2 DEF TInv, TypeOK
<1>7. \A b \in Account : Valid(b)' => rec'[b] = rec[b]
  BY <1>2, <1>3, <1>6, SameCache
<1> QED BY <1>1, <1>2, <1>4, <1>5, <1>7, CacheKept, SameCache

LEMMA ChangeLoadCache ==
    ASSUME CacheGuarded, TInv, CInv, NEW t \in Thread, NEW c \in Calls, At(t, "idle"),
           ChangeLoad(t, c)
    PROVE  CInv'
<1>1. /\ Others(t) /\ call'[t].pc = "put" /\ call'[t].c = c /\ c.op \in ChangeOps
      /\ c.op # "setdata" => call'[t].info.data = rec[c.acct].data
  BY ChangeLoadTyped
<1>2. c.op # "uninstall" /\ Acquire(t, c) /\ rec' = rec /\ UNCHANGED <<cache, lost>>
  BY <1>1 DEF ChangeLoad, ChangeOps
<1>3. c.acct \in Account
  BY CallParts
<1>4. Valid(c.acct) => rec[c.acct].data = cache[Owner[c.acct]].data
  BY <1>2, GoodAtBegin DEF Good
<1>5. Carries(call[t])'
  BY <1>1, <1>2, <1>3, <1>4, SameCache DEF Carries
<1>6. \A b \in Account : ~Uncaching(t, b)
  BY DEF Uncaching, At
<1> QED BY <1>1, <1>2, <1>5, <1>6, CacheKept, SameCache

LEMMA AccessLoadCache ==
    ASSUME CacheGuarded, TInv, CInv, NEW t \in Thread, NEW c \in Calls, At(t, "idle"),
           AccessLoad(t, c)
    PROVE  CInv'
<1>1. /\ Others(t) /\ call'[t].pc = "start" /\ call'[t].c = c
      /\ c.op \in AccessOps \cup {"delete"}
      /\ c.op \in AccessOps => call'[t].info.data = rec[c.acct].data
  BY AccessLoadTyped
<1>2. c.op # "uninstall" /\ Acquire(t, c) /\ rec' = rec /\ UNCHANGED <<cache, lost>>
  BY <1>1 DEF AccessLoad, AccessOps
<1>3. c.acct \in Account
  BY CallParts
<1>4. Valid(c.acct) => rec[c.acct].data = cache[Owner[c.acct]].data
  BY <1>2, GoodAtBegin DEF Good
<1>5. Carries(call[t])'
  BY <1>1, <1>2, <1>3, <1>4, SameCache DEF Carries
<1>6. \A b \in Account : ~Uncaching(t, b)
  BY DEF Uncaching, At
<1> QED BY <1>1, <1>2, <1>5, <1>6, CacheKept, SameCache

LEMMA ChangePutCache ==
    ASSUME CacheGuarded, TInv, CInv, NEW t \in Thread, ChangePut(t)
    PROVE  CInv'
<1> DEFINE a == call[t].c.acct
           x == Owner[a]
           r == call[t].info
<1>1. /\ Others(t) /\ call'[t].pc = "idle" /\ call[t].pc = "put" /\ call[t].c \in Calls
      /\ call[t].c.op \in ChangeOps /\ r \in Record
  BY ChangePutTyped
<1>2. a \in Account /\ x \in App /\ r # None
  BY <1>1, CallParts, NoneIsNothing
<1>3. Carries(call[t])' /\ \A b \in Account : ~Uncaching(t, b)
  BY <1>1 DEF Carries, Uncaching
<1>4. CASE UNCHANGED <<rec, cache, lost>>
  BY <1>1, <1>3, <1>4, CacheKept, SameCache
<1>5. CASE /\ rec' = [rec EXCEPT ![a] = r] /\ UNCHANGED <<cache, lost>>
           /\ ~(call[t].c.op = "setdata" /\ Cached(cache, a))
  <2>1. Valid(a) => r.data = cache[x].data
    <3>1. Carries(call[t])
      BY DEF CInv
    <3> QED BY <1>1, <1>5, <3>1 DEF Carries, Valid, ChangeOps
  <2>2. rec'[a] = r /\ \A b \in Account \ {a} : rec'[b] = rec[b]
    BY <1>2, <1>5 DEF TInv, TypeOK
  <2>3. \A b \in Account : Valid(b)' =>
               \/ rec'[b] = rec[b]
               \/ rec'[b] # None /\ rec'[b].data = cache[Owner[b]].data
    BY <1>2, <1>5, <2>1, <2>2, SameCache
  <2> HIDE DEF a, x, r
  <2> QED BY <1>1, <1>3, <1>5, <2>3, CacheKept, SameCache
<1>6. CASE /\ rec' = [rec EXCEPT ![a] = r]
           /\ call[t].c.op = "setdata" /\ Cached(cache, a)
           /\ SetCache([cache EXCEPT ![x].data = r.data], {})
  <2>1. cache[x] \in Item /\ cache[x].acct = a
    BY <1>2, <1>6 DEF Cached, TInv, TypeOK
  <2>2. /\ cache' = [cache EXCEPT ![x].data = r.data]
        /\ lost' = {b \in lost : Cached(cache', b)}
    BY <1>6 DEF SetCache
  <2>3. cache'[x] = [cache[x] EXCEPT !.data = r.data] /\ \A y \in App \ {x} : cache'[y] = cache[y]
    BY <1>2, <2>2 DEF TInv, TypeOK
  <2>4. cache'[x].acct = a /\ cache'[x].data = r.data /\ cache'[x] \in Item
    BY <1>1, <2>1, <2>3 DEF Item, Record
  <2>5. cache'[x] # None /\ cache[x] # None
    BY <2>1, <2>4, NoneIsNothing
  <2>6. Items'
    BY <1>2, <2>1, <2>3, <2>4, <2>5 DEF CInv, Items
  <2>7. ASSUME NEW b \in Account, Valid(b)'
        PROVE  /\ Valid(b)
               /\ b # a => cache'[Owner[b]] = cache[Owner[b]]
    <3>1. Owner[b] \in App
      BY AppAccountConstants
    <3>2. Cached(cache', b) /\ b \notin lost
      BY <2>2, <2>7 DEF Valid
    <3>3. CASE b = a
      BY <1>6, <3>2, <3>3 DEF Valid
    <3>4. CASE b # a
      <4>1. Owner[b] # x
        BY <2>4, <3>2, <3>4 DEF Cached
      <4>2. cache'[Owner[b]] = cache[Owner[b]]
        BY <2>3, <3>1, <4>1
      <4> QED BY <3>2, <4>2 DEF Valid, Cached
    <3> QED BY <3>3, <3>4
  <2>8. rec'[a] = r /\ \A b \in Account \ {a} : rec'[b] = rec[b]
    BY <1>2, <1>6 DEF TInv, TypeOK
  <2>9. rec'[a] # None /\ rec'[a].data = cache'[Owner[a]].data
    BY <1>2, <2>4, <2>8
  <2>10. ASSUME NEW b \in Account, Valid(b)'
         PROVE  Good(b)' \/ \E s \in Thread : Uncaching(s, b)'
    <3>1. CASE b = a
      BY <2>9, <3>1 DEF Good
    <3>2. CASE b # a
      <4>1. Valid(b) /\ cache'[Owner[b]] = cache[Owner[b]] /\ rec'[b] = rec[b]
        BY <2>7, <2>8, <2>10, <3>2
      <4>2. CASE Good(b)
        BY <4>1, <4>2 DEF Good
      <4>3. ASSUME NEW s \in Thread, Uncaching(s, b) PROVE Uncaching(s, b)'
        BY <1>3, <4>3 DEF Others, Uncaching, ChangePut, Return
      <4> QED BY <4>1, <4>2, <4>3 DEF CInv, Right
    <3> QED BY <3>1, <3>2
  <2>11. ASSUME NEW s \in Thread, s # t PROVE Carries(call[s])'
    <3>1. call'[s] = call[s] /\ Carries(call[s])
      BY <1>1, <2>11 DEF Others, CInv
    <3>2. CASE call[s].pc = "idle"
      BY <3>1, <3>2 DEF Carries
    <3>3. CASE call[s].pc # "idle" /\ call[s].c.acct # a
      <4>1. call[s].c.acct \in Account
        BY <3>3, CallOn DEF At
      <4> QED BY <2>7, <3>1, <3>3, <4>1 DEF Carries
    <3>4. CASE call[s].pc # "idle" /\ call[s].c.acct = a
      <4>1. Watched(a)
        BY <1>2, <2>1, <2>5 DEF CInv, Items
      <4>2. ~At(s, "idle") /\ ~At(t, "idle") /\ call[t].c.op # "uninstall"
        BY <1>1, <3>4 DEF At, ChangeOps
      <4>3. uid[x] = t
        BY <4>1, <4>2, WatchedHeld
      <4>4. call[s].c.op = "uninstall"
        BY <2>11, <3>4, <4>1, <4>2, <4>3, WatchedHeld
      <4> QED BY <3>1, <4>4 DEF Carries, TInv, Shapes, Shape
    <3> QED BY <3>2, <3>3, <3>4
  <2> QED BY <1>3, <2>6, <2>10, <2>11 DEF CInv, Right
<1> QED BY <1>4, <1>5, <1>6 DEF ChangePut

LEMMA UninstallBeginCache ==
    ASSUME TInv, CInv, NEW t \in Thread, NEW c \in Calls, At(t, "idle"), UninstallBegin(t, c)
    PROVE  CInv'
<1> DEFINE k == [cache EXCEPT ![Owner[c.acct]] = None]
<1>1. Others(t) /\ call'[t].pc = "start" /\ call'[t].c = c
  BY UninstallBeginTyped
<1>2. c.op = "uninstall" /\ rec' = rec /\ SetCache(k, {})
  BY DEF UninstallBegin
<1>3. k \in [App -> Item \cup {None}] /\ \A y \in App : k[y] = None \/ k[y] = cache[y]
  BY DEF TInv, TypeOK
<1> HIDE DEF k
<1>4. /\ Items'
      /\ \A b \in Account : Valid(b)' => Valid(b) /\ cache'[Owner[b]] = cache[Owner[b]]
  <2>1. Items
    BY DEF CInv
  <2> QED BY <1>2, <1>3, <2>1, Shrunk
<1>5. Carries(call[t])'
  BY <1>1, <1>2 DEF Carries
<1>6. \A b \in Account : ~Uncaching(t, b)
  BY DEF Uncaching, At
<1> QED BY <1>1, <1>2, <1>4, <1>5, <1>6, CacheKept

LEMMA StartCache ==
    ASSUME TInv, CInv, NEW t \in Thread, StartDbTransaction(t)
    PROVE  CInv'
<1>1. /\ TInv' /\ Others(t) /\ call[t].pc = "start"
      /\ \/ call'[t].pc = "idle"
         \/ /\ call'[t].pc = (IF call[t].c.op \in {"delete", "uninstall"}
                              THEN call[t].c.op ELSE "save")
            /\ call'[t].c = call[t].c /\ call'[t].info = call[t].info
  BY StartTyped
<1>2. rec' = rec /\ UNCHANGED <<cache, lost>>
  BY DEF StartDbTransaction
<1>3. call[t].c.acct \in Account /\ Carries(call[t])
  BY <1>1, CallOn DEF At, CInv
<1>4. Carries(call[t])'
  BY <1>1, <1>2, <1>3, SameCache DEF Carries
<1>5. \A b \in Account : ~Uncaching(t, b)
  BY <1>1 DEF Uncaching
<1> QED BY <1>1, <1>2, <1>4, <1>5, CacheKept, SameCache

LEMMA UndoneCache ==
    ASSUME TInv, CInv, NEW t \in Thread, Others(t), Undone(t), call[t].pc # "uncache"
    PROVE  CInv'
<1> DEFINE S == {a \in Account : rec[a] # tx.rec[a]}
<1>1. rec' = tx.rec /\ call'[t].pc = "idle" /\ SetCache(cache, S)
  BY DEF Undone, SetCache
<1>2. S \in SUBSET Account /\ \A b \in Account : b \notin S => rec'[b] = rec[b]
  BY <1>1
<1> HIDE DEF S
<1>3. /\ Items'
      /\ \A b \in Account : Valid(b)' => /\ Valid(b) /\ b \notin S
                                         /\ cache'[Owner[b]] = cache[Owner[b]]
  <2>1. Items /\ cache \in [App -> Item \cup {None}]
    BY DEF CInv, TInv, TypeOK
  <2> QED BY <1>1, <1>2, <2>1, Shrunk
<1>4. Carries(call[t])'
  BY <1>1 DEF Carries
<1>5. \A b \in Account : ~Uncaching(t, b)
  BY DEF Uncaching
<1> QED BY <1>2, <1>3, <1>4, <1>5, CacheKept

LEMMA AccessSaveCache ==
    ASSUME TInv, CInv, NEW t \in Thread, AccessSave(t)
    PROVE  CInv'
<1> DEFINE a == call[t].c.acct
<1>1. /\ Others(t)
      /\ call[t].pc = "save" /\ call[t].c \in Calls /\ call[t].c.op \in AccessOps
      /\ call[t].info \in Record
  BY AccessSaveTyped
<1>2. CASE Undone(t)
  BY <1>1, <1>2, UndoneCache
<1>3. CASE /\ rec' = [rec EXCEPT ![a] = call[t].info]
           /\ UNCHANGED <<acl, tx, cache, lost, uid>>
           /\ call'[t].pc = "acl" /\ call'[t].c = call[t].c
  <2>1. a \in Account /\ call[t].info # None
    BY <1>1, CallParts, NoneIsNothing
  <2>2. Valid(a) => call[t].info.data = cache[Owner[a]].data
    <3>1. Carries(call[t])
      BY DEF CInv
    <3> QED BY <1>1, <3>1 DEF Carries, AccessOps
  <2>3. rec'[a] = call[t].info /\ \A b \in Account \ {a} : rec'[b] = rec[b]
    BY <1>3, <2>1 DEF TInv, TypeOK
  <2>4. \A b \in Account : Valid(b)' =>
               \/ rec'[b] = rec[b]
               \/ rec'[b] # None /\ rec'[b].data = cache[Owner[b]].data
    BY <1>3, <2>1, <2>2, <2>3, SameCache
  <2>5. Carries(call[t])'
    BY <1>3 DEF Carries
  <2>6. \A b \in Account : ~Uncaching(t, b)
    BY <1>1 DEF Uncaching
  <2> HIDE DEF a
  <2> QED BY <1>1, <1>3, <2>4, <2>5, <2>6, CacheKept, SameCache
<1> QED BY <1>2, <1>3, AccessSaveTyped

LEMMA AccessAuthorizeCache ==
    ASSUME TInv, CInv, NEW t \in Thread, AccessAuthorize(t)
    PROVE  CInv'
<1>1. Others(t) /\ call[t].pc = "acl" /\ call[t].c.op \in AccessOps
  BY AccessAuthorizeTyped
<1>2. CASE Undone(t)
  BY <1>1, <1>2, UndoneCache
<1>3. CASE /\ UNCHANGED <<rec, tx, cache, lost, uid>>
           /\ call'[t].pc = "commit" /\ call'[t].c = call[t].c
  <2>1. Carries(call[t])'
    BY <1>1, <1>3 DEF Carries, AccessOps
  <2>2. \A b \in Account : ~Uncaching(t, b)
    BY <1>1 DEF Uncaching
  <2> QED BY <1>1, <1>3, <2>1, <2>2, CacheKept, SameCache
<1> QED BY <1>2, <1>3, AccessAuthorizeTyped

LEMMA DeleteRecordCache ==
    ASSUME TInv, CInv, NEW t \in Thread, DeleteRecord(t)
    PROVE  CInv'
<1> DEFINE a == call[t].c.acct
<1>1. Others(t) /\ call[t].pc = "delete"
  BY DeleteRecordTyped
<1>2. CASE Undone(t)
  BY <1>1, <1>2, UndoneCache
<1>3. CASE /\ rec' = [rec EXCEPT ![a] = None]
           /\ UNCHANGED <<acl, tx, cache, lost, uid>>
           /\ call'[t].pc = "uncache" /\ call'[t].c = call[t].c
  <2>1. \A b \in Account \ {a} : rec'[b] = rec[b]
    BY <1>3 DEF TInv, TypeOK
  <2>2. call'[t].pc = "uncache" /\ call'[t].c.acct = a
    BY <1>3
  <2>3. \A b \in Account : rec'[b] = rec[b] \/ Uncaching(t, b)'
    BY <2>1, <2>2 DEF Uncaching
  <2>4. Carries(call[t])'
    BY <1>3 DEF Carries
  <2>5. \A b \in Account : ~Uncaching(t, b)
    BY <1>1 DEF Uncaching
  <2> HIDE DEF a
  <2> QED BY <1>1, <1>3, <2>3, <2>4, <2>5, CacheKept, SameCache
<1> QED BY <1>2, <1>3, DeleteRecordTyped

LEMMA DeleteCacheCache ==
    ASSUME TInv, CInv, NEW t \in Thread, DeleteCache(t)
    PROVE  CInv'
<1>1. /\ Others(t)
      /\ call[t].pc = "uncache" /\ call[t].c \in Calls /\ call'[t].c = call[t].c
  BY DeleteCacheTyped
<1>2. PICK a : a = call[t].c.acct
  OBVIOUS
<1> DEFINE k == [cache EXCEPT ![Owner[a]] = IF Cached(cache, a) THEN None ELSE @]
<1>3. a \in Account /\ Owner[a] \in App
  BY <1>1, <1>2, CallParts
<1>4. rec' = rec /\ SetCache(k, {})
  BY <1>2 DEF DeleteCache
<1>5. /\ k \in [App -> Item \cup {None}] /\ \A y \in App : k[y] = None \/ k[y] = cache[y]
      /\ ~Cached(k, a)
  BY <1>3 DEF TInv, TypeOK, Cached
<1> HIDE DEF k
<1>6. /\ Items'
      /\ \A b \in Account : Valid(b)' => Valid(b) /\ cache'[Owner[b]] = cache[Owner[b]]
  <2>1. Items
    BY DEF CInv
  <2> QED BY <1>4, <1>5, <2>1, Shrunk
<1>7. ~Valid(a)'
  BY <1>4, <1>5 DEF Valid, SetCache
<1>8. Carries(call[t])'
  <2>1. call'[t].pc \in {"commit", "unauthorize"}
    BY DeleteCacheTyped
  <2> QED BY <1>1, <1>2, <1>7, <2>1 DEF Carries
<1>9. \A b \in Account : Uncaching(t, b) => ~Valid(b)'
  BY <1>2, <1>7 DEF Uncaching
<1> QED BY <1>1, <1>4, <1>6, <1>8, <1>9, CacheKept

LEMMA DeleteAuthorizedCache ==
    ASSUME TInv, CInv, NEW t \in Thread, DeleteAuthorized(t)
    PROVE  CInv'
<1>1. Others(t) /\ call[t].pc = "unauthorize" /\ call[t].c \in Calls
  BY DeleteAuthorizedTyped
<1>2. CASE Undone(t)
  BY <1>1, <1>2, UndoneCache
<1>3. CASE /\ UNCHANGED <<rec, tx, cache, lost, uid>>
           /\ call'[t].pc \in {"commit", "unauthorize"} /\ call'[t].c = call[t].c
  <2>1. call[t].c.acct \in Account /\ ~Valid(call[t].c.acct)
    BY <1>1, CallParts DEF CInv, Carries
  <2>2. Carries(call[t])'
    BY <1>3, <2>1, SameCache DEF Carries
  <2>3. \A b \in Account : ~Uncaching(t, b)
    BY <1>1 DEF Uncaching
  <2> QED BY <1>1, <1>3, <2>2, <2>3, CacheKept, SameCache
<1> QED BY <1>2, <1>3, DeleteAuthorizedTyped

LEMMA UninstallLoadCache ==
    ASSUME TInv, CInv, NEW t \in Thread, UninstallLoad(t)
    PROVE  CInv'
<1>1. Others(t) /\ call[t].pc = "uninstall" /\ call[t].c.op = "uninstall"
  BY UninstallLoadTyped
<1>2. CASE Undone(t)
  BY <1>1, <1>2, UndoneCache
<1>3. CASE /\ UNCHANGED <<rec, acl, tx, cache, lost, uid>>
           /\ call'[t].pc \in {"commit", "sweep"} /\ call'[t].c = call[t].c
  <2>1. Carries(call[t])'
    BY <1>1, <1>3 DEF Carries
  <2>2. \A b \in Account : ~Uncaching(t, b)
    BY <1>1 DEF Uncaching
  <2> QED BY <1>1, <1>3, <2>1, <2>2, CacheKept, SameCache
<1> QED BY <1>2, <1>3, UninstallLoadTyped

LEMMA UninstallSweepCache ==
    ASSUME TInv, CInv, NEW t \in Thread, UninstallSweep(t)
    PROVE  CInv'
<1>1. Others(t) /\ call[t].pc = "sweep" /\ call[t].c.op = "uninstall"
  BY UninstallSweepTyped
<1>2. PICK a \in call[t].todo, deleted \in Outcome("sweep") :
                 /\ a \in Account
                 /\ rec' = IF deleted THEN [rec EXCEPT ![a] = None] ELSE rec
                 /\ SetCache(cache, IF deleted THEN {a} ELSE {})
                 /\ call'[t].pc \in {"commit", "sweep"} /\ call'[t].c = call[t].c
  BY UninstallSweepTyped
<1> DEFINE S == IF deleted THEN {a} ELSE {}
<1>3. S \in SUBSET Account /\ SetCache(cache, S) /\ \A b \in Account : b \notin S => rec'[b] = rec[b]
  BY <1>2 DEF TInv, TypeOK
<1> HIDE DEF S
<1>4. /\ Items'
      /\ \A b \in Account : Valid(b)' => /\ Valid(b) /\ b \notin S
                                         /\ cache'[Owner[b]] = cache[Owner[b]]
  <2>1. Items /\ cache \in [App -> Item \cup {None}]
    BY DEF CInv, TInv, TypeOK
  <2> QED BY <1>3, <2>1, Shrunk
<1>5. Carries(call[t])'
  BY <1>1, <1>2 DEF Carries
<1>6. \A b \in Account : ~Uncaching(t, b)
  BY <1>1 DEF Uncaching
<1> QED BY <1>1, <1>3, <1>4, <1>5, <1>6, CacheKept

LEMMA CommitCache ==
    ASSUME TInv, CInv, NEW t \in Thread, CommitDbTransaction(t)
    PROVE  CInv'
<1>1. Others(t) /\ call[t].pc = "commit"
  BY CommitTyped
<1>2. CASE Undone(t)
  BY <1>1, <1>2, UndoneCache
<1>3. CASE UNCHANGED <<rec, acl, cache, lost>> /\ call'[t].pc = "idle"
  <2>1. Carries(call[t])'
    BY <1>3 DEF Carries
  <2>2. \A b \in Account : ~Uncaching(t, b)
    BY <1>1 DEF Uncaching
  <2> QED BY <1>1, <1>3, <2>1, <2>2, CacheKept, SameCache
<1> QED BY <1>2, <1>3, CommitTyped

LEMMA CrashCache ==
    ASSUME TInv, CInv, Crash
    PROVE  CInv'
<1>1. /\ \A t \in Thread : call'[t] = Idle /\ call'[t].pc = "idle"
      /\ cache' = [x \in App |-> None]
  BY CrashTyped
<1>2. \A a \in Account : ~Valid(a)'
  BY <1>1, AppAccountConstants DEF Valid, Cached
<1> QED BY <1>1, <1>2 DEF CInv, Items, Right, Carries

LEMMA GetAssociatedDataCache ==
    ASSUME CacheGuarded, TInv, CInv, NEW t \in Thread, NEW c \in Calls, GetAssociatedData(t, c)
    PROVE  CInv'
<1> DEFINE a == c.acct
           x == Owner[a]
<1>1. PICK k \in [App -> Item \cup {None}] :
              /\ SetCache(k, {})
              /\ \A y \in App : \/ k[y] = None
                                \/ k[y] = cache[y] /\ y # x
                                \/ /\ y = x /\ rec[a] # None
                                   /\ k[y] = [acct |-> a, data |-> rec[a].data]
  BY Fetched
<1>2. /\ a \in Account /\ x \in App /\ c \in On(a) /\ Watched(a)
      /\ uid[x] = None /\ rec' = rec /\ call' = call
  BY CallParts DEF On, Watched, GetAssociatedData
<1>3. cache' = k /\ lost' = {b \in lost : Cached(k, b)}
  BY <1>1 DEF SetCache
<1>4. Items'
  BY <1>1, <1>2, <1>3 DEF CInv, Items
<1>5. ASSUME NEW b \in Account, Valid(b)'
      PROVE  \/ Valid(b) /\ cache'[Owner[b]] = cache[Owner[b]]
             \/ b = a /\ Good(b)'
  <2>1. Owner[b] \in App
    BY AppAccountConstants
  <2>2. k[Owner[b]] # None /\ k[Owner[b]].acct = b /\ b \notin lost
    BY <1>3, <1>5 DEF Valid, Cached
  <2>3. CASE k[Owner[b]] = cache[Owner[b]]
    BY <1>3, <2>2, <2>3 DEF Valid, Cached
  <2>4. CASE Owner[b] = x /\ rec[a] # None /\ k[Owner[b]] = [acct |-> a, data |-> rec[a].data]
    <3>1. b = a /\ k[Owner[b]].data = rec[a].data
      BY <2>2, <2>4
    <3> QED BY <1>2, <1>3, <2>4, <3>1 DEF Good
  <2> QED BY <1>1, <2>1, <2>2, <2>3, <2>4
<1>6. Right'
  <2> SUFFICES ASSUME NEW b \in Account, Valid(b)', ~Good(b)'
               PROVE  \E s \in Thread : Uncaching(s, b)'
    BY DEF Right
  <2>1. Valid(b) /\ cache'[Owner[b]] = cache[Owner[b]]
    BY <1>5
  <2>2. ~Good(b)
    BY <1>2, <2>1 DEF Good
  <2> QED BY <1>2, <2>1, <2>2 DEF CInv, Right, Uncaching
<1>7. ASSUME NEW s \in Thread PROVE Carries(call[s])'
  <2>1. Carries(call[s]) /\ call'[s] = call[s]
    BY <1>2 DEF CInv
  <2>2. CASE call[s].pc = "idle"
    BY <2>1, <2>2 DEF Carries
  <2>3. CASE call[s].pc # "idle" /\ call[s].c.op = "uninstall"
    BY <2>1, <2>3 DEF Carries, TInv, Shapes, Shape
  <2>4. CASE call[s].pc # "idle" /\ call[s].c.op # "uninstall"
    <3>1. call[s].c.acct \in Account /\ ~At(s, "idle")
      BY <2>4, CallOn DEF At
    <3>2. call[s].c.acct # a
      BY <1>2, <2>4, <3>1, WatchedHeld, AppAccountConstants
    <3> QED BY <1>5, <2>1, <3>1, <3>2 DEF Carries
  <2> QED BY <2>2, <2>3, <2>4
<1> QED BY <1>4, <1>6, <1>7 DEF CInv

LEMMA InitCache == Init => CInv
<1> SUFFICES ASSUME Init PROVE CInv
  OBVIOUS
<1>1. /\ \A t \in Thread : call[t].pc = "idle"
      /\ \A x \in App : cache[x] = None
  BY DEF Init, Idle
<1>2. \A a \in Account : ~Valid(a)
  BY <1>1, AppAccountConstants DEF Valid, Cached
<1> QED BY <1>1, <1>2 DEF CInv, Items, Right, Carries

LEMMA StutterCache == ASSUME CInv, UNCHANGED vars PROVE CInv'
<1>1. Items' /\ Right'
  BY DEF vars, CInv, Items, Right, Valid, Good, Uncaching
<1>2. \A t \in Thread : Carries(call[t])'
  BY DEF vars, CInv, Carries, Valid
<1> QED BY <1>1, <1>2 DEF CInv

LEMMA NextCache ==
    ASSUME CacheGuarded, TInv, CInv, [Next]_vars
    PROVE  CInv'
<1>1. ASSUME NEW t \in Thread, Begin(t) PROVE CInv'
  <2>1. PICK c \in Calls :
            /\ At(t, "idle")
            /\ \/ AddCheck(t, c) \/ GetAssociatedData(t, c) \/ ChangeLoad(t, c)
               \/ AccessLoad(t, c) \/ UninstallBegin(t, c)
    BY <1>1 DEF Begin
  <2> QED BY <2>1, AddCheckCache, GetAssociatedDataCache, ChangeLoadCache, AccessLoadCache,
             UninstallBeginCache
<1>2. ASSUME NEW t \in Thread, Step(t) PROVE CInv'
  BY <1>2, AddPutCache, ChangePutCache, StartCache, AccessSaveCache, AccessAuthorizeCache,
     DeleteRecordCache, DeleteCacheCache, DeleteAuthorizedCache, UninstallLoadCache,
     UninstallSweepCache, CommitCache DEF Step
<1>3. CASE Crash
  BY <1>3, CrashCache
<1>4. CASE UNCHANGED vars
  BY <1>4, StutterCache
<1> QED BY <1>1, <1>2, <1>3, <1>4 DEF Next

LEMMA CacheFollows == ASSUME CacheGuarded, TInv, CInv PROVE CacheFresh
<1> SUFFICES ASSUME NEW x \in App, cache[x] # None, uid[x] = None, cache[x].acct \notin lost
             PROVE  rec[cache[x].acct] # None /\ rec[cache[x].acct].data = cache[x].data
  BY DEF CacheFresh
<1> DEFINE a == cache[x].acct
<1>1. a \in Account /\ Owner[a] = x /\ Watched(a)
  BY DEF CInv, Items, TInv, TypeOK, Item
<1>2. Valid(a)
  BY <1>1 DEF Valid, Cached
<1>3. ASSUME NEW s \in Thread, Uncaching(s, a) PROVE FALSE
  <2>1. ~At(s, "idle") /\ call[s].c.op # "uninstall" /\ call[s].c.acct = a
    BY <1>3 DEF Uncaching, At, TInv, Shapes, Shape
  <2>2. uid[Owner[a]] = s
    BY <1>1, <2>1, WatchedHeld
  <2> QED BY <1>1, <2>2, AppAccountConstants
<1>4. Good(a)
  BY <1>1, <1>2, <1>3 DEF CInv, Right
<1> QED BY <1>1, <1>4 DEF Good

\* What GetAssociatedData answers from associatedDataCache_ is in the record
\* whenever no call of the owner is under way, for any calls, faults and
\* crashes: the accounts whose data are asked for are changed by calls with the
\* AppAccountLock of the owner, or removed with the package.
THEOREM CacheNeverStale == CacheGuarded => (Spec => []CacheFresh)
<1> SUFFICES ASSUME CacheGuarded PROVE Spec => []CacheFresh
  OBVIOUS
<1>1. Init => TInv /\ CInv
  BY InitTyped, InitCache
<1>2. TInv /\ CInv /\ [Next]_vars => TInv' /\ CInv'
  BY NextTyped, NextCache
<1>3. TInv /\ CInv => CacheFresh
  BY CacheFollows
<1> QED BY <1>1, <1>2, <1>3, PTL DEF Spec

-----------------------------------------------------------------------------
\* The accounts of app x that the records r hold.
OfIn(r, x) == {a \in Account : Owner[a] = x /\ r[a] # None}

\* Call t is going to write account a.
Writing(t, a) ==
    /\ call[t].c.acct = a
    /\ \/ call[t].pc \in {"add", "put", "save"}
       \/ call[t].pc = "start" /\ call[t].c.op \in AccessOps

\* An account that nobody creates is not there.
Never(a) == a \notin Existing /\ Fixed(Owner[a])
Absent ==
    \A a \in Account : Never(a) =>
        /\ rec[a] = None /\ (tx # None => tx.rec[a] = None)
        /\ \A t \in Thread : ~Writing(t, a)

\* Few enough are there, were there before the transaction, and will be.
Enough(x) ==
    /\ Small(OfIn(rec, x))
    /\ tx # None => /\ Small(OfIn(tx.rec, x))
                    /\ Owner[call[tx.holder].c.acct] # x => OfIn(tx.rec, x) \subseteq OfIn(rec, x)
    /\ \A t \in Thread, a \in Account :
           Writing(t, a) /\ Owner[a] = x => Small(OfIn(rec, x) \cup {a})

QInv == Absent /\ \A x \in App : Orderly(x) => Enough(x)

-----------------------------------------------------------------------------
LEMMA Smaller ==
    ASSUME NEW S, NEW T, Small(S), T \subseteq S
    PROVE  Small(T)
<1>1. IsFiniteSet(T) /\ Cardinality(T) <= Cardinality(S)
  BY FS_Subset DEF Small
<1>2. Cardinality(T) \in Nat /\ Cardinality(S) \in Nat
  BY <1>1, FS_CardinalityType DEF Small
<1> QED BY <1>1, <1>2, AppAccountConstants DEF Small

LEMMA OneMore ==
    ASSUME NEW S, NEW a, Small(S), Cardinality(S) < MaxAccounts
    PROVE  Small(S \cup {a})
<1>1. IsFiniteSet(S \cup {a}) /\ Cardinality(S \cup {a}) <= Cardinality(S) + 1
  <2>1. IsFiniteSet(S) /\ Cardinality(S) \in Nat
    BY FS_CardinalityType DEF Small
  <2>2. /\ IsFiniteSet(S \cup {a})
        /\ Cardinality(S \cup {a}) = IF a \in S THEN Cardinality(S) ELSE Cardinality(S) + 1
    BY <2>1, FS_AddElement
  <2> QED BY <2>1, <2>2
<1>2. Cardinality(S \cup {a}) \in Nat /\ Cardinality(S) \in Nat
  BY <1>1, FS_CardinalityType DEF Small
<1> QED BY <1>1, <1>2, AppAccountConstants DEF Small

\* Two calls of an app that does all with its lock are one call.
LEMMA OneOfApp ==
    ASSUME TInv, NEW s \in Thread, NEW t \in Thread, ~At(s, "idle"), ~At(t, "idle"),
           Owner[call[s].c.acct] = Owner[call[t].c.acct], Orderly(Owner[call[t].c.acct])
    PROVE  s = t
<1>1. call[s].c \in Calls /\ call[t].c \in Calls
  BY CallOn
<1>2. Held(call[s].c) /\ Held(call[t].c)
  BY <1>1 DEF Orderly
<1> QED BY <1>2 DEF Held, TInv, Locks

\* A step of t that leaves the records alone.
LEMMA QuotaSame ==
    ASSUME TInv, QInv, NEW t \in Thread, Others(t), rec' = rec,
           \/ tx' = None
           \/ tx' = tx /\ (call[t].pc \in InTx => call'[t].c = call[t].c),
           \A a \in Account : Writing(t, a)' =>
               \/ Writing(t, a)
               \/ rec[a] # None
               \/ /\ ~Fixed(Owner[a])
                  /\ Orderly(Owner[a]) => Small(OfIn(rec, Owner[a]) \cup {a})
    PROVE  QInv'
<1>1. \A s \in Thread \ {t}, a \in Account : Writing(s, a)' <=> Writing(s, a)
  BY DEF Others, Writing
<1>2. tx' # None => /\ tx' = tx
                    /\ call'[tx.holder].c = call[tx.holder].c
  <2>1. tx # None => /\ tx.holder \in Thread
                     /\ tx.holder = t => call[t].pc \in InTx
    BY DEF TInv, TypeOK, Transaction, Trans
  <2> QED BY <2>1 DEF Others
<1>3. Absent'
  <2> SUFFICES ASSUME NEW a \in Account, Never(a)
               PROVE  /\ rec'[a] = None /\ (tx' # None => tx'.rec[a] = None)
                      /\ \A s \in Thread : ~Writing(s, a)'
    BY DEF Absent, Never, Fixed
  <2>1. /\ rec[a] = None /\ (tx # None => tx.rec[a] = None)
        /\ \A s \in Thread : ~Writing(s, a)
    BY DEF QInv, Absent
  <2>2. ~Writing(t, a)'
    BY <2>1 DEF Never
  <2> QED BY <1>1, <1>2, <2>1, <2>2
<1>4. ASSUME NEW x \in App, Orderly(x) PROVE Enough(x)'
  <2>1. Enough(x)
    BY <1>4 DEF QInv
  <2>2. ASSUME NEW s \in Thread, NEW a \in Account, Writing(s, a)', Owner[a] = x
        PROVE  Small(OfIn(rec, x) \cup {a})
    <3>1. CASE Writing(s, a)
      BY <2>1, <2>2, <3>1 DEF Enough
    <3>2. CASE rec[a] # None
      <4>1. OfIn(rec, x) \cup {a} = OfIn(rec, x)
        BY <2>2, <3>2 DEF OfIn
      <4> QED BY <2>1, <4>1 DEF Enough
    <3>3. CASE Orderly(Owner[a]) => Small(OfIn(rec, Owner[a]) \cup {a})
      BY <1>4, <2>2, <3>3
    <3> QED BY <1>1, <2>2, <3>1, <3>2, <3>3
  <2>3. Small(OfIn(rec, x))'
    BY <2>1 DEF Enough
  <2>4. tx' # None => /\ Small(OfIn(tx'.rec, x))
                      /\ Owner[call'[tx'.holder].c.acct] # x =>
                             OfIn(tx'.rec, x) \subseteq OfIn(rec', x)
    BY <1>2, <2>1 DEF Enough
  <2> QED BY <2>2, <2>3, <2>4 DEF Enough
<1> QED BY <1>3, <1>4 DEF QInv, Orderly, Held, Caller

\* The write that a call was about to make.
LEMMA QuotaWrite ==
    ASSUME TInv, QInv, NEW t \in Thread, Others(t), NEW a \in Account, Writing(t, a),
           NEW r, r # None, rec' = [rec EXCEPT ![a] = r], tx' = tx,
           \A b \in Account : ~Writing(t, b)',
           call[t].pc \in InTx => call'[t].c = call[t].c
    PROVE  QInv'
<1>1. \A s \in Thread \ {t}, b \in Account : Writing(s, b)' <=> Writing(s, b)
  BY DEF Others, Writing
<1>2. tx # None => call'[tx.holder].c = call[tx.holder].c
  <2>1. tx # None => /\ tx.holder \in Thread
                     /\ tx.holder = t => call[t].pc \in InTx
    BY DEF TInv, TypeOK, Transaction, Trans
  <2> QED BY <2>1 DEF Others
<1>3. rec'[a] = r /\ \A b \in Account \ {a} : rec'[b] = rec[b]
  BY DEF TInv, TypeOK
<1>4. Absent'
  <2> SUFFICES ASSUME NEW b \in Account, Never(b)
               PROVE  /\ rec'[b] = None /\ (tx' # None => tx'.rec[b] = None)
                      /\ \A s \in Thread : ~Writing(s, b)'
    BY DEF Absent, Never, Fixed
  <2>1. /\ rec[b] = None /\ (tx # None => tx.rec[b] = None)
        /\ \A s \in Thread : ~Writing(s, b)
    BY DEF QInv, Absent
  <2> QED BY <1>1, <1>3, <2>1
<1>5. ASSUME NEW x \in App, Orderly(x) PROVE Enough(x)'
  <2>1. Enough(x)
    BY <1>5 DEF QInv
  <2>2. OfIn(rec, x) \subseteq OfIn(rec', x)
    BY <1>3 DEF OfIn
  <2>3. /\ Owner[a] # x => OfIn(rec', x) = OfIn(rec, x)
        /\ Owner[a] = x => OfIn(rec', x) = OfIn(rec, x) \cup {a}
    BY <1>3 DEF OfIn
  <2>4. Small(OfIn(rec', x))
    BY <2>1, <2>3 DEF Enough
  <2>5. ASSUME NEW s \in Thread, NEW b \in Account, Writing(s, b)', Owner[b] = x
        PROVE  Small(OfIn(rec', x) \cup {b})
    <3>1. s # t /\ Writing(s, b)
      BY <1>1, <2>5
    <3>2. Owner[a] # x
      <4>1. ~At(s, "idle") /\ ~At(t, "idle") /\ call[s].c.acct = b /\ call[t].c.acct = a
        BY <3>1 DEF Writing, At
      <4> QED BY <1>5, <2>5, <3>1, <4>1, OneOfApp
    <3> QED BY <2>1, <2>3, <2>5, <3>1, <3>2 DEF Enough
  <2>6. tx' # None => /\ Small(OfIn(tx'.rec, x))
                      /\ Owner[call'[tx'.holder].c.acct] # x =>
                             OfIn(tx'.rec, x) \subseteq OfIn(rec', x)
    BY <1>2, <2>1, <2>2 DEF Enough
  <2> QED BY <2>4, <2>5, <2>6 DEF Enough
<1> QED BY <1>4, <1>5 DEF QInv, Orderly, Held, Caller

\* A record that goes in a transaction of its owner.
LEMMA QuotaDrop ==
    ASSUME TInv, QInv, NEW t \in Thread, Others(t), NEW a \in Account,
           Owner[a] = Owner[call[t].c.acct], call[t].pc \in InTx, call'[t].c = call[t].c,
           rec' = [rec EXCEPT ![a] = None], tx' = tx,
           \A b \in Account : ~Writing(t, b)'
    PROVE  QInv'
<1>1. \A s \in Thread \ {t}, b \in Account : Writing(s, b)' <=> Writing(s, b)
  BY DEF Others, Writing
<1>2. tx # None /\ tx.holder = t
  BY DEF TInv, Trans
<1>3. rec'[a] = None /\ \A b \in Account \ {a} : rec'[b] = rec[b]
  BY DEF TInv, TypeOK
<1>4. Absent'
  <2> SUFFICES ASSUME NEW b \in Account, Never(b)
               PROVE  /\ rec'[b] = None /\ (tx' # None => tx'.rec[b] = None)
                      /\ \A s \in Thread : ~Writing(s, b)'
    BY DEF Absent, Never, Fixed
  <2>1. /\ rec[b] = None /\ (tx # None => tx.rec[b] = None)
        /\ \A s \in Thread : ~Writing(s, b)
    BY DEF QInv, Absent
  <2> QED BY <1>1, <1>3, <2>1
<1>5. ASSUME NEW x \in App, Orderly(x) PROVE Enough(x)'
  <2>1. Enough(x)
    BY <1>5 DEF QInv
  <2>2. /\ OfIn(rec', x) \subseteq OfIn(rec, x)
        /\ Owner[a] # x => OfIn(rec', x) = OfIn(rec, x)
    BY <1>3 DEF OfIn
  <2>3. Small(OfIn(rec', x))
    BY <2>1, <2>2, Smaller DEF Enough
  <2>4. ASSUME NEW s \in Thread, NEW b \in Account, Writing(s, b)', Owner[b] = x
        PROVE  Small(OfIn(rec', x) \cup {b})
    <3>1. Writing(s, b)
      BY <1>1, <2>4
    <3>2. Small(OfIn(rec, x) \cup {b})
      BY <2>1, <2>4, <3>1 DEF Enough
    <3>3. OfIn(rec', x) \cup {b} \subseteq OfIn(rec, x) \cup {b}
      BY <2>2
    <3> QED BY <3>2, <3>3, Smaller
  <2>5. tx' # None => /\ Small(OfIn(tx'.rec, x))
                      /\ Owner[call'[tx'.holder].c.acct] # x =>
                             OfIn(tx'.rec, x) \subseteq OfIn(rec', x)
    BY <1>2, <2>1, <2>2 DEF Enough
  <2> QED BY <2>3, <2>4, <2>5 DEF Enough
<1> QED BY <1>4, <1>5 DEF QInv, Orderly, Held, Caller

\* A rollback.
LEMMA QuotaUndone ==
    ASSUME TInv, QInv, NEW t \in Thread, Others(t), Undone(t)
    PROVE  QInv'
<1>1. /\ tx # None /\ tx.holder = t /\ rec' = tx.rec /\ tx' = None /\ call'[t].pc = "idle"
  BY DEF Undone
<1>2. call[t].pc \in InTx /\ ~At(t, "idle")
  BY <1>1 DEF TInv, Trans, At, InTx
<1>3. /\ \A b \in Account : ~Writing(t, b)'
      /\ \A s \in Thread \ {t}, b \in Account : Writing(s, b)' <=> Writing(s, b)
  BY <1>1 DEF Others, Writing
<1>4. Absent'
  <2> SUFFICES ASSUME NEW b \in Account, Never(b)
               PROVE  /\ rec'[b] = None /\ (tx' # None => tx'.rec[b] = None)
                      /\ \A s \in Thread : ~Writing(s, b)'
    BY DEF Absent, Never, Fixed
  <2>1. tx.rec[b] = None /\ \A s \in Thread : ~Writing(s, b)
    BY <1>1 DEF QInv, Absent
  <2> QED BY <1>1, <1>3, <2>1
<1>5. ASSUME NEW x \in App, Orderly(x) PROVE Enough(x)'
  <2>1. Enough(x)
    BY <1>5 DEF QInv
  <2>2. Small(OfIn(rec', x))
    BY <1>1, <2>1 DEF Enough
  <2>3. ASSUME NEW s \in Thread, NEW b \in Account, Writing(s, b)', Owner[b] = x
        PROVE  Small(OfIn(rec', x) \cup {b})
    <3>1. s # t /\ Writing(s, b)
      BY <1>3, <2>3
    <3>2. Owner[call[t].c.acct] # x
      <4>1. ~At(s, "idle") /\ call[s].c.acct = b
        BY <3>1 DEF Writing, At
      <4> QED BY <1>2, <1>5, <2>3, <3>1, <4>1, OneOfApp
    <3>3. Small(OfIn(rec, x) \cup {b}) /\ OfIn(rec', x) \subseteq OfIn(rec, x)
      BY <1>1, <2>1, <2>3, <3>1, <3>2 DEF Enough
    <3>4. OfIn(rec', x) \cup {b} \subseteq OfIn(rec, x) \cup {b}
      BY <3>3
    <3> QED BY <3>3, <3>4, Smaller
  <2> QED BY <1>1, <2>2, <2>3 DEF Enough
<1> QED BY <1>4, <1>5 DEF QInv, Orderly, Held, Caller

LEMMA AddCheckQuota ==
    ASSUME TInv, QInv, NEW t \in Thread, NEW c \in Calls, At(t, "idle"), AddCheck(t, c)
    PROVE  QInv'
<1>1. Others(t) /\ call'[t].pc = "add" /\ call'[t].c = c
  BY AddCheckTyped
<1>2. /\ c.op \in {"create", "implicit"} /\ Cardinality(Of(Owner[c.acct])) < MaxAccounts
      /\ rec' = rec /\ tx' = tx
  BY DEF AddCheck
<1>3. c.acct \in Account /\ Owner[c.acct] \in App
  BY CallParts
<1>4. ~Fixed(Owner[c.acct])
  BY <1>2 DEF Fixed
<1>5. Orderly(Owner[c.acct]) => Small(OfIn(rec, Owner[c.acct]) \cup {c.acct})
  <2>1. Of(Owner[c.acct]) = OfIn(rec, Owner[c.acct])
    BY DEF Of, OfIn
  <2>2. Orderly(Owner[c.acct]) => Small(OfIn(rec, Owner[c.acct]))
    BY <1>3 DEF QInv, Enough
  <2> QED BY <1>2, <2>1, <2>2, OneMore
<1>6. \A a \in Account : Writing(t, a)' => a = c.acct
  BY <1>1 DEF Writing
<1>7. call[t].pc \notin InTx
  BY DEF At, InTx
<1> QED BY <1>1, <1>2, <1>4, <1>5, <1>6, <1>7, QuotaSame

LEMMA LoadQuota ==
    ASSUME TInv, QInv, NEW t \in Thread, NEW c \in Calls, At(t, "idle"),
           ChangeLoad(t, c) \/ AccessLoad(t, c)
    PROVE  QInv'
<1>1. Others(t) /\ call'[t].c = c
  BY ChangeLoadTyped, AccessLoadTyped
<1>2. rec[c.acct] # None /\ rec' = rec /\ tx' = tx
  BY DEF ChangeLoad, AccessLoad
<1>3. \A a \in Account : Writing(t, a)' => a = c.acct
  BY <1>1 DEF Writing
<1>4. call[t].pc \notin InTx
  BY DEF At, InTx
<1> QED BY <1>1, <1>2, <1>3, <1>4, QuotaSame

LEMMA UninstallBeginQuota ==
    ASSUME TInv, QInv, NEW t \in Thread, NEW c \in Calls, At(t, "idle"), UninstallBegin(t, c)
    PROVE  QInv'
<1>1. Others(t) /\ call'[t].pc = "start" /\ call'[t].c = c
  BY UninstallBeginTyped
<1>2. c.op \notin AccessOps /\ rec' = rec /\ tx' = tx
  BY DEF UninstallBegin, AccessOps
<1>3. \A a \in Account : ~Writing(t, a)'
  BY <1>1, <1>2 DEF Writing
<1>4. call[t].pc \notin InTx
  BY DEF At, InTx
<1> QED BY <1>1, <1>2, <1>3, <1>4, QuotaSame

LEMMA PutQuota ==
    ASSUME TInv, QInv, NEW t \in Thread, AddPut(t) \/ ChangePut(t)
    PROVE  QInv'
<1>1. /\ Others(t) /\ call'[t].pc = "idle" /\ call[t].pc \in {"add", "put"}
      /\ call[t].c \in Calls /\ call[t].info \in Record
  BY AddPutTyped, ChangePutTyped
<1>2. PICK a : a = call[t].c.acct
  OBVIOUS
<1>3. /\ tx' = tx
      /\ rec' = rec \/ rec' = [rec EXCEPT ![a] = call[t].info]
  BY <1>2 DEF AddPut, ChangePut
<1>4. /\ a \in Account /\ Writing(t, a) /\ call[t].info # None
      /\ \A b \in Account : ~Writing(t, b)'
      /\ call[t].pc \notin InTx
  BY <1>1, <1>2, CallParts, NoneIsNothing DEF Writing, InTx
<1>5. CASE rec' = rec
  BY <1>1, <1>3, <1>4, <1>5, QuotaSame
<1>6. CASE rec' = [rec EXCEPT ![a] = call[t].info]
  BY <1>1, <1>3, <1>4, <1>6, QuotaWrite
<1> QED BY <1>3, <1>5, <1>6

LEMMA StartQuota ==
    ASSUME TInv, QInv, NEW t \in Thread, StartDbTransaction(t)
    PROVE  QInv'
<1>1. Others(t) /\ tx = None /\ call[t].pc = "start"
  BY StartTyped
<1>2. rec' = rec
  BY DEF StartDbTransaction
<1>3. call[t].pc \notin InTx /\ call[t].c.op \in AccessOps \cup {"delete", "uninstall"}
  BY <1>1 DEF InTx, TInv, Shapes, Shape
<1>4. CASE tx' = None /\ call'[t].pc = "idle"
  <2>1. \A b \in Account : ~Writing(t, b)'
    BY <1>4 DEF Writing
  <2> QED BY <1>1, <1>2, <1>4, <2>1, QuotaSame
<1>5. CASE /\ tx'.holder = t /\ tx'.rec = rec /\ tx' # None
           /\ call'[t].pc = (IF call[t].c.op \in {"delete", "uninstall"}
                             THEN call[t].c.op ELSE "save")
           /\ call'[t].c = call[t].c
  <2>1. \A s \in Thread, b \in Account : Writing(s, b)' => Writing(s, b)
    BY <1>1, <1>3, <1>5 DEF Writing, Others, AccessOps
  <2>2. Absent'
    <3> SUFFICES ASSUME NEW b \in Account, Never(b)
                 PROVE  /\ rec'[b] = None /\ (tx' # None => tx'.rec[b] = None)
                        /\ \A s \in Thread : ~Writing(s, b)'
      BY DEF Absent, Never, Fixed
    <3>1. rec[b] = None /\ \A s \in Thread : ~Writing(s, b)
      BY DEF QInv, Absent
    <3> QED BY <1>2, <1>5, <2>1, <3>1
  <2>3. ASSUME NEW x \in App, Orderly(x) PROVE Enough(x)'
    <3>1. Enough(x)
      BY <2>3 DEF QInv
    <3> QED BY <1>2, <1>5, <2>1, <3>1 DEF Enough
  <2> QED BY <2>2, <2>3 DEF QInv, Orderly, Held, Caller
<1> QED BY <1>4, <1>5, StartTyped

LEMMA AccessSaveQuota ==
    ASSUME TInv, QInv, NEW t \in Thread, AccessSave(t)
    PROVE  QInv'
<1>1. Others(t) /\ call[t].pc = "save" /\ call[t].c \in Calls /\ call[t].info \in Record
  BY AccessSaveTyped
<1>2. CASE Undone(t)
  BY <1>1, <1>2, QuotaUndone
<1>3. PICK a : a = call[t].c.acct
  OBVIOUS
<1>4. CASE /\ rec' = [rec EXCEPT ![call[t].c.acct] = call[t].info]
           /\ tx' = tx /\ call'[t].pc = "acl" /\ call'[t].c = call[t].c
  <2>1. /\ a \in Account /\ Writing(t, a) /\ call[t].info # None
        /\ \A b \in Account : ~Writing(t, b)'
    BY <1>1, <1>3, <1>4, CallParts, NoneIsNothing DEF Writing
  <2> QED BY <1>1, <1>3, <1>4, <2>1, QuotaWrite
<1> QED BY <1>2, <1>4, AccessSaveTyped

LEMMA DeleteRecordQuota ==
    ASSUME TInv, QInv, NEW t \in Thread, DeleteRecord(t)
    PROVE  QInv'
<1>1. Others(t) /\ call[t].pc = "delete" /\ call[t].c \in Calls
  BY DeleteRecordTyped
<1>2. CASE Undone(t)
  BY <1>1, <1>2, QuotaUndone
<1>3. PICK a : a = call[t].c.acct
  OBVIOUS
<1>4. CASE /\ rec' = [rec EXCEPT ![call[t].c.acct] = None]
           /\ tx' = tx /\ call'[t].pc = "uncache" /\ call'[t].c = call[t].c
  <2>1. /\ a \in Account /\ Owner[a] = Owner[call[t].c.acct] /\ call[t].pc \in InTx
        /\ \A b \in Account : ~Writing(t, b)'
    BY <1>1, <1>3, <1>4, CallParts DEF Writing, InTx
  <2> QED BY <1>1, <1>3, <1>4, <2>1, QuotaDrop
<1> QED BY <1>2, <1>4, DeleteRecordTyped

LEMMA UninstallSweepQuota ==
    ASSUME TInv, QInv, NEW t \in Thread, UninstallSweep(t)
    PROVE  QInv'
<1>1. Others(t) /\ call[t].pc = "sweep" /\ tx' = tx
  BY UninstallSweepTyped
<1>2. PICK a \in call[t].todo, deleted \in Outcome("sweep") :
                 /\ a \in Account /\ Owner[a] = Owner[call[t].c.acct]
                 /\ rec' = IF deleted THEN [rec EXCEPT ![a] = None] ELSE rec
                 /\ call'[t].pc \in {"commit", "sweep"} /\ call'[t].c = call[t].c
  BY UninstallSweepTyped
<1>3. call[t].pc \in InTx /\ \A b \in Account : ~Writing(t, b)'
  BY <1>1, <1>2 DEF InTx, Writing
<1>4. CASE rec' = rec
  BY <1>1, <1>2, <1>3, <1>4, QuotaSame
<1>5. CASE rec' = [rec EXCEPT ![a] = None]
  BY <1>1, <1>2, <1>3, <1>5, QuotaDrop
<1> QED BY <1>2, <1>4, <1>5

\* The steps of a transaction that write no record.
LEMMA InsideQuota ==
    ASSUME TInv, QInv, NEW t \in Thread,
           \/ AccessAuthorize(t) \/ DeleteCache(t) \/ DeleteAuthorized(t)
           \/ UninstallLoad(t) \/ CommitDbTransaction(t)
    PROVE  QInv'
<1>1. Others(t)
  BY AccessAuthorizeTyped, DeleteCacheTyped, DeleteAuthorizedTyped, UninstallLoadTyped, CommitTyped
<1>2. CASE Undone(t)
  BY <1>1, <1>2, QuotaUndone
<1>3. CASE rec' = rec /\ tx' = None /\ call'[t].pc = "idle"
  <2>1. \A b \in Account : ~Writing(t, b)'
    BY <1>3 DEF Writing
  <2> QED BY <1>1, <1>3, <2>1, QuotaSame
<1>4. CASE /\ rec' = rec /\ tx' = tx /\ call'[t].c = call[t].c
           /\ call'[t].pc \in {"commit", "unauthorize", "sweep"}
  <2>1. \A b \in Account : ~Writing(t, b)'
    BY <1>4 DEF Writing
  <2> QED BY <1>1, <1>4, <2>1, QuotaSame
<1>5. CASE AccessAuthorize(t)
  BY <1>2, <1>4, <1>5, AccessAuthorizeTyped
<1>6. CASE DeleteCache(t)
  <2>1. rec' = rec /\ tx' = tx
    BY <1>6 DEF DeleteCache
  <2> QED BY <1>4, <1>6, <2>1, DeleteCacheTyped
<1>7. CASE DeleteAuthorized(t)
  BY <1>2, <1>4, <1>7, DeleteAuthorizedTyped
<1>8. CASE UninstallLoad(t)
  BY <1>2, <1>4, <1>8, UninstallLoadTyped
<1>9. CASE CommitDbTransaction(t)
  BY <1>2, <1>3, <1>9, CommitTyped
<1> QED BY <1>5, <1>6, <1>7, <1>8, <1>9

LEMMA CrashQuota == ASSUME TInv, QInv, Crash PROVE QInv'
<1>1. /\ \A t \in Thread : call'[t].pc = "idle"
      /\ tx' = None
      /\ IF tx = None THEN rec' = rec ELSE rec' = tx.rec
  BY CrashTyped
<1>2. \A t \in Thread, a \in Account : ~Writing(t, a)'
  BY <1>1 DEF Writing
<1>3. Absent'
  <2> SUFFICES ASSUME NEW b \in Account, Never(b)
               PROVE  /\ rec'[b] = None /\ (tx' # None => tx'.rec[b] = None)
                      /\ \A s \in Thread : ~Writing(s, b)'
    BY DEF Absent, Never, Fixed
  <2> QED BY <1>1, <1>2 DEF QInv, Absent
<1>4. ASSUME NEW x \in App, Orderly(x) PROVE Enough(x)'
  <2>1. Enough(x)
    BY <1>4 DEF QInv
  <2> QED BY <1>1, <1>2, <2>1 DEF Enough
<1> QED BY <1>3, <1>4 DEF QInv, Orderly, Held, Caller

LEMMA StutterQuota == ASSUME QInv, UNCHANGED <<rec, tx, call>> PROVE QInv'
<1>1. Absent'
  BY DEF QInv, Absent, Writing
<1>2. ASSUME NEW x \in App, Orderly(x) PROVE Enough(x)'
  BY <1>2 DEF QInv, Enough, Writing
<1> QED BY <1>1, <1>2 DEF QInv, Orderly, Held, Caller

LEMMA InitQuota == Init => QInv
<1> SUFFICES ASSUME Init PROVE QInv
  OBVIOUS
<1>1. /\ \A t \in Thread : call[t].pc = "idle"
      /\ tx = None
      /\ \A a \in Account : rec[a] # None => a \in Existing
  BY DEF Init, Idle
<1>2. Absent
  BY <1>1 DEF Absent, Never, Writing
<1>3. ASSUME NEW x \in App PROVE Enough(x)
  <2>1. Small({a \in Existing : Owner[a] = x})
    BY AppAccountConstants DEF Small
  <2>2. OfIn(rec, x) \subseteq {a \in Existing : Owner[a] = x}
    BY <1>1 DEF OfIn
  <2>3. Small(OfIn(rec, x))
    BY <2>1, <2>2, Smaller
  <2> QED BY <1>1, <2>3 DEF Enough, Writing
<1> QED BY <1>2, <1>3 DEF QInv

LEMMA NextQuota == ASSUME TInv, QInv, [Next]_vars PROVE QInv'
<1>1. ASSUME NEW t \in Thread, Begin(t) PROVE QInv'
  <2>1. PICK c \in Calls :
            /\ At(t, "idle")
            /\ \/ AddCheck(t, c) \/ GetAssociatedData(t, c) \/ ChangeLoad(t, c)
               \/ AccessLoad(t, c) \/ UninstallBegin(t, c)
    BY <1>1 DEF Begin
  <2>2. CASE GetAssociatedData(t, c)
    BY <2>2, StutterQuota DEF GetAssociatedData
  <2> QED BY <2>1, <2>2, AddCheckQuota, LoadQuota, UninstallBeginQuota
<1>2. ASSUME NEW t \in Thread, Step(t) PROVE QInv'
  BY <1>2, PutQuota, StartQuota, AccessSaveQuota, DeleteRecordQuota, UninstallSweepQuota,
     InsideQuota DEF Step
<1>3. CASE Crash
  BY <1>3, CrashQuota
<1>4. CASE UNCHANGED vars
  BY <1>4, StutterQuota DEF vars
<1> QED BY <1>1, <1>2, <1>3, <1>4 DEF Next

LEMMA QuotaFollows == ASSUME QuotaGuarded, QInv PROVE AccountQuota
<1> SUFFICES ASSUME NEW x \in App PROVE Small(OfIn(rec, x))
  BY DEF AccountQuota, Small, Of, OfIn
<1>1. CASE Fixed(x)
  <2>1. Small({a \in Existing : Owner[a] = x})
    BY AppAccountConstants DEF Small
  <2>2. OfIn(rec, x) \subseteq {a \in Existing : Owner[a] = x}
    BY <1>1 DEF OfIn, QInv, Absent, Never
  <2> QED BY <2>1, <2>2, Smaller
<1>2. CASE Orderly(x)
  BY <1>2 DEF QInv, Enough
<1>3. CASE Bounded(x)
  <2>1. OfIn(rec, x) \subseteq {a \in Account : Owner[a] = x}
    BY DEF OfIn
  <2> QED BY <1>3, <2>1, Smaller DEF Bounded
<1> QED BY <1>1, <1>2, <1>3 DEF QuotaGuarded

\* No app ever has more than ACCOUNT_MAX_SIZE accounts, for any limit, any
\* calls, faults and crashes: the count of AddAccount and its write are apart,
\* and a rollback brings back what others deleted, but the AppAccountLock
\* keeps the calls of one app from each other.  The app does all its calls
\* with the lock, or creates no account, or has no more names than the limit.
THEOREM QuotaKept == QuotaGuarded => (Spec => []AccountQuota)
<1> SUFFICES ASSUME QuotaGuarded PROVE Spec => []AccountQuota
  OBVIOUS
<1>1. Init => TInv /\ QInv
  BY InitTyped, InitQuota
<1>2. TInv /\ QInv /\ [Next]_vars => TInv' /\ QInv'
  BY NextTyped, NextQuota
<1>3. QInv => AccountQuota
  BY QuotaFollows
<1> QED BY <1>1, <1>2, <1>3, PTL DEF Spec

-----------------------------------------------------------------------------
(***************************************************************************)
(* The sessions with the authenticators of these apps.                     *)
(***************************************************************************)

\* The place of every selection: the account that is asked is one of its own,
\* and while it is asked the loop of CheckLabels does not run.
Cursor ==
    \A q \in Select :
        /\ sel[q].index \in 1 .. Candidates[q] + 1
        /\ sel[q].requesting => sel[q].pc = "free" /\ sel[q].index <= Candidates[q]
        /\ q \notin made => sel[q] = NoCallback

\* What a handler brings: only a session of a selection is redirected, a result
\* is an answer, and a positive one was said.
Handlers ==
    \A h \in run :
        /\ h.do = "redirect" => h.s \in Sub
        /\ h.do = "result" => h.ans \in Answers \cup {"error"}
        /\ h.do = "result" /\ h.s \in Sub /\ h.ans \in {"yes8", "yes9"} => h.s \in said

\* A session that knows of a connection is open, or somebody handles it.
Alive == open \cup {h.s : h \in run}
FlagIsAlive == \A s \in Served : flag[s] => s \in Alive

\* An open selection was made and is not answered yet.
NotYet ==
    \A q \in Select : /\ q \in open => q \in made
                      /\ q \in open \/ q \notin made => answered[q] = 0

SInv == /\ SessionTypeOK /\ IsFiniteSet(open)
        /\ Cursor /\ Handlers /\ FlagIsAlive /\ NotYet
        /\ SelectionAnsweredOnce

-----------------------------------------------------------------------------
\* The types of what the abilities and the handlers are.
PeerState == {"none", "connecting", "refused", "down"} \cup Up
HandlerType == [s : Served, do : {"connected", "result", "redirect", "close"},
                ans : Answers \cup {"error", Nobody}]

\* A session under an account of a selection.
LEMMA SubSessions ==
    /\ \A q \in Select : \A i \in 1 .. Candidates[q] : <<q, i>> \in Sub /\ i \in Index
    /\ \A s \in Sub : s[1] \in Select
BY AuthenticatorSessionConstants DEF Sub, Index

\* What Keep leaves: the connection of no session that is destroyed.
LEMMA Kept ==
    ASSUME NEW S, NEW R, NEW f \in [Served -> BOOLEAN], NEW a \in [Served -> PeerState],
           \A s \in Served : f[s] => s \in Alive,
           Keep(S, R, f, a)
    PROVE  /\ open' = S /\ run' = R
           /\ flag' \in [Served -> BOOLEAN] /\ peer' \in [Served -> PeerState]
           /\ FlagIsAlive'
<1> DEFINE gone == {s \in open \cup {h.s : h \in run} : s \notin S /\ s \notin {h.s : h \in R}}
<1>1. /\ open' = S /\ run' = R
      /\ flag' = [s \in Served |-> s \notin gone /\ f[s]]
      /\ peer' = [s \in Served |-> IF s \in gone /\ f[s] THEN "none" ELSE a[s]]
  BY DEF Keep
<1> HIDE DEF gone
<1>2. flag' \in [Served -> BOOLEAN]
  BY <1>1
<1>3. peer' \in [Served -> PeerState]
  BY <1>1 DEF PeerState
<1>4. ASSUME NEW s \in Served, flag'[s] PROVE s \in S \/ s \in {h.s : h \in R}
  <2>1. s \notin gone /\ f[s]
    BY <1>1, <1>4
  <2> QED BY <2>1 DEF gone, Alive
<1>5. FlagIsAlive'
  BY <1>1, <1>4 DEF FlagIsAlive, Alive
<1> QED BY <1>1, <1>2, <1>3, <1>5

\* The room for one session more.
LEMMA OpenOne ==
    ASSUME IsFiniteSet(open), ~Full, NEW s
    PROVE  IsFiniteSet(open \cup {s}) /\ Cardinality(open \cup {s}) <= MaxSessions
<1>1. Cardinality(open) \in Nat /\ MaxSessions \in Nat
  BY FS_CardinalityType, AuthenticatorSessionConstants
<1>2. Cardinality(open) + 1 <= MaxSessions
  BY <1>1, AuthenticatorSessionConstants DEF Full
<1>3. CASE s \in open
  <2>1. open \cup {s} = open
    BY <1>3
  <2>2. Cardinality(open) <= MaxSessions
    BY <1>1, <1>2
  <2> QED BY <2>1, <2>2
<1>4. CASE s \notin open
  BY <1>1, <1>2, <1>4, FS_AddElement
<1> QED BY <1>3, <1>4

LEMMA CloseOne ==
    ASSUME IsFiniteSet(open), Cardinality(open) <= MaxSessions, NEW s
    PROVE  IsFiniteSet(open \ {s}) /\ Cardinality(open \ {s}) <= MaxSessions
<1>1. Cardinality(open) \in Nat /\ MaxSessions \in Nat
  BY FS_CardinalityType, AuthenticatorSessionConstants
<1>2. CASE s \in open
  <2>1. IsFiniteSet(open \ {s}) /\ Cardinality(open \ {s}) = Cardinality(open) - 1
    BY <1>2, FS_RemoveElement
  <2> QED BY <1>1, <2>1
<1>3. CASE s \notin open
  <2>1. open \ {s} = open
    BY <1>3
  <2> QED BY <2>1
<1> QED BY <1>2, <1>3

\* The callback after an answer: the next account, or the end of the selection.
LEMMA TakenOK ==
    ASSUME SessionTypeOK, Cursor, NEW s \in Sub, NEW ans
    PROVE  LET q == s[1]  t == Taken(q, s, ans) IN
           /\ q \in Select /\ t \in Callback
           /\ t.index \in 1 .. Candidates[q] + 1
           /\ t.requesting => t.pc = "free" /\ t.index <= Candidates[q]
           /\ \A i \in t.labelled : \/ i \in sel[q].labelled
                                    \/ ans = "yes8"
                                    \/ ans = "yes9" /\ s = <<q, i>>
<1> DEFINE q == s[1]
           i == sel[q].index
<1>1. q \in Select /\ sel[q] \in Callback /\ i \in 1 .. Candidates[q] + 1 /\ Candidates[q] \in Nat
  BY SubSessions, AuthenticatorSessionConstants DEF SessionTypeOK, Cursor
<1>2. CASE ~sel[q].requesting
  BY <1>1, <1>2 DEF Taken, Cursor
<1>3. CASE sel[q].requesting /\ ans = "error"
  BY <1>1, <1>3 DEF Taken, Callback
<1>4. CASE sel[q].requesting /\ ans # "error"
  <2> HIDE DEF q, i
  <2>a. i <= Candidates[q]
    BY <1>1, <1>4 DEF Cursor, i
  <2>b. i \in 1 .. Candidates[q]
    BY <1>1, <2>a
  <2>1. i \in 1 .. Candidates[q] /\ i \in Index
    BY <1>1, <2>b, SubSessions
  <2>2. PICK y \in SUBSET {i} :
          /\ Taken(q, s, ans) = [sel[q] EXCEPT !.requesting = FALSE, !.by = s, !.pc = "check",
                                               !.index = i + 1, !.labelled = @ \cup y]
          /\ y # {} => ans = "yes8" \/ (ans = "yes9" /\ s = <<q, i>>)
    <3>1. CASE ans = "yes8" \/ (ans = "yes9" /\ s = <<q, i>>)
      BY <1>1, <1>4, <3>1 DEF Taken, i
    <3>2. CASE ~(ans = "yes8" \/ (ans = "yes9" /\ s = <<q, i>>))
      <4>1. sel[q].labelled = sel[q].labelled \cup {}
        OBVIOUS
      <4> QED BY <1>1, <1>4, <3>2, <4>1 DEF Taken, i
    <3> QED BY <3>1, <3>2
  <2>3. Taken(q, s, ans) \in Callback
    <3>1. i + 1 \in Index \cup {j + 1 : j \in Index} \cup {1}
      BY <2>1
    <3>2. sel[q].labelled \cup y \in SUBSET Index
      BY <1>1, <2>1 DEF Callback
    <3> QED BY <1>1, <2>2, <3>1, <3>2 DEF Callback
  <2>4. /\ Taken(q, s, ans).requesting = FALSE
        /\ Taken(q, s, ans).index = i + 1
        /\ Taken(q, s, ans).labelled = sel[q].labelled \cup y
    BY <1>1, <2>2 DEF Callback
  <2> QED BY <1>1, <2>1, <2>2, <2>3, <2>4 DEF q, i
<1> QED BY <1>2, <1>3, <1>4

LEMMA OpenSessionOK ==
    ASSUME SInv, NEW p \in Plain, OpenSession(p)
    PROVE  SInv'
<1> USE AuthenticatorSessionConstants, SessionsAreDistinct DEF SInv, OpenSession, Client
<1>a. IsFiniteSet(open') /\ Cardinality(open') <= MaxSessions
  <2>1. CASE open' = open
    BY <2>1 DEF SessionTypeOK
  <2>2. CASE open' # open
    <3>1. ~Full /\ open' = open \cup {p}
      BY <2>2
    <3> QED BY <3>1, OpenOne
  <2> QED BY <2>1, <2>2
<1>1. SessionTypeOK'
  BY <1>a DEF SessionTypeOK, Session, Served, Up
<1>2. Cursor' /\ Handlers'
  BY DEF Cursor, Handlers
<1>3. FlagIsAlive'
  BY DEF FlagIsAlive, Alive
<1>4. NotYet' /\ SelectionAnsweredOnce'
  BY DEF NotYet, SelectionAnsweredOnce
<1> QED BY <1>a, <1>1, <1>2, <1>3, <1>4

LEMMA SelectAccountsByOptionsOK ==
    ASSUME SInv, NEW q \in Select, SelectAccountsByOptions(q)
    PROVE  SInv'
<1> USE AuthenticatorSessionConstants, SessionsAreDistinct
    DEF SInv, SelectAccountsByOptions, Client
<1>a. IsFiniteSet(open') /\ Cardinality(open') <= MaxSessions
  BY OpenOne
<1>b. sel[q] \in Callback /\ sel' = [sel EXCEPT ![q] = [sel[q] EXCEPT !.pc = "check"]]
  BY DEF SessionTypeOK
<1>c. [sel[q] EXCEPT !.pc = "check"] \in Callback
  BY <1>b DEF Callback
<1>1. SessionTypeOK'
  BY <1>a, <1>b, <1>c DEF SessionTypeOK, Session
<1>2. Cursor'
  <2>1. sel[q].pc = "none" /\ ~sel[q].requesting
    BY DEF Cursor, NoCallback
  <2> QED BY <1>b, <2>1 DEF Cursor, Callback, SessionTypeOK
<1>3. Handlers' /\ FlagIsAlive'
  BY DEF Handlers, FlagIsAlive, Alive
<1>4. NotYet' /\ SelectionAnsweredOnce'
  BY DEF NotYet, SelectionAnsweredOnce, SessionTypeOK
<1> QED BY <1>a, <1>1, <1>2, <1>3, <1>4

LEMMA SelectCrashOK ==
    ASSUME SInv, NEW q \in Select, SelectCrash(q)
    PROVE  SInv'
<1> USE AuthenticatorSessionConstants DEF SInv, SelectCrash, Client
<1>1. IsFiniteSet(open') /\ Cardinality(open') <= MaxSessions
  BY FS_EmptySet
<1>2. NoCallback \in Callback
  BY DEF NoCallback, Callback
<1>3. SessionTypeOK'
  BY <1>1, <1>2 DEF SessionTypeOK, Up
<1>4. Cursor' /\ Handlers' /\ FlagIsAlive'
  BY DEF Cursor, NoCallback, Handlers, FlagIsAlive
<1>5. NotYet' /\ SelectionAnsweredOnce'
  BY DEF NotYet, SelectionAnsweredOnce, SessionTypeOK
<1> QED BY <1>1, <1>3, <1>4, <1>5

LEMMA CheckLabelsOK ==
    ASSUME SInv, NEW q \in Select, CheckLabels(q)
    PROVE  SInv'
<1> USE AuthenticatorSessionConstants, SessionsAreDistinct DEF SInv
<1> DEFINE i == sel[q].index
<1>a. /\ sel[q] \in Callback /\ sel[q].pc = "check" /\ q \in made
      /\ i \in 1 .. Candidates[q] + 1 /\ Candidates[q] \in Nat
      /\ ~sel[q].requesting
  BY DEF CheckLabels, SessionTypeOK, Cursor, NoCallback
<1>b. UNCHANGED <<made, flag, run, answered, dead, said>>
  BY DEF CheckLabels
<1>c. PICK t \in Callback :
        /\ sel' = [sel EXCEPT ![q] = t]
        /\ t.index \in 1 .. Candidates[q] + 1
        /\ t.requesting => t.pc = "free" /\ t.index <= Candidates[q]
        /\ t.labelled = sel[q].labelled
  <2>0. i <= Candidates[q] => i \in 1 .. Candidates[q] /\ i \in Index
    <3> HIDE DEF i
    <3>1. i <= Candidates[q] => i \in 1 .. Candidates[q]
      BY <1>a
    <3> QED BY <3>1, SubSessions
  <2>1. CASE sel' = [sel EXCEPT ![q].pc = "send"]
    <3> DEFINE t == [sel[q] EXCEPT !.pc = "send"]
    <3>1. t \in Callback /\ t.index = i /\ ~t.requesting /\ t.labelled = sel[q].labelled
      BY <1>a DEF Callback
    <3>2. sel' = [sel EXCEPT ![q] = t]
      BY <2>1 DEF SessionTypeOK
    <3> HIDE DEF t, i
    <3> QED BY <1>a, <3>1, <3>2
  <2>2. CASE i <= Candidates[q] /\ sel' = [sel EXCEPT ![q].index = i + 1]
    <3> DEFINE t == [sel[q] EXCEPT !.index = i + 1]
    <3>1. sel' = [sel EXCEPT ![q] = t]
      BY <2>2 DEF SessionTypeOK
    <3> HIDE DEF i
    <3>2. i + 1 \in Index \cup {j + 1 : j \in Index} \cup {1}
      BY <2>0, <2>2
    <3>3. t \in Callback /\ t.index = i + 1 /\ ~t.requesting /\ t.labelled = sel[q].labelled
      BY <1>a, <3>2 DEF Callback
    <3>4. t.index \in 1 .. Candidates[q] + 1
      BY <1>a, <2>2, <3>3
    <3> HIDE DEF t
    <3> QED BY <3>1, <3>3, <3>4
  <2>3. CASE i <= Candidates[q] /\ sel' = [sel EXCEPT ![q] =
               [sel[q] EXCEPT !.pc = "free", !.by = Nobody, !.requesting = TRUE]]
    <3> DEFINE t == [sel[q] EXCEPT !.pc = "free", !.by = Nobody, !.requesting = TRUE]
    <3>1. t \in Callback /\ t.index = i /\ t.pc = "free" /\ t.labelled = sel[q].labelled
      BY <1>a DEF Callback
    <3>2. sel' = [sel EXCEPT ![q] = t]
      BY <2>3
    <3> HIDE DEF t, i
    <3> QED BY <1>a, <2>3, <3>1, <3>2
  <2>4. SessionOutcome("open") \subseteq BOOLEAN
    BY DEF SessionOutcome
  <2> QED BY <1>a, <2>1, <2>2, <2>3, <2>4 DEF CheckLabels
<1>d. CASE open' = open /\ peer' = peer /\ mgr' = mgr
  <2>1. SessionTypeOK' /\ IsFiniteSet(open')
    BY <1>b, <1>c, <1>d DEF SessionTypeOK
  <2>2. Cursor'
    BY <1>a, <1>b, <1>c DEF Cursor, SessionTypeOK
  <2>3. Handlers' /\ FlagIsAlive' /\ NotYet' /\ SelectionAnsweredOnce'
    BY <1>b, <1>d DEF Handlers, FlagIsAlive, Alive, NotYet, SelectionAnsweredOnce
  <2> QED BY <2>1, <2>2, <2>3
<1>e. CASE /\ ~Full /\ i <= Candidates[q]
           /\ open' = open \cup {<<q, i>>} /\ mgr' = Nobody
           /\ peer' = [peer EXCEPT ![<<q, i>>] = "connecting"]
  <2>1. <<q, i>> \in Sub
    BY <1>a, <1>e, SubSessions
  <2>2. IsFiniteSet(open') /\ Cardinality(open') <= MaxSessions
    BY <1>e, OpenOne
  <2>3. SessionTypeOK'
    BY <1>b, <1>c, <1>e, <2>1, <2>2 DEF SessionTypeOK, Session, Served
  <2>4. Cursor'
    BY <1>a, <1>b, <1>c DEF Cursor, SessionTypeOK
  <2>5. Handlers' /\ FlagIsAlive'
    BY <1>b, <1>e DEF Handlers, FlagIsAlive, Alive
  <2>6. \A r \in Select : r \in open' <=> r \in open
    BY <1>e, <2>1 DEF Client
  <2>7. NotYet' /\ SelectionAnsweredOnce'
    BY <1>b, <2>6 DEF NotYet, SelectionAnsweredOnce
  <2> QED BY <2>2, <2>3, <2>4, <2>5, <2>7
<1>f. \/ open' = open /\ peer' = peer /\ mgr' = mgr
      \/ /\ ~Full /\ i <= Candidates[q]
         /\ open' = open \cup {<<q, i>>} /\ mgr' = Nobody
         /\ peer' = [peer EXCEPT ![<<q, i>>] = "connecting"]
  <2>1. CASE i > Candidates[q]
    BY <2>1 DEF CheckLabels
  <2>2. CASE i <= Candidates[q]
    <3>1. ~(i > Candidates[q])
      BY <1>a, <2>2
    <3> QED BY <2>2, <3>1 DEF CheckLabels
  <2> QED BY <1>a, <2>1, <2>2
<1> QED BY <1>d, <1>e, <1>f

LEMMA SendResultOK ==
    ASSUME SInv, NEW q \in Select, SendResult(q)
    PROVE  SInv'
<1> USE AuthenticatorSessionConstants, SessionsAreDistinct DEF SInv
<1>a. /\ flag \in [Served -> BOOLEAN] /\ peer \in [Served -> PeerState]
      /\ \A s \in Served : flag[s] => s \in Alive
      /\ Keep(open \ {q}, run, flag, peer)
  BY DEF SessionTypeOK, PeerState, FlagIsAlive, SendResult
<1>b. /\ open' = open \ {q} /\ run' = run /\ FlagIsAlive'
      /\ flag' \in [Served -> BOOLEAN] /\ peer' \in [Served -> PeerState]
  BY <1>a, Kept
<1>c. IsFiniteSet(open') /\ Cardinality(open') <= MaxSessions
  BY <1>b, CloseOne DEF SessionTypeOK
<1>d. /\ sel[q] \in Callback /\ sel[q].pc = "send" /\ q \in made
      /\ ~sel[q].requesting
  BY DEF SendResult, SessionTypeOK, Cursor, NoCallback
<1>e. PICK t \in Callback :
        /\ sel' = [sel EXCEPT ![q] = t] /\ t.index = sel[q].index
        /\ ~t.requesting /\ t.labelled = sel[q].labelled
  <2>1. sel' = [sel EXCEPT ![q] = [sel[q] EXCEPT !.pc = "free", !.by = Nobody]]
    BY DEF SendResult, SessionTypeOK
  <2> DEFINE t == [sel[q] EXCEPT !.pc = "free", !.by = Nobody]
  <2>2. t \in Callback /\ t.index = sel[q].index /\ ~t.requesting /\ t.labelled = sel[q].labelled
    BY <1>d DEF Callback
  <2>3. sel' = [sel EXCEPT ![q] = t]
    BY <2>1
  <2> HIDE DEF t
  <2> QED BY <2>2, <2>3
<1>f. /\ answered' = [answered EXCEPT ![q] = IF q \in open THEN @ + 1 ELSE @]
      /\ mgr' = Nobody
      /\ UNCHANGED <<made, dead, said>>
  BY DEF SendResult
<1>1. SessionTypeOK'
  <2>1. answered' \in [Select -> Nat]
    BY <1>f DEF SessionTypeOK
  <2> QED BY <1>b, <1>c, <1>e, <1>f, <2>1 DEF SessionTypeOK, PeerState
<1>2. Cursor'
  BY <1>d, <1>e, <1>f DEF Cursor, SessionTypeOK
<1>3. Handlers'
  BY <1>b, <1>f DEF Handlers
<1>4. NotYet' /\ SelectionAnsweredOnce'
  BY <1>b, <1>d, <1>f DEF NotYet, SelectionAnsweredOnce, SessionTypeOK
<1> QED BY <1>b, <1>c, <1>1, <1>2, <1>3, <1>4

\* An event: a handler more, or none.
LEMMA EventOK ==
    ASSUME SessionTypeOK, Handlers, FlagIsAlive, NEW s \in Served,
           NEW do \in {"connected", "result", "redirect", "close"},
           NEW ans \in Answers \cup {"error", Nobody}, Event(s, do, ans),
           do = "redirect" => s \in Sub,
           do = "result" => ans \in Answers \cup {"error"},
           do = "result" /\ s \in Sub /\ ans \in {"yes8", "yes9"} => s \in said',
           UNCHANGED <<open, flag>>, said \subseteq said'
    PROVE  run' \subseteq HandlerType /\ Handlers' /\ FlagIsAlive'
<1>1. run' \subseteq run \cup {Handler(s, do, ans)} /\ run \subseteq run'
  BY DEF Event
<1>2. Handler(s, do, ans) \in HandlerType
  BY DEF Handler, HandlerType
<1>3. run' \subseteq HandlerType
  BY <1>1, <1>2 DEF SessionTypeOK, HandlerType
<1>4. Handlers'
  BY <1>1 DEF Handlers, Handler
<1>5. FlagIsAlive'
  BY <1>1 DEF FlagIsAlive, Alive
<1> QED BY <1>3, <1>4, <1>5

\* A step of an authenticator changes no selection.
LEMMA PeerStepOK ==
    ASSUME SInv, run' \subseteq HandlerType, Handlers', FlagIsAlive',
           UNCHANGED <<made, open, mgr, sel, answered, dead>>,
           flag' \in [Served -> BOOLEAN], peer' \in [Served -> PeerState], said' \subseteq Sub
    PROVE  SInv'
<1>1. SessionTypeOK' /\ IsFiniteSet(open')
  BY DEF SInv, SessionTypeOK, PeerState, HandlerType
<1>2. Cursor' /\ NotYet' /\ SelectionAnsweredOnce'
  BY DEF SInv, Cursor, NotYet, SelectionAnsweredOnce
<1> QED BY <1>1, <1>2 DEF SInv

LEMMA AbilityConnectedOK ==
    ASSUME SInv, NEW s \in Served, AbilityConnected(s)
    PROVE  SInv'
<1>1. /\ UNCHANGED <<made, open, mgr, flag, sel, answered, dead, said>>
      /\ Event(s, "connected", Nobody)
      /\ peer' \in [Served -> PeerState]
  BY DEF AbilityConnected, SInv, SessionTypeOK, PeerState, Up
<1>2. run' \subseteq HandlerType /\ Handlers' /\ FlagIsAlive'
  BY <1>1, EventOK DEF SInv
<1> QED BY <1>1, <1>2, PeerStepOK DEF SInv, SessionTypeOK

LEMMA ConnectAbilityFailsOK ==
    ASSUME SInv, NEW s \in Served, ConnectAbilityFails(s)
    PROVE  SInv'
<1>1. /\ UNCHANGED <<made, open, mgr, flag, run, sel, answered, dead, said>>
      /\ peer' \in [Served -> PeerState]
  BY DEF ConnectAbilityFails, SInv, SessionTypeOK, PeerState
<1>2. run' \subseteq HandlerType /\ Handlers' /\ FlagIsAlive'
  BY <1>1 DEF SInv, SessionTypeOK, HandlerType, Handlers, FlagIsAlive, Alive
<1> QED BY <1>1, <1>2, PeerStepOK DEF SInv, SessionTypeOK

LEMMA AuthenticatorAnswersOK ==
    ASSUME SInv, NEW s \in Served, AuthenticatorAnswers(s)
    PROVE  SInv'
<1>1. PICK ans \in Answers :
        /\ Event(s, "result", ans)
        /\ said' = IF s \in Sub /\ ans \in {"yes8", "yes9"} THEN said \cup {s} ELSE said
  BY DEF AuthenticatorAnswers
<1>2. /\ UNCHANGED <<made, open, mgr, flag, sel, answered, dead>>
      /\ peer' \in [Served -> PeerState]
  BY DEF AuthenticatorAnswers, SInv, SessionTypeOK, PeerState, Up
<1>3. /\ said \subseteq said' /\ said' \subseteq Sub
      /\ s \in Sub /\ ans \in {"yes8", "yes9"} => s \in said'
  BY <1>1 DEF SInv, SessionTypeOK
<1>4. run' \subseteq HandlerType /\ Handlers' /\ FlagIsAlive'
  BY <1>1, <1>2, <1>3, EventOK DEF SInv
<1> QED BY <1>2, <1>3, <1>4, PeerStepOK DEF SInv, SessionTypeOK

LEMMA AuthenticatorRedirectsOK ==
    ASSUME SInv, NEW s \in Served, AuthenticatorRedirects(s)
    PROVE  SInv'
<1>1. /\ UNCHANGED <<made, open, mgr, flag, sel, answered, dead, said>>
      /\ Event(s, "redirect", Nobody) /\ s \in Sub
      /\ peer' \in [Served -> PeerState]
  BY DEF AuthenticatorRedirects, SInv, SessionTypeOK, PeerState, Up
<1>2. run' \subseteq HandlerType /\ Handlers' /\ FlagIsAlive'
  BY <1>1, EventOK DEF SInv
<1> QED BY <1>1, <1>2, PeerStepOK DEF SInv, SessionTypeOK

LEMMA AuthenticatorDiesOK ==
    ASSUME SInv, NEW s \in Served, AuthenticatorDies(s)
    PROVE  SInv'
<1>1. /\ UNCHANGED <<made, open, mgr, flag, sel, answered, dead, said>>
      /\ Event(s, "result", "error")
      /\ peer' \in [Served -> PeerState]
  BY DEF AuthenticatorDies, SInv, SessionTypeOK, PeerState
<1>2. run' \subseteq HandlerType /\ Handlers' /\ FlagIsAlive'
  BY <1>1, EventOK DEF SInv
<1> QED BY <1>1, <1>2, PeerStepOK DEF SInv, SessionTypeOK

LEMMA OnAbilityDisconnectDoneOK ==
    ASSUME SInv, NEW s \in Served, OnAbilityDisconnectDone(s)
    PROVE  SInv'
<1>1. UNCHANGED <<made, open, mgr, run, sel, peer, answered, dead, said>>
  BY DEF OnAbilityDisconnectDone
<1>2. flag' \in [Served -> BOOLEAN] /\ \A r \in Served : flag'[r] => flag[r]
  BY DEF OnAbilityDisconnectDone, SInv, SessionTypeOK
<1>3. Handlers' /\ FlagIsAlive'
  BY <1>1, <1>2 DEF SInv, Handlers, FlagIsAlive, Alive
<1>4. run' \subseteq HandlerType /\ peer' \in [Served -> PeerState] /\ said' \subseteq Sub
  BY <1>1 DEF SInv, SessionTypeOK, HandlerType, PeerState
<1> QED BY <1>1, <1>2, <1>3, <1>4, PeerStepOK

LEMMA ClientDiesOK ==
    ASSUME SInv, NEW c \in Client, ClientDies(c)
    PROVE  SInv'
<1> USE DEF SInv
<1>a. /\ flag \in [Served -> BOOLEAN] /\ peer \in [Served -> PeerState]
      /\ \A s \in Served : flag[s] => s \in Alive
      /\ Keep(open \ {c}, run, flag, peer)
  BY DEF SessionTypeOK, PeerState, FlagIsAlive, ClientDies
<1>b. /\ open' = open \ {c} /\ run' = run /\ FlagIsAlive'
      /\ flag' \in [Served -> BOOLEAN] /\ peer' \in [Served -> PeerState]
  BY <1>a, Kept
<1>c. IsFiniteSet(open') /\ Cardinality(open') <= MaxSessions
  BY <1>b, CloseOne DEF SessionTypeOK
<1>d. dead' = dead \cup {c} /\ UNCHANGED <<made, mgr, sel, answered, said>>
  BY DEF ClientDies
<1>1. SessionTypeOK'
  BY <1>b, <1>c, <1>d DEF SessionTypeOK, PeerState
<1>2. Cursor' /\ Handlers'
  BY <1>b, <1>d DEF Cursor, Handlers
<1>3. NotYet' /\ SelectionAnsweredOnce'
  <2>1. c \in open
    BY DEF ClientDies
  <2> QED BY <1>b, <1>d, <2>1 DEF NotYet, SelectionAnsweredOnce
<1> QED BY <1>b, <1>c, <1>1, <1>2, <1>3

\* What an answer changes in the selection that asked for it.
LEMMA SelectionGoesOn ==
    ASSUME SInv, NEW s \in Sub, NEW ans, sel[s[1]].pc = "free",
           sel' = [sel EXCEPT ![s[1]] = Taken(s[1], s, ans)], made' = made
    PROVE  sel' \in [Select -> Callback] /\ Cursor'
<1> DEFINE q == s[1]
           t == Taken(q, s, ans)
<1>1. /\ q \in Select /\ t \in Callback
      /\ t.index \in 1 .. Candidates[q] + 1
      /\ t.requesting => t.pc = "free" /\ t.index <= Candidates[q]
  BY TakenOK DEF SInv
<1>2. q \in made
  BY <1>1 DEF SInv, Cursor, NoCallback
<1>3. sel' = [sel EXCEPT ![q] = t] /\ sel \in [Select -> Callback]
  BY DEF SInv, SessionTypeOK
<1> HIDE DEF t, q
<1>4. sel' \in [Select -> Callback]
  BY <1>1, <1>3
<1>5. Cursor'
  BY <1>1, <1>2, <1>3 DEF SInv, Cursor
<1> QED BY <1>4, <1>5

\* A handler ends or goes on: what it leaves, when the session stays or is
\* closed, is up to Keep.
LEMMA HandlerStepOK ==
    ASSUME SInv, NEW h \in run, NEW S, NEW R, NEW f \in [Served -> BOOLEAN],
           NEW a \in [Served -> PeerState], Keep(S, R, f, a),
           \A s \in Served : f[s] => flag[s] \/ s = h.s,
           IsFiniteSet(S), S \subseteq open, Cardinality(S) <= MaxSessions,
           \A q \in Select : q \in S <=> q \in open,
           R \subseteq run \cup {Handler(h.s, "result", "error"), Handler(h.s, "close", Nobody)},
           sel' \in [Select -> Callback], Cursor',
           UNCHANGED <<made, mgr, answered, dead, said>>
    PROVE  SInv'
<1> USE DEF SInv
<1>1. h \in HandlerType
  BY DEF SessionTypeOK, HandlerType
<1>2. \A s \in Served : f[s] => s \in Alive
  BY DEF FlagIsAlive, Alive
<1>3. /\ open' = S /\ run' = R /\ FlagIsAlive'
      /\ flag' \in [Served -> BOOLEAN] /\ peer' \in [Served -> PeerState]
  BY <1>2, Kept
<1>4. IsFiniteSet(open') /\ Cardinality(open') <= MaxSessions
  BY <1>3
<1>5. /\ Handler(h.s, "result", "error") \in HandlerType
      /\ Handler(h.s, "close", Nobody) \in HandlerType
  BY <1>1 DEF Handler, HandlerType
<1>6. run' \subseteq HandlerType
  BY <1>3, <1>5 DEF SessionTypeOK, HandlerType
<1>7. SessionTypeOK'
  BY <1>3, <1>4, <1>6 DEF SessionTypeOK, HandlerType, PeerState
<1>8. Handlers'
  BY <1>3 DEF Handlers, Handler
<1>9. \A q \in Select : q \in open' <=> q \in open
  BY <1>3
<1>10. NotYet' /\ SelectionAnsweredOnce'
  BY <1>9 DEF NotYet, SelectionAnsweredOnce
<1> QED BY <1>3, <1>4, <1>7, <1>8, <1>10

LEMMA OnAbilityConnectDoneOK ==
    ASSUME SInv, NEW h \in run, OnAbilityConnectDone(h)
    PROVE  SInv'
<1>0. IsFiniteSet(open) /\ Cardinality(open) <= MaxSessions /\ SInv
  BY DEF SInv, SessionTypeOK
<1> DEFINE f == [flag EXCEPT ![h.s] = TRUE]
           b == [peer EXCEPT ![h.s] = "asked"]
<1>1. /\ f \in [Served -> BOOLEAN] /\ b \in [Served -> PeerState] /\ peer \in [Served -> PeerState]
      /\ \A s \in Served : f[s] => flag[s] \/ s = h.s
  BY DEF SInv, SessionTypeOK, PeerState, Up
<1>2. /\ UNCHANGED <<made, mgr, sel, answered, dead, said>>
      /\ sel' \in [Select -> Callback] /\ Cursor'
  BY DEF OnAbilityConnectDone, SInv, SessionTypeOK, Cursor
<1>3. \/ Keep(open, run \ {h}, f, b)
      \/ Keep(open, (run \ {h}) \cup {Handler(h.s, "result", "error")}, f, peer)
  BY DEF OnAbilityConnectDone
<1> HIDE DEF f, b
<1>4. CASE Keep(open, run \ {h}, f, b)
  <2>1. run \ {h} \subseteq run \cup {Handler(h.s, "result", "error"), Handler(h.s, "close", Nobody)}
    OBVIOUS
  <2> QED BY <1>0, <1>1, <1>2, <1>4, <2>1, HandlerStepOK
<1>5. CASE Keep(open, (run \ {h}) \cup {Handler(h.s, "result", "error")}, f, peer)
  <2> DEFINE R == (run \ {h}) \cup {Handler(h.s, "result", "error")}
  <2>1. R \subseteq run \cup {Handler(h.s, "result", "error"), Handler(h.s, "close", Nobody)}
    OBVIOUS
  <2>2. Keep(open, R, f, peer)
    BY <1>5
  <2> HIDE DEF R
  <2> QED BY <1>0, <1>1, <1>2, <2>1, <2>2, HandlerStepOK
<1> QED BY <1>3, <1>4, <1>5

LEMMA OnResultOK ==
    ASSUME SInv, NEW h \in run, OnResult(h)
    PROVE  SInv'
<1>0. IsFiniteSet(open) /\ Cardinality(open) <= MaxSessions /\ SInv
  BY DEF SInv, SessionTypeOK
<1> DEFINE R == (run \ {h}) \cup {Handler(h.s, "close", Nobody)}
<1>1. h.s \in Served /\ flag \in [Served -> BOOLEAN] /\ peer \in [Served -> PeerState]
  BY DEF SInv, SessionTypeOK, PeerState
<1>2. UNCHANGED <<made, mgr, answered, dead, said>> /\ Keep(open, R, flag, peer)
  BY DEF OnResult
<1>3. R \subseteq run \cup {Handler(h.s, "result", "error"), Handler(h.s, "close", Nobody)}
  OBVIOUS
<1>4. sel' \in [Select -> Callback] /\ Cursor'
  <2>1. CASE h.s \in Plain
    BY <1>2, <2>1 DEF OnResult, SInv, SessionTypeOK, Cursor
  <2>2. CASE h.s \notin Plain
    <3>1. h.s \in Sub
      BY <1>1, <2>2 DEF Served
    <3>2. sel[h.s[1]].pc = "free" /\ sel' = [sel EXCEPT ![h.s[1]] = Taken(h.s[1], h.s, h.ans)]
      BY <2>2 DEF OnResult
    <3> QED BY <1>2, <3>1, <3>2, SelectionGoesOn
  <2> QED BY <2>1, <2>2
<1> HIDE DEF R
<1> QED BY <1>0, <1>1, <1>2, <1>3, <1>4, HandlerStepOK

LEMMA OnResultCloseOK ==
    ASSUME SInv, NEW h \in run, OnResultClose(h)
    PROVE  SInv'
<1> DEFINE b == [peer EXCEPT ![h.s] = IF flag[h.s] THEN "none" ELSE @]
<1>1. /\ h.s \in Served /\ flag \in [Served -> BOOLEAN] /\ b \in [Served -> PeerState]
  BY DEF SInv, SessionTypeOK, PeerState
<1>2. /\ UNCHANGED <<made, mgr, sel, answered, dead, said>>
      /\ sel' \in [Select -> Callback] /\ Cursor'
      /\ Keep(open \ {h.s}, run \ {h}, flag, b)
  BY DEF OnResultClose, SInv, SessionTypeOK, Cursor
<1>3. h.s \notin Select
  BY <1>1, AuthenticatorSessionConstants, SessionsAreDistinct DEF Served, Client
<1>4. run \ {h} \subseteq run \cup {Handler(h.s, "result", "error"), Handler(h.s, "close", Nobody)}
  OBVIOUS
<1>5. IsFiniteSet(open \ {h.s}) /\ Cardinality(open \ {h.s}) <= MaxSessions
  BY CloseOne DEF SInv, SessionTypeOK
<1> HIDE DEF b
<1> QED BY <1>5, <1>1, <1>2, <1>3, <1>4, HandlerStepOK

LEMMA OnRequestRedirectedOK ==
    ASSUME SInv, NEW h \in run, OnRequestRedirected(h)
    PROVE  SInv'
<1>0. IsFiniteSet(open) /\ Cardinality(open) <= MaxSessions /\ SInv
  BY DEF SInv, SessionTypeOK
<1>1. h.s \in Sub /\ flag \in [Served -> BOOLEAN] /\ peer \in [Served -> PeerState]
  BY DEF OnRequestRedirected, SInv, Handlers, SessionTypeOK, PeerState
<1>2. UNCHANGED <<made, mgr, answered, dead, said>> /\ Keep(open, run \ {h}, flag, peer)
  BY DEF OnRequestRedirected
<1>3. run \ {h} \subseteq run \cup {Handler(h.s, "result", "error"), Handler(h.s, "close", Nobody)}
  OBVIOUS
<1>4. sel' \in [Select -> Callback] /\ Cursor'
  BY <1>1, <1>2, SelectionGoesOn DEF OnRequestRedirected
<1> QED BY <1>0, <1>1, <1>2, <1>3, <1>4, HandlerStepOK

-----------------------------------------------------------------------------
LEMMA SInvInit == SessionInit => SInv
<1> SUFFICES ASSUME SessionInit PROVE SInv
  OBVIOUS
<1> USE AuthenticatorSessionConstants DEF SessionInit
<1>1. IsFiniteSet(open) /\ Cardinality(open) <= MaxSessions
  BY FS_EmptySet
<1>2. NoCallback \in Callback
  BY DEF NoCallback, Callback
<1>3. SessionTypeOK
  BY <1>1, <1>2 DEF SessionTypeOK, Up
<1>4. Cursor /\ Handlers /\ FlagIsAlive
  BY DEF Cursor, NoCallback, Handlers, FlagIsAlive
<1>5. NotYet /\ SelectionAnsweredOnce
  BY DEF NotYet, SelectionAnsweredOnce
<1> QED BY <1>1, <1>3, <1>4, <1>5 DEF SInv

LEMMA SInvStep == SInv /\ [SessionNext]_sessionVars => SInv'
<1> SUFFICES ASSUME SInv, [SessionNext]_sessionVars PROVE SInv'
  OBVIOUS
<1>1. CASE UNCHANGED sessionVars
  BY <1>1 DEF sessionVars, SInv, SessionTypeOK, Cursor, Handlers, FlagIsAlive, Alive, NotYet, SelectionAnsweredOnce
<1>2. ASSUME NEW p \in Plain, OpenSession(p) PROVE SInv'
  BY <1>2, OpenSessionOK
<1>3. ASSUME NEW q \in Select, SelectAccountsByOptions(q) \/ SelectCrash(q) PROVE SInv'
  BY <1>3, SelectAccountsByOptionsOK, SelectCrashOK
<1>4. ASSUME NEW q \in Select, CheckLabels(q) \/ SendResult(q) PROVE SInv'
  BY <1>4, CheckLabelsOK, SendResultOK
<1>5. ASSUME NEW s \in Served,
             \/ AbilityConnected(s) \/ ConnectAbilityFails(s) \/ AuthenticatorAnswers(s) \/ AuthenticatorRedirects(s)
             \/ AuthenticatorDies(s) \/ OnAbilityDisconnectDone(s)
      PROVE  SInv'
  BY <1>5, AbilityConnectedOK, ConnectAbilityFailsOK, AuthenticatorAnswersOK, AuthenticatorRedirectsOK,
     AuthenticatorDiesOK, OnAbilityDisconnectDoneOK
<1>6. ASSUME NEW c \in Client, ClientDies(c) PROVE SInv'
  BY <1>6, ClientDiesOK
<1>7. ASSUME NEW h \in run, Handle(h) PROVE SInv'
  BY <1>7, OnAbilityConnectDoneOK, OnResultOK, OnResultCloseOK, OnRequestRedirectedOK DEF Handle
<1> QED BY <1>1, <1>2, <1>3, <1>4, <1>5, <1>6, <1>7 DEF SessionNext

LEMMA SInvHolds == SessionSpec => []SInv
BY SInvInit, SInvStep, PTL DEF SessionSpec

\* Every action keeps the types; sessionMap_ never exceeds SESSION_MAX_NUM,
\* though CheckLabels opens sessions from within other sessions.
THEOREM SessionTypeCorrect == SessionSpec => []SessionTypeOK
<1>1. SInv => SessionTypeOK
  BY DEF SInv
<1> QED BY <1>1, SInvHolds, PTL

\* The client of a selection gets one answer, neither none nor two, unless it
\* dies or loses the service: NotYet says that an open selection was not
\* answered, and SendResult closes what it answers.
THEOREM AnsweredOnce == SessionSpec => []SelectionAnsweredOnce
<1>1. SInv => SelectionAnsweredOnce
  BY DEF SInv
<1> QED BY <1>1, SInvHolds, PTL

\* No ability stays connected for a session that is closed: the flag of a
\* session that no handler keeps is looked at when it is destroyed.
THEOREM AbilitiesAreReleased == SessionSpec => []ConnectedIsReleased
<1>1. SInv => ConnectedIsReleased
  BY DEF SInv, FlagIsAlive, Alive, ConnectedIsReleased
<1> QED BY <1>1, SInvHolds, PTL

-----------------------------------------------------------------------------
\* Where no authenticator answers with the callback of API 8, which carries no
\* name, an account is reported only if its own authenticator confirmed it.
NamesAreTold == "yes8" \notin Answers

\* An answer that is taken confirms the account under its own name.
LEMMA TakenIsConfirmed ==
    ASSUME SInv, LabelledIsConfirmed, NEW s \in Sub, NEW ans, ans # "yes8",
           ans = "yes9" => s \in said, said' = said,
           sel' = [sel EXCEPT ![s[1]] = Taken(s[1], s, ans)]
    PROVE  LabelledIsConfirmed'
<1> DEFINE q == s[1]
           t == Taken(q, s, ans)
<1>1. /\ q \in Select
      /\ \A i \in t.labelled : i \in sel[q].labelled \/ (ans = "yes9" /\ s = <<q, i>>)
  BY TakenOK DEF SInv
<1>2. sel' = [sel EXCEPT ![q] = t] /\ sel \in [Select -> Callback]
  BY DEF SInv, SessionTypeOK
<1> HIDE DEF t, q
<1>3. ASSUME NEW r \in Select, NEW i \in sel'[r].labelled PROVE <<r, i>> \in said
  <2>1. CASE r # q
    BY <1>2, <1>3, <2>1 DEF LabelledIsConfirmed
  <2>2. CASE r = q
    BY <1>1, <1>2, <1>3, <2>2 DEF LabelledIsConfirmed
  <2> QED BY <2>1, <2>2
<1> QED BY <1>3 DEF LabelledIsConfirmed

\* What leaves the labels alone and forgets no confirmation.
LEMMA LabelsStay ==
    ASSUME LabelledIsConfirmed, said \subseteq said',
           \A q \in Select : sel'[q].labelled \subseteq sel[q].labelled
    PROVE  LabelledIsConfirmed'
BY DEF LabelledIsConfirmed

LEMMA LabelledStep ==
    ASSUME NamesAreTold, SInv, LabelledIsConfirmed, [SessionNext]_sessionVars
    PROVE  LabelledIsConfirmed'
<1>0. sel \in [Select -> Callback]
  BY DEF SInv, SessionTypeOK
<1>1. CASE UNCHANGED sessionVars
  BY <1>1, LabelsStay DEF sessionVars
<1>2. ASSUME NEW p \in Plain, OpenSession(p) PROVE LabelledIsConfirmed'
  BY <1>2, LabelsStay DEF OpenSession
<1>3. ASSUME NEW q \in Select, SelectAccountsByOptions(q) PROVE LabelledIsConfirmed'
  <2>1. sel' = [sel EXCEPT ![q].pc = "check"] /\ said' = said
    BY <1>3 DEF SelectAccountsByOptions
  <2> QED BY <1>0, <2>1, LabelsStay DEF Callback
<1>4. ASSUME NEW q \in Select, SelectCrash(q) PROVE LabelledIsConfirmed'
  BY <1>4, LabelsStay DEF SelectCrash, NoCallback
<1>5. ASSUME NEW q \in Select, CheckLabels(q) PROVE LabelledIsConfirmed'
  <2>1. said' = said
    BY <1>5 DEF CheckLabels
  <2>2. \/ sel' = [sel EXCEPT ![q].pc = "send"]
        \/ sel' = [sel EXCEPT ![q].index = sel[q].index + 1]
        \/ sel' = [sel EXCEPT ![q] = [sel[q] EXCEPT !.pc = "free", !.by = Nobody, !.requesting = TRUE]]
    BY <1>5 DEF CheckLabels
  <2>3. ASSUME NEW r \in Select PROVE sel'[r].labelled \subseteq sel[r].labelled
    <3>1. sel[r] \in Callback /\ sel[q] \in Callback
      BY <1>0
    <3>2. CASE sel' = [sel EXCEPT ![q].pc = "send"]
      BY <1>0, <3>1, <3>2 DEF Callback
    <3>3. CASE sel' = [sel EXCEPT ![q].index = sel[q].index + 1]
      BY <1>0, <3>1, <3>3 DEF Callback
    <3>4. CASE sel' = [sel EXCEPT ![q] = [sel[q] EXCEPT !.pc = "free", !.by = Nobody, !.requesting = TRUE]]
      BY <1>0, <3>1, <3>4 DEF Callback
    <3> QED BY <2>2, <3>2, <3>3, <3>4
  <2> QED BY <2>1, <2>3, LabelsStay
<1>6. ASSUME NEW q \in Select, SendResult(q) PROVE LabelledIsConfirmed'
  <2>1. sel' = [sel EXCEPT ![q].pc = "free", ![q].by = Nobody] /\ said' = said
    BY <1>6 DEF SendResult
  <2> QED BY <1>0, <2>1, LabelsStay DEF Callback
<1>7. ASSUME NEW s \in Served,
             \/ AbilityConnected(s) \/ ConnectAbilityFails(s) \/ AuthenticatorAnswers(s) \/ AuthenticatorRedirects(s)
             \/ AuthenticatorDies(s) \/ OnAbilityDisconnectDone(s)
      PROVE  LabelledIsConfirmed'
  BY <1>7, LabelsStay DEF AbilityConnected, ConnectAbilityFails, AuthenticatorAnswers, AuthenticatorRedirects,
     AuthenticatorDies, OnAbilityDisconnectDone
<1>8. ASSUME NEW c \in Client, ClientDies(c) PROVE LabelledIsConfirmed'
  BY <1>8, LabelsStay DEF ClientDies
<1>9. ASSUME NEW h \in run, OnAbilityConnectDone(h) \/ OnResultClose(h) PROVE LabelledIsConfirmed'
  BY <1>9, LabelsStay DEF OnAbilityConnectDone, OnResultClose
<1>10. ASSUME NEW h \in run, OnResult(h) PROVE LabelledIsConfirmed'
  <2>1. CASE h.s \in Plain
    BY <1>10, <2>1, LabelsStay DEF OnResult
  <2>2. CASE h.s \notin Plain
    <3>1. h.s \in Sub /\ h.ans \in Answers \cup {"error", Nobody}
      BY <1>10, <2>2 DEF SInv, SessionTypeOK, Served
    <3>2. h.do = "result" /\ sel' = [sel EXCEPT ![h.s[1]] = Taken(h.s[1], h.s, h.ans)] /\ said' = said
      BY <1>10, <2>2 DEF OnResult
    <3>3. h.ans = "yes9" => h.s \in said
      BY <1>10, <3>1, <3>2 DEF SInv, Handlers
    <3>4. h.ans # "yes8"
      BY <1>10, <3>2 DEF SInv, Handlers, NamesAreTold
    <3> QED BY <3>1, <3>2, <3>3, <3>4, TakenIsConfirmed
  <2> QED BY <2>1, <2>2
<1>11. ASSUME NEW h \in run, OnRequestRedirected(h) PROVE LabelledIsConfirmed'
  <2>1. h.s \in Sub /\ sel' = [sel EXCEPT ![h.s[1]] = Taken(h.s[1], h.s, "no")] /\ said' = said
    BY <1>11 DEF OnRequestRedirected, SInv, Handlers
  <2>2. "no" # "yes8" /\ "no" # "yes9"
    OBVIOUS
  <2> QED BY <2>1, <2>2, TakenIsConfirmed
<1> QED BY <1>1, <1>2, <1>3, <1>4, <1>5, <1>6, <1>7, <1>8, <1>9, <1>10, <1>11 DEF SessionNext, Handle

\* SelectAccountsByOptions reports only accounts whose own authenticator
\* confirmed the labels, however late the answers of the others come, as long
\* as every answer carries the name of its account (API 9).
THEOREM OnlyConfirmedAreLabelled ==
    ASSUME NamesAreTold
    PROVE  SessionSpec => []LabelledIsConfirmed
<1>1. SessionInit => LabelledIsConfirmed
  BY DEF SessionInit, LabelledIsConfirmed, NoCallback
<1>2. SInv /\ LabelledIsConfirmed /\ [SessionNext]_sessionVars => LabelledIsConfirmed'
  BY LabelledStep
<1> QED BY <1>1, <1>2, SInvHolds, PTL DEF SessionSpec

-----------------------------------------------------------------------------
\* When all is quiet every session is closed.  What leads there: mutex_ of the
\* manager is held by a selection that goes on, and a selection that does not
\* go on keeps no session from being closed.
MutexMoves == mgr # Nobody => sel[mgr].pc \in {"check", "send"}
NobodyIsKept == \A q \in Select : sel[q].pc \in {"none", "free"} => sel[q].by = Nobody
SelectionIsThere == \A s \in Sub \cap Alive : sel[s[1]].pc # "none"

\* An open session waits for its ability or its authenticator, or a handler
\* will close it in the end.
Moves(s) ==
    \/ peer[s] \in {"connecting", "refused"} \cup (Up \ {"up"})
    \/ \E h \in run : h.s = s /\ h.do \in {"connected", "result", "close"}
OpenMoves == \A s \in Served \cap open : Moves(s)

\* The session of the account that is asked is open and not yet answered; those
\* of later accounts do not exist, and an open selection asks or goes on.
AskedIsOpen ==
    \A q \in Select :
        sel[q].requesting => /\ <<q, sel[q].index>> \in open
                             /\ \A h \in run : h.s = <<q, sel[q].index>> => h.do # "close"
LaterAreNew ==
    \A q \in Select : \A i \in 1 .. Candidates[q] :
        i > sel[q].index \/ (i = sel[q].index /\ sel[q].pc \in {"none", "check"})
            => <<q, i>> \notin Alive
SelectionMoves ==
    \A q \in Select : q \in open => sel[q].pc \in {"check", "send"} \/ sel[q].requesting

MovesInv == /\ MutexMoves /\ NobodyIsKept /\ SelectionIsThere /\ OpenMoves
            /\ AskedIsOpen /\ LaterAreNew /\ SelectionMoves

\* Every session of a selection is that of one of its accounts, and none is the
\* session of a client.
LEMMA SubIsPair ==
    \A s \in Sub : /\ s[1] \in Select /\ s[2] \in 1 .. Candidates[s[1]]
                   /\ s = <<s[1], s[2]>>
                   /\ s \notin Client /\ s # Nobody /\ s \in Served
<1> SUFFICES ASSUME NEW s \in Sub
             PROVE  /\ s[1] \in Select /\ s[2] \in 1 .. Candidates[s[1]]
                    /\ s = <<s[1], s[2]>>
                    /\ s \notin Client /\ s # Nobody /\ s \in Served
  OBVIOUS
<1>1. s \in Select \X Index /\ s[2] <= Candidates[s[1]]
  BY DEF Sub
<1>2. s[1] \in Select /\ s[2] \in Index /\ s = <<s[1], s[2]>>
  BY <1>1
<1>3. s[2] \in Nat /\ s[2] >= 1 /\ Candidates[s[1]] \in Nat
  BY <1>2, AuthenticatorSessionConstants DEF Index
<1>4. s[2] \in 1 .. Candidates[s[1]]
  BY <1>1, <1>3
<1>5. s \notin Client /\ s # Nobody /\ s \in Served
  BY SessionsAreDistinct DEF Served
<1> QED BY <1>2, <1>4, <1>5

\* What Keep leaves of the sessions that stay open.
LEMMA KeptPeers ==
    ASSUME NEW S, NEW R, NEW f, NEW a, Keep(S, R, f, a)
    PROVE  open' = S /\ run' = R /\ \A s \in Served \cap S : peer'[s] = a[s]
BY DEF Keep

\* A session goes on as before, or is set going.
LEMMA OpenMovesStep ==
    ASSUME OpenMoves,
           \A s \in Served \cap open' :
               \/ /\ s \in open /\ peer'[s] = peer[s]
                  /\ \A h \in run : h.s = s /\ h.do # "redirect" => h \in run'
               \/ Moves(s)'
    PROVE  OpenMoves'
<1> SUFFICES ASSUME NEW s \in Served \cap open', s \in open, peer'[s] = peer[s],
                    \A h \in run : h.s = s /\ h.do # "redirect" => h \in run'
             PROVE  Moves(s)'
  BY DEF OpenMoves
<1>1. Moves(s)
  BY DEF OpenMoves
<1> QED BY <1>1 DEF Moves

\* Steps that leave the selections alone.
LEMMA SelectionsRest ==
    ASSUME MovesInv, UNCHANGED <<sel, mgr>>, OpenMoves',
           \A s \in Sub : s \in Alive' => s \in Alive,
           \A q \in Select : q \in open' => q \in open,
           \A q \in Select : sel[q].requesting => <<q, sel[q].index>> \in open',
           \A h \in run' : h \in run \/ h.do # "close" \/ h.s \notin Sub,
           Cursor
    PROVE  MovesInv'
<1>1. MutexMoves' /\ NobodyIsKept' /\ SelectionIsThere' /\ SelectionMoves'
  BY DEF MovesInv, MutexMoves, NobodyIsKept, SelectionIsThere, SelectionMoves
<1>2. LaterAreNew'
  BY SubSessions DEF MovesInv, LaterAreNew
<1>3. AskedIsOpen'
  <2> SUFFICES ASSUME NEW q \in Select, sel[q].requesting
               PROVE  /\ <<q, sel[q].index>> \in open'
                      /\ \A h \in run' : h.s = <<q, sel[q].index>> => h.do # "close"
    BY DEF AskedIsOpen
  <2>1. sel[q].index \in 1 .. Candidates[q]
    BY AuthenticatorSessionConstants DEF Cursor
  <2>2. <<q, sel[q].index>> \in Sub
    BY <2>1, SubSessions
  <2>3. \A h \in run : h.s = <<q, sel[q].index>> => h.do # "close"
    BY DEF MovesInv, AskedIsOpen
  <2> QED BY <2>2, <2>3
<1> QED BY <1>1, <1>2, <1>3 DEF MovesInv

\* The session of the account that is asked, and of no client.
LEMMA AskedIsSub ==
    ASSUME SInv, NEW q \in Select, sel[q].requesting
    PROVE  <<q, sel[q].index>> \in Sub
<1>1. sel[q].index \in 1 .. Candidates[q]
  BY AuthenticatorSessionConstants DEF SInv, Cursor
<1> QED BY <1>1, SubSessions

LEMMA OpenSessionMoves ==
    ASSUME SInv, MovesInv, NEW p \in Plain, OpenSession(p)
    PROVE  MovesInv'
<1>1. /\ UNCHANGED <<run, sel, mgr>>
      /\ \/ UNCHANGED <<open, peer>>
         \/ open' = open \cup {p} /\ peer' = [peer EXCEPT ![p] = "connecting"]
  BY DEF OpenSession
<1>2. p \notin Sub /\ p \notin Select /\ p \in Served
  BY AuthenticatorSessionConstants, SessionsAreDistinct DEF Client, Served
<1>3. OpenMoves'
  <2>1. peer \in [Served -> PeerState]
    BY DEF SInv, SessionTypeOK, PeerState
  <2>2. ASSUME NEW s \in Served \cap open', s # p
        PROVE  s \in open /\ peer'[s] = peer[s]
    BY <1>1, <2>1, <2>2
  <2>3. p \in open' /\ p \notin open => Moves(p)'
    BY <1>1, <1>2, <2>1 DEF Moves
  <2>4. p \in open => peer'[p] = peer[p] \/ Moves(p)'
    BY <1>1, <1>2, <2>1 DEF Moves
  <2> QED BY <1>1, <2>2, <2>3, <2>4, OpenMovesStep DEF MovesInv
<1>4. \A s \in Sub : s \in Alive' => s \in Alive
  BY <1>1, <1>2 DEF Alive
<1>5. \A q \in Select : sel[q].requesting => <<q, sel[q].index>> \in open'
  BY <1>1 DEF MovesInv, AskedIsOpen
<1> QED BY <1>1, <1>2, <1>3, <1>4, <1>5, SelectionsRest DEF SInv

\* An event at the end of the authenticator.
LEMMA PeerStepMoves ==
    ASSUME SInv, MovesInv, NEW s \in Served, NEW do \in {"connected", "result", "redirect"}, NEW ans,
           NEW c \in PeerState,
           peer' = [peer EXCEPT ![s] = c],
           run' = run \/ (s \in open /\ run' = run \cup {Handler(s, do, ans)}),
           UNCHANGED <<open, mgr, sel>>,
           s \in open => Moves(s)'
    PROVE  MovesInv'
<1>1. peer \in [Served -> PeerState]
  BY DEF SInv, SessionTypeOK, PeerState
<1>2. OpenMoves'
  <2>1. ASSUME NEW r \in Served \cap open', r # s
        PROVE  r \in open /\ peer'[r] = peer[r] /\ \A h \in run : h \in run'
    BY <1>1, <2>1
  <2> QED BY <2>1, OpenMovesStep DEF MovesInv
<1>3. \A r \in Sub : r \in Alive' => r \in Alive
  BY DEF Alive, Handler
<1>4. \A q \in Select : sel[q].requesting => <<q, sel[q].index>> \in open'
  BY DEF MovesInv, AskedIsOpen
<1>5. \A h \in run' : h \in run \/ h.do # "close"
  BY DEF Handler
<1> QED BY <1>2, <1>3, <1>4, <1>5, SelectionsRest DEF SInv

LEMMA AbilityConnectedMoves ==
    ASSUME SInv, MovesInv, NEW s \in Served, AbilityConnected(s)
    PROVE  MovesInv'
<1>1. /\ peer' = [peer EXCEPT ![s] = "up"] /\ UNCHANGED <<open, mgr, sel>>
      /\ run' = IF s \in open THEN run \cup {Handler(s, "connected", Nobody)} ELSE run
  BY DEF AbilityConnected, Event
<1>a. run' = run \/ (s \in open /\ run' = run \cup {Handler(s, "connected", Nobody)})
  BY <1>1
<1>2. s \in open => Moves(s)'
  <2>1. s \in open => Handler(s, "connected", Nobody) \in run'
    BY <1>1
  <2> QED BY <2>1 DEF Moves, Handler
<1>3. "up" \in PeerState
  BY DEF PeerState, Up
<1> QED BY <1>a, <1>1, <1>2, <1>3, PeerStepMoves

LEMMA ConnectAbilityFailsMoves ==
    ASSUME SInv, MovesInv, NEW s \in Served, ConnectAbilityFails(s)
    PROVE  MovesInv'
<1>1. peer' = [peer EXCEPT ![s] = "refused"] /\ UNCHANGED <<open, mgr, sel, run>>
  BY DEF ConnectAbilityFails
<1>2. Moves(s)'
  BY <1>1 DEF Moves, SInv, SessionTypeOK
<1>3. "refused" \in PeerState
  BY DEF PeerState
<1> QED BY <1>1, <1>2, <1>3, PeerStepMoves

LEMMA AuthenticatorAnswersMoves ==
    ASSUME SInv, MovesInv, NEW s \in Served, AuthenticatorAnswers(s)
    PROVE  MovesInv'
<1>1. PICK ans \in Answers : run' = run \cup {Handler(s, "result", ans)}
  BY DEF AuthenticatorAnswers, Event
<1>2. peer' = [peer EXCEPT ![s] = "answered"] /\ UNCHANGED <<open, mgr, sel>> /\ s \in open
  BY DEF AuthenticatorAnswers
<1>3. Moves(s)'
  <2>1. Handler(s, "result", ans) \in run'
    BY <1>1
  <2> QED BY <2>1 DEF Moves, Handler
<1>4. "answered" \in PeerState
  BY DEF PeerState, Up
<1> QED BY <1>1, <1>2, <1>3, <1>4, PeerStepMoves

LEMMA AuthenticatorRedirectsMoves ==
    ASSUME SInv, MovesInv, NEW s \in Served, AuthenticatorRedirects(s)
    PROVE  MovesInv'
<1>1. /\ peer' = [peer EXCEPT ![s] = "redirected"] /\ UNCHANGED <<open, mgr, sel>> /\ s \in open
      /\ run' = run \cup {Handler(s, "redirect", Nobody)}
  BY DEF AuthenticatorRedirects, Event
<1>2. peer \in [Served -> PeerState]
  BY DEF SInv, SessionTypeOK, PeerState
<1>3. Moves(s)'
  BY <1>1, <1>2 DEF Moves, Up
<1>4. "redirected" \in PeerState
  BY DEF PeerState, Up
<1> QED BY <1>1, <1>3, <1>4, PeerStepMoves

LEMMA AuthenticatorDiesMoves ==
    ASSUME SInv, MovesInv, NEW s \in Served, AuthenticatorDies(s)
    PROVE  MovesInv'
<1>1. /\ peer' = [peer EXCEPT ![s] = "down"] /\ UNCHANGED <<open, mgr, sel>> /\ s \in open
      /\ run' = run \cup {Handler(s, "result", "error")}
  BY DEF AuthenticatorDies, Event
<1>2. Moves(s)'
  <2>1. Handler(s, "result", "error") \in run'
    BY <1>1
  <2> QED BY <2>1 DEF Moves, Handler
<1>3. "down" \in PeerState
  BY DEF PeerState
<1> QED BY <1>1, <1>2, <1>3, PeerStepMoves

LEMMA OnAbilityDisconnectDoneMoves ==
    ASSUME SInv, MovesInv, NEW s \in Served, OnAbilityDisconnectDone(s)
    PROVE  MovesInv'
<1>1. UNCHANGED <<open, mgr, run, sel, peer>>
  BY DEF OnAbilityDisconnectDone
<1> QED BY <1>1 DEF MovesInv, MutexMoves, NobodyIsKept, SelectionIsThere, OpenMoves, Moves, AskedIsOpen,
          LaterAreNew, SelectionMoves, Alive

\* The session of a client is closed.
LEMMA ClientDiesMoves ==
    ASSUME SInv, MovesInv, NEW c \in Client, ClientDies(c)
    PROVE  MovesInv'
<1>1. UNCHANGED <<mgr, sel>> /\ Keep(open \ {c}, run, flag, peer)
  BY DEF ClientDies
<1>2. open' = open \ {c} /\ run' = run /\ \A s \in Served \cap open' : peer'[s] = peer[s]
  BY <1>1, KeptPeers
<1>3. OpenMoves'
  BY <1>2, OpenMovesStep DEF MovesInv
<1>4. \A s \in Sub : s \in Alive' => s \in Alive
  BY <1>2 DEF Alive
<1>5. \A q \in Select : sel[q].requesting => <<q, sel[q].index>> \in open'
  BY <1>2, AskedIsSub, SubIsPair DEF MovesInv, AskedIsOpen
<1> QED BY <1>1, <1>2, <1>3, <1>4, <1>5, SelectionsRest DEF SInv

\* The ability is connected: the authenticator is asked, or the session ends.
LEMMA OnAbilityConnectDoneMoves ==
    ASSUME SInv, MovesInv, NEW h \in run, OnAbilityConnectDone(h)
    PROVE  MovesInv'
<1> DEFINE s == h.s
           f == [flag EXCEPT ![s] = TRUE]
           e == Handler(s, "result", "error")
<1>1. s \in Served /\ peer \in [Served -> PeerState]
  BY DEF SInv, SessionTypeOK, PeerState
<1>2. UNCHANGED <<mgr, sel>>
  BY DEF OnAbilityConnectDone
<1>3. \/ Keep(open, run \ {h}, f, [peer EXCEPT ![s] = "asked"])
      \/ Keep(open, (run \ {h}) \cup {e}, f, peer)
  BY DEF OnAbilityConnectDone
<1>4. e.s = s /\ e.do = "result"
  BY DEF Handler
<1> HIDE DEF f, e
<1>5. /\ open' = open
      /\ \/ run' = run \ {h} /\ \A r \in Served \cap open : peer'[r] = [peer EXCEPT ![s] = "asked"][r]
         \/ run' = (run \ {h}) \cup {e} /\ \A r \in Served \cap open : peer'[r] = peer[r]
  BY <1>3, KeptPeers
<1>6. OpenMoves'
  <2>1. ASSUME NEW r \in Served \cap open', r # s
        PROVE  /\ r \in open /\ peer'[r] = peer[r]
               /\ \A g \in run : g.s = r /\ g.do # "redirect" => g \in run'
    BY <1>1, <1>5, <2>1
  <2>2. s \in open' => Moves(s)'
    <3>1. CASE run' = run \ {h} /\ \A r \in Served \cap open : peer'[r] = [peer EXCEPT ![s] = "asked"][r]
      BY <1>1, <1>5, <3>1 DEF Moves, Up
    <3>2. CASE run' = (run \ {h}) \cup {e}
      <4>1. e \in run'
        BY <3>2
      <4> QED BY <1>4, <4>1 DEF Moves
    <3> QED BY <1>5, <3>1, <3>2
  <2> QED BY <2>1, <2>2, OpenMovesStep DEF MovesInv
<1>7. \A r \in Sub : r \in Alive' => r \in Alive
  BY <1>4, <1>5 DEF Alive
<1>8. \A q \in Select : sel[q].requesting => <<q, sel[q].index>> \in open'
  BY <1>5 DEF MovesInv, AskedIsOpen
<1>9. \A g \in run' : g \in run \/ g.do # "close"
  BY <1>4, <1>5
<1> QED BY <1>2, <1>5, <1>6, <1>7, <1>8, <1>9, SelectionsRest DEF SInv

\* A session is closed by the handler of its result.
LEMMA OnResultCloseMoves ==
    ASSUME SInv, MovesInv, NEW h \in run, OnResultClose(h)
    PROVE  MovesInv'
<1> DEFINE s == h.s
           b == [peer EXCEPT ![s] = IF flag[s] THEN "none" ELSE @]
<1>1. s \in Served /\ peer \in [Served -> PeerState]
  BY DEF SInv, SessionTypeOK, PeerState
<1>2. UNCHANGED <<mgr, sel>> /\ h.do = "close" /\ Keep(open \ {s}, run \ {h}, flag, b)
  BY DEF OnResultClose
<1>3. \A r \in Served : r # s => b[r] = peer[r]
  BY <1>1
<1> HIDE DEF b
<1>4. open' = open \ {s} /\ run' = run \ {h} /\ \A r \in Served \cap open' : peer'[r] = b[r]
  BY <1>2, KeptPeers
<1>5. OpenMoves'
  <2>1. ASSUME NEW r \in Served \cap open'
        PROVE  /\ r \in open /\ peer'[r] = peer[r]
               /\ \A g \in run : g.s = r /\ g.do # "redirect" => g \in run'
    BY <1>3, <1>4
  <2> QED BY <2>1, OpenMovesStep DEF MovesInv
<1>6. \A r \in Sub : r \in Alive' => r \in Alive
  BY <1>4 DEF Alive
<1>7. \A q \in Select : sel[q].requesting => <<q, sel[q].index>> \in open'
  BY <1>2, <1>4 DEF MovesInv, AskedIsOpen
<1> QED BY <1>2, <1>4, <1>5, <1>6, <1>7, SelectionsRest DEF SInv

\* Steps that change one selection.
LEMMA OneSelection ==
    ASSUME SInv, MovesInv, NEW q \in Select, NEW t \in Callback, sel' = [sel EXCEPT ![q] = t],
           OpenMoves', MutexMoves',
           t.pc # "none", t.pc = "free" => t.by = Nobody,
           t.requesting => /\ <<q, t.index>> \in open'
                           /\ \A h \in run' : h.s = <<q, t.index>> => h.do # "close",
           \A i \in 1 .. Candidates[q] :
               i > t.index \/ (i = t.index /\ t.pc = "check") => <<q, i>> \notin Alive',
           q \in open' => t.pc \in {"check", "send"} \/ t.requesting,
           \A s \in Sub : s[1] # q /\ s \in Alive' => s \in Alive,
           \A r \in Select : r # q /\ r \in open' => r \in open,
           \A r \in Select : r # q /\ sel[r].requesting => <<r, sel[r].index>> \in open',
           \A h \in run' : h \in run \/ h.do # "close" \/ h.s[1] = q \/ h.s \notin Sub
    PROVE  MovesInv'
<1>1. /\ sel \in [Select -> Callback] /\ sel' \in [Select -> Callback]
      /\ sel'[q] = t /\ \A r \in Select : r # q => sel'[r] = sel[r]
  BY DEF SInv, SessionTypeOK
<1>2. NobodyIsKept' /\ SelectionMoves'
  BY <1>1 DEF MovesInv, NobodyIsKept, SelectionMoves
<1>3. SelectionIsThere'
  <2> SUFFICES ASSUME NEW s \in Sub, s \in Alive' PROVE sel'[s[1]].pc # "none"
    BY DEF SelectionIsThere
  <2>1. s[1] \in Select
    BY SubIsPair
  <2>2. CASE s[1] = q
    BY <1>1, <2>2
  <2>3. CASE s[1] # q
    BY <1>1, <2>1, <2>3 DEF MovesInv, SelectionIsThere
  <2> QED BY <2>2, <2>3
<1>4. LaterAreNew'
  <2> SUFFICES ASSUME NEW r \in Select, NEW i \in 1 .. Candidates[r],
                      \/ i > sel'[r].index
                      \/ i = sel'[r].index /\ sel'[r].pc \in {"none", "check"}
               PROVE  <<r, i>> \notin Alive'
    BY DEF LaterAreNew
  <2>1. CASE r = q
    BY <1>1, <2>1
  <2>2. CASE r # q
    <3>1. <<r, i>> \notin Alive
      BY <1>1, <2>2 DEF MovesInv, LaterAreNew
    <3>2. <<r, i>> \in Sub /\ <<r, i>>[1] = r
      BY SubSessions
    <3> QED BY <2>2, <3>1, <3>2
  <2> QED BY <2>1, <2>2
<1>5. AskedIsOpen'
  <2> SUFFICES ASSUME NEW r \in Select, sel'[r].requesting
               PROVE  /\ <<r, sel'[r].index>> \in open'
                      /\ \A h \in run' : h.s = <<r, sel'[r].index>> => h.do # "close"
    BY DEF AskedIsOpen
  <2>1. CASE r = q
    BY <1>1, <2>1
  <2>2. CASE r # q
    <3>1. sel'[r] = sel[r] /\ sel[r].requesting
      BY <1>1, <2>2
    <3>2. <<r, sel[r].index>> \in Sub /\ <<r, sel[r].index>>[1] # q
      BY <2>2, <3>1, AskedIsSub
    <3>3. \A h \in run : h.s = <<r, sel[r].index>> => h.do # "close"
      BY <3>1 DEF MovesInv, AskedIsOpen
    <3> QED BY <2>2, <3>1, <3>2, <3>3
  <2> QED BY <2>1, <2>2
<1> QED BY <1>2, <1>3, <1>4, <1>5 DEF MovesInv

LEMMA SelectAccountsByOptionsMoves ==
    ASSUME SInv, MovesInv, NEW q \in Select, SelectAccountsByOptions(q)
    PROVE  MovesInv'
<1> DEFINE t == [sel[q] EXCEPT !.pc = "check"]
<1>1. /\ sel[q] \in Callback /\ sel' = [sel EXCEPT ![q] = t] /\ open' = open \cup {q} /\ mgr' = q
      /\ UNCHANGED <<run, peer>> /\ q \notin made
  BY DEF SelectAccountsByOptions, SInv, SessionTypeOK
<1>2. sel[q] = NoCallback
  BY <1>1 DEF SInv, Cursor
<1>a. sel[q].pc = "none" /\ ~sel[q].requesting
  BY <1>2 DEF NoCallback
<1>3. t \in Callback /\ t.pc = "check" /\ ~t.requesting /\ t.index = sel[q].index /\ sel[q].pc = "none"
  BY <1>1, <1>a DEF Callback
<1> HIDE DEF t
<1>4. q \notin Served
  BY AuthenticatorSessionConstants, SessionsAreDistinct DEF Client, Served
<1>5. OpenMoves'
  BY <1>1, <1>4, OpenMovesStep DEF MovesInv
<1>6. MutexMoves'
  <2>1. sel'[q] = t
    BY <1>1 DEF SInv, SessionTypeOK
  <2> QED BY <1>1, <1>3, <2>1 DEF MutexMoves
<1>7. \A s \in Sub : s \in Alive' => s \in Alive
  BY <1>1, SubIsPair DEF Alive, Client
<1>8. ASSUME NEW i \in 1 .. Candidates[q], i > t.index \/ i = t.index
      PROVE  <<q, i>> \notin Alive'
  <2>1. <<q, i>> \notin Alive
    BY <1>3, <1>8 DEF MovesInv, LaterAreNew
  <2> QED BY <1>7, <2>1, SubSessions
<1>9. \A r \in Select : sel[r].requesting => <<r, sel[r].index>> \in open'
  BY <1>1 DEF MovesInv, AskedIsOpen
<1> QED BY <1>1, <1>3, <1>5, <1>6, <1>7, <1>8, <1>9, OneSelection

\* Nothing is left after a crash.
LEMMA SelectCrashMoves ==
    ASSUME SInv, MovesInv, NEW q \in Select, SelectCrash(q)
    PROVE  MovesInv'
<1>1. mgr' = Nobody /\ open' = {} /\ run' = {} /\ sel' = [r \in Select |-> NoCallback]
  BY DEF SelectCrash
<1>2. Alive' = {}
  BY <1>1 DEF Alive
<1> QED BY <1>1, <1>2 DEF MovesInv, MutexMoves, NobodyIsKept, SelectionIsThere, OpenMoves, AskedIsOpen,
          LaterAreNew, SelectionMoves, NoCallback

LEMMA CheckLabelsMoves ==
    ASSUME SInv, MovesInv, NEW q \in Select, CheckLabels(q)
    PROVE  MovesInv'
<1> DEFINE i == sel[q].index
           s == <<q, i>>
<1>1. /\ sel[q] \in Callback /\ sel[q].pc = "check" /\ ~sel[q].requesting
      /\ i \in 1 .. Candidates[q] + 1 /\ Candidates[q] \in Nat /\ mgr \in {Nobody, q}
      /\ sel \in [Select -> Callback] /\ peer \in [Served -> PeerState] /\ run' = run
  BY AuthenticatorSessionConstants DEF CheckLabels, SInv, SessionTypeOK, Cursor, PeerState
<1>2. \A j \in 1 .. Candidates[q] : j >= i => <<q, j>> \notin Alive
  BY <1>1 DEF MovesInv, LaterAreNew
<1>3. \A r \in Select : sel[r].requesting => <<r, sel[r].index>> \in open
  BY DEF MovesInv, AskedIsOpen
<1>4. CASE i > Candidates[q] /\ sel' = [sel EXCEPT ![q].pc = "send"] /\ UNCHANGED <<open, peer, mgr>>
  <2> DEFINE t == [sel[q] EXCEPT !.pc = "send"]
  <2>1. t \in Callback /\ t.pc = "send" /\ ~t.requesting /\ t.index = i /\ sel' = [sel EXCEPT ![q] = t]
    BY <1>1, <1>4 DEF Callback
  <2> HIDE DEF t
  <2>2. Alive' = Alive
    BY <1>1, <1>4 DEF Alive
  <2>3. OpenMoves'
    BY <1>1, <1>4 DEF MovesInv, OpenMoves, Moves
  <2>4. MutexMoves'
    BY <1>1, <1>4, <2>1 DEF MutexMoves
  <2>5. \A j \in 1 .. Candidates[q] : ~(j > i \/ j = i)
    BY <1>1, <1>4
  <2> QED BY <1>1, <1>3, <1>4, <2>1, <2>2, <2>3, <2>4, <2>5, OneSelection
<1>5. CASE i <= Candidates[q] /\ sel' = [sel EXCEPT ![q].index = i + 1] /\ UNCHANGED <<open, peer, mgr>>
  <2> DEFINE t == [sel[q] EXCEPT !.index = i + 1]
  <2>a. i \in 1 .. Candidates[q]
    BY <1>1, <1>5
  <2>0. i \in Index
    BY <2>a, SubSessions
  <2>1. t \in Callback /\ t.pc = "check" /\ ~t.requesting /\ t.index = i + 1 /\ sel' = [sel EXCEPT ![q] = t]
    BY <1>1, <1>5, <2>0 DEF Callback
  <2> HIDE DEF t
  <2>2. Alive' = Alive
    BY <1>1, <1>5 DEF Alive
  <2>3. OpenMoves'
    BY <1>1, <1>5 DEF MovesInv, OpenMoves, Moves
  <2>4. MutexMoves'
    BY <1>1, <1>5, <2>1 DEF MutexMoves
  <2>5. \A j \in 1 .. Candidates[q] : j > i + 1 \/ j = i + 1 => j >= i
    BY <1>1
  <2> QED BY <1>1, <1>2, <1>3, <1>5, <2>1, <2>2, <2>3, <2>4, <2>5, OneSelection
<1>6. CASE /\ i <= Candidates[q] /\ open' = open \cup {s} /\ peer' = [peer EXCEPT ![s] = "connecting"]
           /\ sel' = [sel EXCEPT ![q] = [sel[q] EXCEPT !.pc = "free", !.by = Nobody, !.requesting = TRUE]]
           /\ mgr' = Nobody
  <2> DEFINE t == [sel[q] EXCEPT !.pc = "free", !.by = Nobody, !.requesting = TRUE]
  <2>1. /\ t \in Callback /\ t.pc = "free" /\ t.by = Nobody /\ t.requesting /\ t.index = i
        /\ sel' = [sel EXCEPT ![q] = t]
    BY <1>1, <1>6 DEF Callback
  <2> HIDE DEF t
  <2>2. s \in Sub /\ i \in 1 .. Candidates[q] /\ s \notin Select /\ s \in Served /\ s \notin Alive
    BY <1>1, <1>2, <1>6, SubSessions, SubIsPair DEF Client
  <2>3. Alive' = Alive \cup {s}
    BY <1>1, <1>6 DEF Alive
  <2>4. OpenMoves'
    <3>1. ASSUME NEW r \in Served \cap open'
          PROVE  \/ r \in open /\ peer'[r] = peer[r] /\ \A h \in run : h \in run'
                 \/ Moves(r)'
      <4>1. CASE r = s
        BY <1>1, <1>6, <2>2, <4>1 DEF Moves
      <4>2. CASE r # s
        BY <1>1, <1>6, <4>2
      <4> QED BY <4>1, <4>2
    <3> QED BY <3>1, OpenMovesStep DEF MovesInv
  <2>5. MutexMoves'
    BY <1>6 DEF MutexMoves
  <2>6. \A h \in run' : h.s # s
    BY <1>1, <2>2 DEF Alive
  <2>7. ASSUME NEW j \in 1 .. Candidates[q], j > i PROVE <<q, j>> \notin Alive'
    <3>1. <<q, j>> \notin Alive
      BY <1>1, <1>2, <2>7
    <3>2. <<q, j>> # s
      BY <1>1, <2>7
    <3> QED BY <2>3, <3>1, <3>2
  <2>8. <<q, t.index>> \in open' /\ \A h \in run' : h.s # <<q, t.index>>
    BY <1>6, <2>1, <2>6
  <2>9. \A r \in Sub : r[1] # q /\ r \in Alive' => r \in Alive
    BY <2>3
  <2>10. \A r \in Select : (r \in open' => r \in open) /\ (sel[r].requesting => <<r, sel[r].index>> \in open')
    BY <1>3, <1>6, <2>2
  <2>11. \A j \in 1 .. Candidates[q] : j > t.index => <<q, j>> \notin Alive'
    BY <2>1, <2>7
  <2>12. \A h \in run' : h \in run
    BY <1>1
  <2> HIDE DEF s, i
  <2> QED BY <2>1, <2>4, <2>5, <2>8, <2>9, <2>10, <2>11, <2>12, OneSelection
<1> QED
  <2>1. i > Candidates[q] \/ i <= Candidates[q]
    BY <1>1
  <2> QED BY <1>4, <1>5, <1>6, <2>1 DEF CheckLabels

LEMMA SendResultMoves ==
    ASSUME SInv, MovesInv, NEW q \in Select, SendResult(q)
    PROVE  MovesInv'
<1> DEFINE t == [sel[q] EXCEPT !.pc = "free", !.by = Nobody]
<1>1. /\ sel[q] \in Callback /\ sel[q].pc = "send" /\ ~sel[q].requesting
      /\ sel' = [sel EXCEPT ![q] = t] /\ mgr' = Nobody
      /\ Keep(open \ {q}, run, flag, peer)
  BY DEF SendResult, SInv, SessionTypeOK, Cursor
<1>2. t \in Callback /\ t.pc = "free" /\ t.by = Nobody /\ ~t.requesting /\ t.index = sel[q].index
  BY <1>1 DEF Callback
<1> HIDE DEF t
<1>3. open' = open \ {q} /\ run' = run /\ \A s \in Served \cap open' : peer'[s] = peer[s]
  BY <1>1, KeptPeers
<1>4. OpenMoves'
  BY <1>3, OpenMovesStep DEF MovesInv
<1>5. MutexMoves'
  BY <1>1 DEF MutexMoves
<1>6. Alive' \subseteq Alive
  BY <1>3 DEF Alive
<1>7. \A i \in 1 .. Candidates[q] : i > t.index => <<q, i>> \notin Alive'
  BY <1>2, <1>6 DEF MovesInv, LaterAreNew
<1>8. \A r \in Select : sel[r].requesting => <<r, sel[r].index>> \in open'
  BY <1>3, AskedIsSub, SubIsPair DEF MovesInv, AskedIsOpen, Client
<1> QED BY <1>1, <1>2, <1>3, <1>4, <1>5, <1>6, <1>7, <1>8, OneSelection

\* An answer that is taken lets the selection go on.
LEMMA TakenMoves ==
    ASSUME SInv, NEW s \in Sub, NEW ans, sel[s[1]].pc = "free"
    PROVE  LET q == s[1]  t == Taken(q, s, ans) IN
           /\ q \in Select /\ t \in Callback
           /\ ~sel[q].requesting => t = sel[q]
           /\ sel[q].requesting => /\ ~t.requesting
                                   /\ \/ t.pc = "check" /\ t.index = sel[q].index + 1
                                      \/ t.pc = "send" /\ t.index = sel[q].index
<1> DEFINE q == s[1]
<1>1. q \in Select /\ sel[q] \in Callback /\ Taken(q, s, ans) \in Callback
  BY TakenOK DEF SInv, SessionTypeOK
<1>2. CASE ~sel[q].requesting
  BY <1>1, <1>2 DEF Taken
<1>3. CASE sel[q].requesting /\ ans = "error"
  BY <1>1, <1>3 DEF Taken, Callback
<1>4. CASE sel[q].requesting /\ ans # "error"
  BY <1>1, <1>4 DEF Taken, Callback
<1> QED BY <1>1, <1>2, <1>3, <1>4

\* The callback of a selection takes an answer, or a redirection, from one of
\* its sessions, whose handler closes it or is gone.
LEMMA SelectionTakes ==
    ASSUME SInv, MovesInv, NEW s \in Sub, NEW ans, sel[s[1]].pc = "free", s \in Alive,
           sel' = [sel EXCEPT ![s[1]] = Taken(s[1], s, ans)], mgr' = mgr, open' = open,
           OpenMoves', Alive' \subseteq Alive,
           \A h \in run' : h \in run \/ h.do # "close" \/ h.s[1] = s[1]
    PROVE  MovesInv'
<1> DEFINE q == s[1]
           t == Taken(q, s, ans)
<1>1. /\ q \in Select /\ t \in Callback
      /\ ~sel[q].requesting => t = sel[q]
      /\ sel[q].requesting => /\ ~t.requesting
                              /\ \/ t.pc = "check" /\ t.index = sel[q].index + 1
                                 \/ t.pc = "send" /\ t.index = sel[q].index
  BY TakenMoves
<1>2. sel' = [sel EXCEPT ![q] = t] /\ sel \in [Select -> Callback] /\ sel[q].pc = "free"
  BY DEF SInv, SessionTypeOK
<1> HIDE DEF t, q
<1>3. \A r \in Select : sel[r].requesting => <<r, sel[r].index>> \in open'
  BY DEF MovesInv, AskedIsOpen
<1>4. MutexMoves'
  <2>1. mgr # q
    BY <1>1, <1>2, AuthenticatorSessionConstants DEF MovesInv, MutexMoves
  <2>2. mgr # Nobody => mgr \in Select
    BY DEF SInv, SessionTypeOK
  <2> QED BY <1>2, <2>1, <2>2 DEF MovesInv, MutexMoves
<1>5. CASE ~sel[q].requesting
  <2>1. sel' = sel
    BY <1>1, <1>2, <1>5
  <2>2. MutexMoves' /\ NobodyIsKept' /\ SelectionIsThere' /\ SelectionMoves'
    BY <1>4, <2>1 DEF MovesInv, NobodyIsKept, SelectionIsThere, SelectionMoves
  <2>3. LaterAreNew'
    BY <2>1 DEF MovesInv, LaterAreNew
  <2>4. AskedIsOpen'
    <3> SUFFICES ASSUME NEW r \in Select, sel[r].requesting, NEW h \in run', h.s = <<r, sel[r].index>>,
                        h.do = "close"
                 PROVE  FALSE
      BY <1>3, <2>1 DEF AskedIsOpen
    <3>1. h \notin run
      BY DEF MovesInv, AskedIsOpen
    <3>2. r = q
      BY <3>1 DEF q
    <3> QED BY <1>5, <3>2
  <2> QED BY <2>2, <2>3, <2>4 DEF MovesInv
<1>6. CASE sel[q].requesting
  <2>1. ASSUME NEW i \in 1 .. Candidates[q], i > t.index \/ (i = t.index /\ t.pc = "check")
        PROVE  <<q, i>> \notin Alive'
    <3>1. sel[q].index \in Nat
      BY <1>1, <1>6, AuthenticatorSessionConstants DEF SInv, Cursor
    <3>2. i > sel[q].index
      BY <1>1, <1>6, <2>1, <3>1
    <3> QED BY <1>1, <3>2 DEF MovesInv, LaterAreNew
  <2>2. \A h \in run' : h \in run \/ h.do # "close" \/ h.s[1] = q
    BY DEF q
  <2> QED BY <1>1, <1>2, <1>3, <1>4, <1>6, <2>1, <2>2, OneSelection
<1> QED BY <1>5, <1>6

LEMMA OnResultMoves ==
    ASSUME SInv, MovesInv, NEW h \in run, OnResult(h)
    PROVE  MovesInv'
<1> DEFINE s == h.s
           c == Handler(s, "close", Nobody)
<1>1. s \in Served /\ h.do = "result" /\ c.s = s /\ c.do = "close"
  BY DEF OnResult, SInv, SessionTypeOK, Handler
<1>2. mgr' = mgr /\ Keep(open, (run \ {h}) \cup {c}, flag, peer)
  BY DEF OnResult
<1> HIDE DEF c
<1>3. open' = open /\ run' = (run \ {h}) \cup {c} /\ \A r \in Served \cap open' : peer'[r] = peer[r]
  BY <1>2, KeptPeers
<1>4. OpenMoves'
  <2>1. ASSUME NEW r \in Served \cap open'
        PROVE  \/ /\ r \in open /\ peer'[r] = peer[r]
                  /\ \A g \in run : g.s = r /\ g.do # "redirect" => g \in run'
               \/ Moves(r)'
    <3>1. CASE r = s
      <4>1. c \in run'
        BY <1>3
      <4> QED BY <1>1, <3>1, <4>1 DEF Moves
    <3>2. CASE r # s
      BY <1>3, <3>2
    <3> QED BY <3>1, <3>2
  <2> QED BY <2>1, OpenMovesStep DEF MovesInv
<1>5. Alive' \subseteq Alive
  BY <1>1, <1>3 DEF Alive
<1>6. CASE s \in Plain
  <2>1. s \notin Sub /\ sel' = sel
    BY <1>6, SessionsAreDistinct DEF OnResult, Client
  <2>2. \A g \in run' : g \in run \/ g.s \notin Sub
    BY <1>1, <1>3, <2>1
  <2>3. \A q \in Select : sel[q].requesting => <<q, sel[q].index>> \in open'
    BY <1>3 DEF MovesInv, AskedIsOpen
  <2>4. Cursor
    BY DEF SInv
  <2> HIDE DEF s
  <2> QED BY <1>2, <1>3, <1>4, <1>5, <2>1, <2>2, <2>3, <2>4, SelectionsRest
<1>7. CASE s \notin Plain
  <2>1. s \in Sub /\ s \in Alive
    BY <1>1, <1>7 DEF Served, Alive
  <2>2. sel[s[1]].pc = "free" /\ sel' = [sel EXCEPT ![s[1]] = Taken(s[1], s, h.ans)]
    BY <1>7 DEF OnResult
  <2>3. \A g \in run' : g \in run \/ g.s[1] = s[1]
    BY <1>1, <1>3
  <2> HIDE DEF s
  <2> QED BY <1>2, <1>3, <1>4, <1>5, <2>1, <2>2, <2>3, SelectionTakes
<1> QED BY <1>6, <1>7

LEMMA OnRequestRedirectedMoves ==
    ASSUME SInv, MovesInv, NEW h \in run, OnRequestRedirected(h)
    PROVE  MovesInv'
<1> DEFINE s == h.s
<1>1. s \in Sub /\ s \in Alive /\ h.do = "redirect"
  BY DEF OnRequestRedirected, SInv, Handlers, Alive
<1>2. /\ mgr' = mgr /\ Keep(open, run \ {h}, flag, peer)
      /\ sel[s[1]].pc = "free" /\ sel' = [sel EXCEPT ![s[1]] = Taken(s[1], s, "no")]
  BY DEF OnRequestRedirected
<1>3. open' = open /\ run' = run \ {h} /\ \A r \in Served \cap open' : peer'[r] = peer[r]
  BY <1>2, KeptPeers
<1>4. OpenMoves'
  BY <1>1, <1>3, OpenMovesStep DEF MovesInv
<1>5. Alive' \subseteq Alive
  BY <1>3 DEF Alive
<1> HIDE DEF s
<1> QED BY <1>1, <1>2, <1>3, <1>4, <1>5, SelectionTakes

LEMMA MovesInit == SessionInit => MovesInv
<1> SUFFICES ASSUME SessionInit PROVE MovesInv
  OBVIOUS
<1>1. Alive = {}
  BY DEF SessionInit, Alive
<1> QED BY <1>1 DEF SessionInit, MovesInv, MutexMoves, NobodyIsKept, SelectionIsThere, OpenMoves,
          AskedIsOpen, LaterAreNew, SelectionMoves, NoCallback

LEMMA MovesStep == SInv /\ MovesInv /\ [SessionNext]_sessionVars => MovesInv'
<1> SUFFICES ASSUME SInv, MovesInv, [SessionNext]_sessionVars PROVE MovesInv'
  OBVIOUS
<1>1. CASE UNCHANGED sessionVars
  BY <1>1 DEF sessionVars, MovesInv, MutexMoves, NobodyIsKept, SelectionIsThere, OpenMoves, Moves,
     AskedIsOpen, LaterAreNew, SelectionMoves, Alive
<1>2. ASSUME NEW p \in Plain, OpenSession(p) PROVE MovesInv'
  BY <1>2, OpenSessionMoves
<1>3. ASSUME NEW q \in Select, SelectAccountsByOptions(q) \/ SelectCrash(q) PROVE MovesInv'
  BY <1>3, SelectAccountsByOptionsMoves, SelectCrashMoves
<1>4. ASSUME NEW q \in Select, CheckLabels(q) \/ SendResult(q) PROVE MovesInv'
  BY <1>4, CheckLabelsMoves, SendResultMoves
<1>5. ASSUME NEW s \in Served,
             \/ AbilityConnected(s) \/ ConnectAbilityFails(s) \/ AuthenticatorAnswers(s) \/ AuthenticatorRedirects(s)
             \/ AuthenticatorDies(s) \/ OnAbilityDisconnectDone(s)
      PROVE  MovesInv'
  BY <1>5, AbilityConnectedMoves, ConnectAbilityFailsMoves, AuthenticatorAnswersMoves,
     AuthenticatorRedirectsMoves,
     AuthenticatorDiesMoves, OnAbilityDisconnectDoneMoves
<1>6. ASSUME NEW c \in Client, ClientDies(c) PROVE MovesInv'
  BY <1>6, ClientDiesMoves
<1>7. ASSUME NEW h \in run, Handle(h) PROVE MovesInv'
  BY <1>7, OnAbilityConnectDoneMoves, OnResultMoves, OnResultCloseMoves, OnRequestRedirectedMoves
     DEF Handle
<1> QED BY <1>1, <1>2, <1>3, <1>4, <1>5, <1>6, <1>7 DEF SessionNext

\* No handler waits when all is quiet: the selection it waits for goes on.
LEMMA QuietIsRefused ==
    ASSUME SInv, MovesInv, Quiet
    PROVE  ClosedWhenIdle
<1>1. mgr = Nobody
  <2>1. mgr # Nobody => mgr \in Select
    BY DEF SInv, SessionTypeOK
  <2> QED BY <2>1 DEF MovesInv, MutexMoves, Quiet
<1>2. ASSUME NEW q \in Select PROVE sel[q].pc \in {"none", "free"} /\ sel[q].by = Nobody
  <2>1. sel[q].pc \in {"none", "free", "check", "send"}
    BY DEF SInv, SessionTypeOK, Callback
  <2> QED BY <1>1, <2>1 DEF Quiet, MovesInv, NobodyIsKept
<1>3. ASSUME NEW h \in run PROVE FALSE
  <2>1. h.s \in Served /\ h.do \in {"connected", "result", "redirect", "close"}
    BY DEF SInv, SessionTypeOK
  <2>2. h.s \in Sub => /\ h.s[1] \in Select /\ h.s # Nobody
                       /\ sel[h.s[1]].pc = "free" /\ sel[h.s[1]].by = Nobody
    <3>1. h.s \in Alive
      BY DEF Alive
    <3> QED BY <1>2, <3>1, SubIsPair DEF MovesInv, SelectionIsThere
  <2> QED BY <1>1, <2>1, <2>2 DEF Quiet, Runs
<1>4. ASSUME NEW s \in Served \cap open PROVE peer[s] = "refused"
  <2>1. peer[s] \in {"connecting", "refused"} \cup (Up \ {"up"})
    BY <1>3 DEF MovesInv, OpenMoves, Moves
  <2> QED BY <1>1, <2>1 DEF Quiet
<1>5. ASSUME NEW q \in Select, q \in open
      PROVE  /\ sel[q].requesting /\ <<q, sel[q].index>> \in open
             /\ peer[<<q, sel[q].index>>] = "refused"
  <2>1. sel[q].requesting
    BY <1>2, <1>5 DEF MovesInv, SelectionMoves
  <2>2. <<q, sel[q].index>> \in open /\ <<q, sel[q].index>> \in Served
    BY <2>1, AskedIsSub DEF MovesInv, AskedIsOpen, Served
  <2> QED BY <1>4, <2>1, <2>2
<1>6. open \subseteq Served \cup Select
  BY DEF SInv, SessionTypeOK, Session, Client, Served
<1> QED BY <1>4, <1>5, <1>6 DEF ClosedWhenIdle

\* Only a refused ability keeps a session in sessionMap_ for ever: when the
\* threads have done what they can, every ability is connected or refused and
\* every authenticator that was asked has answered or died, all the others are
\* closed, whoever died, was redirected or was refused a session.
THEOREM SessionsAreClosed == SessionSpec => []ClosedWhenIdle
<1>1. SInv /\ MovesInv => ClosedWhenIdle
  BY QuietIsRefused DEF ClosedWhenIdle
<1> QED BY <1>1, MovesInit, MovesStep, SInvHolds, PTL DEF SessionSpec
=============================================================================
