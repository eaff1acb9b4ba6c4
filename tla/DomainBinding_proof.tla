------------------------ MODULE DomainBinding_proof -------------------------
(***************************************************************************)
(* Theorems about DomainBinding, for any number of threads, accounts and   *)
(* domain accounts, any errors and any number of crashes.                  *)
(***************************************************************************)
EXTENDS DomainBinding, TLAPS, WellFoundedInduction

Rec == [exists : BOOLEAN, toBeRemoved : BOOLEAN, domain : Domain \cup {None}]
Backs == {"none", "self", "scan", "work", "clean", "remove", "filter", "garbage"}
Job == [acct : Account \cup {0}, domain : Domain \cup {None}, select : Rec,
        cur : Account \cup {0}, snap : Rec, stored : Domain \cup {None},
        back : Backs, ok : BOOLEAN, todo : SUBSET Account,
        found : SUBSET (Account \X Rec), isBound : BOOLEAN]

BindPlaces == {"select", "mark", "scan", "filter", "work", "bind", "write", "delFlag", "unmark"}
RecPlaces == {"flag", "recUnbind", "recDelete"}
RmPlaces == {"rmRead", "rmFlag", "rmPrepare", "rmDelete", "rmUnmark"}
CleanPlaces == {"garbage", "garbageRead", "clean", "cleanRead", "cleanUnmark"}
Places == {"idle"} \cup BindPlaces \cup RecPlaces \cup RmPlaces \cup CleanPlaces

Shared ==
    /\ record \in [Account -> Rec]
    /\ flag \in [Account -> Domain \cup {None}]
    /\ plugin \subseteq Domain \X Account /\ unbinds \subseteq Domain \X Account
    /\ operating \subseteq Account

Threads == pc \in [Thread -> Places] /\ job \in [Thread -> Job]

-----------------------------------------------------------------------------
(* What is true of a thread at place l with local variables j.             *)

\* The thread is inside BindDomainAccount: in its own code, or in a recovery
\* or a removal that it has called.
InBind(l, j) == l \in BindPlaces \/ j.back \in {"self", "scan", "work", "filter"}

\* The bind has passed the recovery of its own account and not bound it yet.
Free(l, j) == l \in {"scan", "filter", "work", "bind"} \/ j.back \in {"scan", "filter"}

\* Who calls whom, and with what.
CallOK(l, j) ==
    /\ l \in BindPlaces \ {"unmark"} => j.back = "none"
    /\ l \in {"idle", "garbage", "clean"} => j.back \in {"none", "clean"}
    /\ l = "flag" => j.back \in {"self", "scan", "clean"}
    /\ l \in {"recUnbind", "recDelete"} => j.back \in {"self", "scan", "work", "clean"}
    /\ l \in {"rmRead", "rmFlag"} => j.back = "remove"
    /\ l \in RmPlaces => j.back \in {"remove", "filter", "garbage"}
    /\ l = "garbageRead" => j.back = "garbage"
    /\ l \in {"cleanRead", "cleanUnmark"} => j.back \in {"clean", "none"}
    /\ l = "cleanRead" => j.back = "clean"
    /\ l = "unmark" => j.back \in {"none", "self"}
    /\ InBind(l, j) => j.acct \in Account
    /\ InBind(l, j) /\ l # "unmark" => j.domain \in Domain
    /\ l \in RecPlaces \cup RmPlaces \cup {"garbageRead", "cleanRead", "cleanUnmark"}
            => j.cur \in Account
    /\ l = "recUnbind" => j.stored \in Domain
    /\ j.back \in {"self", "work"} => j.cur = j.acct /\ j.snap = j.select
    /\ l = "filter" \/ j.back = "filter" => j.todo = {}
    /\ l \in {"work", "bind", "write"} => j.todo = {} /\ j.found = {} /\ j.isBound = FALSE
    /\ ~Free(l, j) => j.found = {}
    /\ j.back = "filter" => j.cur # j.acct

\* The thread has marked account a: operatingId_.
Holds(l, j, a) ==
    \/ /\ InBind(l, j) /\ l \notin {"select", "mark"}
       /\ a = j.acct
    \/ /\ \/ l \in RmPlaces \cup {"garbageRead", "cleanRead", "cleanUnmark"}
          \/ l \in RecPlaces /\ j.back = "clean"
       /\ a = j.cur

\* The copies of records that the thread acts on say of the domain account
\* what the records say, unless the account is gone; a copy that was to be
\* removed still is, except the one that BindDomainAccount selected.
CopyOK(l, j) ==
    /\ l \in RecPlaces \cup {"rmFlag"} /\ record[j.cur].exists
          => record[j.cur].domain = j.snap.domain
    /\ j.back = "scan" /\ record[j.cur].exists /\ j.snap.toBeRemoved
          => record[j.cur].toBeRemoved
    /\ l = "rmFlag" => j.snap.toBeRemoved /\ j.snap.exists /\ record[j.cur].exists
    /\ l = "rmPrepare" /\ j.snap.domain # None /\ record[j.cur].exists
          => record[j.cur].domain = j.snap.domain /\ record[j.cur].toBeRemoved
    /\ \A f \in j.found :
          /\ f[2].domain = j.domain
          /\ record[f[1]].exists => record[f[1]].domain = f[2].domain
          /\ record[f[1]].exists /\ f[2].toBeRemoved => record[f[1]].toBeRemoved
    /\ InBind(l, j) /\ l \notin {"select", "unmark", "delFlag"} =>
          /\ j.select.exists
          /\ record[j.acct].exists => record[j.acct].domain = j.select.domain
    /\ Free(l, j) \/ l = "write" \/ j.back = "work" => j.select.domain = None
    /\ l = "recUnbind" => j.snap.domain = None

\* The binding under way, in the file and in the plugin.
WorkOK(l, j) ==
    /\ Free(l, j) /\ record[j.acct].exists => \A y \in Domain : <<y, j.acct>> \notin plugin
    /\ l \in {"bind", "write"} => flag[j.acct] = j.domain
    /\ l = "write" /\ record[j.acct].exists =>
          \A y \in Domain : <<y, j.acct>> \in plugin <=> y = j.domain
    /\ l = "delFlag" /\ record[j.acct].exists =>
          \A y \in Domain : <<y, j.acct>> \in plugin => record[j.acct].domain = y
    /\ l = "recUnbind" => flag[j.cur] \in {j.stored, None}
    /\ l = "recDelete" /\ record[j.cur].exists /\ j.snap.domain = None =>
          \A y \in Domain : <<y, j.cur>> \notin plugin

\* GetOsAccountsByDomainInfo can read the record of every account.
Seen == "scan" \notin Faults

\* The scan misses no live account that is bound to the domain account.
ScanOK(l, j) ==
    Seen => \A a \in Account :
        /\ Free(l, j) /\ Live(a) /\ <<j.domain, a>> \in plugin
              => \/ a \in j.todo \/ (j.back = "scan" /\ a = j.cur)
                 \/ j.isBound = TRUE \/ \E f \in j.found : f[1] = a
        /\ l = "write" /\ Live(a) /\ <<j.domain, a>> \in plugin => a = j.acct

-----------------------------------------------------------------------------
Owner == \A t \in Thread : InBind(pc[t], job[t]) <=> bindMutex = t

Marks ==
    /\ \A t \in Thread, a \in Account : Holds(pc[t], job[t], a) => a \in operating
    /\ \A t, u \in Thread, a \in Account :
          Holds(pc[t], job[t], a) /\ Holds(pc[u], job[u], a) => t = u

Locals ==
    \A t \in Thread : /\ CallOK(pc[t], job[t]) /\ CopyOK(pc[t], job[t])
                      /\ WorkOK(pc[t], job[t]) /\ ScanOK(pc[t], job[t])

\* Files and plugin, also for an account that is to be removed.
AgreeAt(a, x) ==
    /\ record[a].exists /\ <<x, a>> \in plugin => record[a].domain = x \/ flag[a] = x
    /\ record[a].exists /\ <<x, a>> \in plugin => record[a].domain \in {x, None}
    /\ Live(a) /\ record[a].domain = x => <<x, a>> \in plugin
    /\ <<x, a>> \in unbinds /\ record[a].exists
          => record[a].toBeRemoved /\ record[a].domain = x

Agree == \A a \in Account, x \in Domain : AgreeAt(a, x)

Once ==
    Seen => \A x \in Domain, a, b \in Account :
        Live(a) /\ <<x, a>> \in plugin /\ Live(b) /\ <<x, b>> \in plugin => a = b

IInv == Shared /\ Threads /\ Owner /\ Marks /\ Locals /\ Agree /\ Once

-----------------------------------------------------------------------------

\* Loops visit the smallest id first: it is one of the ids.
LEMMA MinIn == ASSUME NEW S \in SUBSET Nat, S # {} PROVE Min(S) \in S
<1>1. PICK d \in S : \A e \in S : ~(<<e, d>> \in OpToRel(<, Nat))
  BY WFMin, NatLessThanWellFounded
<1>2. \A e \in S : d =< e
  <2> SUFFICES ASSUME NEW e \in S PROVE d =< e
    OBVIOUS
  <2>1. ~(<<e, d>> \in {ss \in Nat \X Nat : ss[1] < ss[2]})
    BY <1>1 DEF OpToRel
  <2> QED BY <2>1
<1> QED BY <1>2 DEF Min

\* The same for the accounts that the scan found.
LEMMA FirstIn ==
    ASSUME NEW F \in SUBSET (Account \X Rec), F # {}
    PROVE  (CHOOSE f \in F : \A g \in F : f[1] =< g[1]) \in F
<1> DEFINE S == {f[1] : f \in F}
<1>1. S \in SUBSET Nat /\ S # {}
  BY DomainAssumption
<1>2. PICK d \in S : \A e \in S : ~(<<e, d>> \in OpToRel(<, Nat))
  <2> HIDE DEF S
  <2> QED BY <1>1, WFMin, NatLessThanWellFounded
<1>3. \A e \in S : d =< e
  <2> SUFFICES ASSUME NEW e \in S PROVE d =< e
    OBVIOUS
  <2>1. d \in Nat /\ e \in Nat
    BY <1>1
  <2>2. ~(<<e, d>> \in {ss \in Nat \X Nat : ss[1] < ss[2]})
    BY <1>2 DEF OpToRel
  <2> HIDE DEF S
  <2> QED BY <2>1, <2>2
<1>4. PICK f \in F : \A g \in F : f[1] =< g[1]
  BY <1>3
<1> QED BY <1>4

\* The mutex is kept, taken or given back by thread t.
LockStep(t, l, j) ==
    \/ (InBind(l, j) <=> InBind(pc[t], job[t])) /\ bindMutex' = bindMutex
    \/ InBind(l, j) /\ bindMutex = None /\ bindMutex' = t
    \/ ~InBind(l, j) /\ InBind(pc[t], job[t]) /\ bindMutex' = None

\* Marks are set that nobody had, and only the thread's own are taken back.
MarkStep(t, l, j) ==
    /\ \A a \in Account : Holds(l, j, a) =>
          a \in operating' /\ (Holds(pc[t], job[t], a) \/ a \notin operating)
    /\ \A a \in operating \ operating' : Holds(pc[t], job[t], a) /\ ~Holds(l, j, a)

\* A step of thread t keeps the invariant if it locks and marks as it should,
\* and what every thread relies on is still so afterwards.
LEMMA Compose ==
    ASSUME IInv, NEW t \in Thread, NEW l \in Places, NEW j \in Job, GoWith(t, l, j), Shared',
           LockStep(t, l, j), MarkStep(t, l, j),
           CallOK(l, j), CopyOK(l, j)', WorkOK(l, j)', ScanOK(l, j)',
           \A u \in Thread \ {t} : CopyOK(pc[u], job[u])' /\ WorkOK(pc[u], job[u])'
                   /\ ScanOK(pc[u], job[u])',
           Agree', Once'
    PROVE  IInv'
<1>1. /\ \A u \in Thread \ {t} : pc'[u] = pc[u] /\ job'[u] = job[u]
      /\ pc'[t] = l /\ job'[t] = j
      /\ Threads'
  BY DEF IInv, Threads, GoWith, Go
<1>2. Owner'
  <2> SUFFICES ASSUME NEW u \in Thread PROVE InBind(pc'[u], job'[u]) <=> bindMutex' = u
    BY DEF Owner
  <2>0. (InBind(pc[u], job[u]) <=> bindMutex = u) /\ (InBind(pc[t], job[t]) <=> bindMutex = t)
    BY DEF IInv, Owner
  <2>1. CASE u = t
    BY <2>0, <2>1, <1>1, DomainAssumption DEF LockStep, Thread
  <2>2. CASE u # t
    BY <2>0, <2>2, <1>1, DomainAssumption DEF LockStep, Thread
  <2> QED BY <2>1, <2>2
<1>3. Marks'
  <2>1. ASSUME NEW u \in Thread, NEW a \in Account, Holds(pc'[u], job'[u], a) PROVE a \in operating'
    BY <2>1, <1>1 DEF IInv, Marks, MarkStep, Shared
  <2>2. ASSUME NEW u \in Thread, NEW v \in Thread, NEW a \in Account,
               Holds(pc'[u], job'[u], a), Holds(pc'[v], job'[v], a)
        PROVE  u = v
    BY <2>2, <1>1 DEF IInv, Marks, MarkStep
  <2> QED BY <2>1, <2>2 DEF Marks
<1>4. Locals'
  <2> SUFFICES ASSUME NEW u \in Thread
               PROVE  CallOK(pc[u], job[u])' /\ CopyOK(pc[u], job[u])' /\ WorkOK(pc[u], job[u])'
                       /\ ScanOK(pc[u], job[u])'
    BY DEF Locals
  <2>1. CASE u = t
    BY <2>1, <1>1
  <2>2. CASE u # t
    BY <2>2, <1>1 DEF IInv, Locals
  <2> QED BY <2>1, <2>2
<1> QED BY <1>1, <1>2, <1>3, <1>4 DEF IInv

\* A step that changes neither files nor plugin is looked at from its own thread.
LEMMA LocalStep ==
    ASSUME IInv, NEW t \in Thread, NEW l \in Places, NEW j \in Job, GoWith(t, l, j),
           UNCHANGED <<record, flag, plugin, unbinds>>, operating' \subseteq Account,
           LockStep(t, l, j), MarkStep(t, l, j),
           CallOK(l, j), CopyOK(l, j), WorkOK(l, j), ScanOK(l, j)
    PROVE  IInv'
<1>1. Shared' /\ Agree' /\ Once'
  BY DEF IInv, Shared, Agree, AgreeAt, Once, Live
<1>2. CopyOK(l, j)'
  BY DEF CopyOK
<1>3. WorkOK(l, j)'
  BY DEF WorkOK
<1>4. ScanOK(l, j)'
  BY DEF ScanOK, Live
<1>5. ASSUME NEW u \in Thread \ {t}
      PROVE  CopyOK(pc[u], job[u])' /\ WorkOK(pc[u], job[u])' /\ ScanOK(pc[u], job[u])'
  <2>1. pc'[u] = pc[u] /\ job'[u] = job[u]
    BY DEF IInv, Threads, GoWith, Go
  <2>2. CopyOK(pc[u], job[u]) /\ WorkOK(pc[u], job[u]) /\ ScanOK(pc[u], job[u])
    BY DEF IInv, Locals
  <2>3. CopyOK(pc[u], job[u])'
    BY <2>1, <2>2 DEF CopyOK
  <2>4. WorkOK(pc[u], job[u])'
    BY <2>1, <2>2 DEF WorkOK
  <2>5. ScanOK(pc[u], job[u])'
    BY <2>1, <2>2 DEF ScanOK, Live
  <2> QED BY <2>3, <2>4, <2>5
<1> QED BY <1>1, <1>2, <1>3, <1>4, <1>5, Compose

\* Steps of BindDomainAccount that change nothing but marks and local variables.
LEMMA BindSelectStep ==
    ASSUME IInv, NEW t \in Thread, BindSelect(t)
    PROVE  IInv'
<1> DEFINE o == job[t]
<1>1. /\ o \in Job /\ pc[t] \in Places /\ Shared /\ Threads
      /\ CallOK(pc[t], o) /\ CopyOK(pc[t], o) /\ WorkOK(pc[t], o) /\ ScanOK(pc[t], o)
  BY DEF IInv, Threads, Locals
<1>2. \A a \in Account : Holds(pc[t], o, a) => a \in operating
  BY DEF IInv, Marks
<1>3. Removed \in Rec /\ \A a \in Account : record[a] \in Rec
  BY <1>1 DEF Shared, Removed, Rec
<1>4. o.acct \in Account
  BY <1>1 DEF BindSelect, CallOK, InBind, BindPlaces, o
<1> HIDE DEF o
<1> USE DEF Places, BindPlaces, RecPlaces, RmPlaces, CleanPlaces
<1>10. CASE record[o.acct].exists
  <2>1. GoWith(t, "mark", [o EXCEPT !.select = record[o.acct]])
        /\ UNCHANGED <<record, flag, plugin, unbinds>>
    BY <1>1, <1>10, <1>4 DEF BindSelect, GoWith, Go, files, Threads, o, BindReturn
  <2>2. [o EXCEPT !.select = record[o.acct]] \in Job
    BY <1>10, <1>1, <1>3, <1>4 DEF Job, Backs, NoJob, GetOsAccountIdList
  <2>3. PICK j \in Job : /\ GoWith(t, "mark", j)
                    /\ j.acct = o.acct /\ j.domain = o.domain
                    /\ j.select = record[o.acct] /\ j.cur = o.cur
                    /\ j.snap = o.snap /\ j.stored = o.stored /\ j.back = o.back
                    /\ j.ok = o.ok /\ j.todo = o.todo /\ j.found = o.found /\ j.isBound = o.isBound
    BY <1>1, <2>1, <2>2 DEF Job, NoJob
  <2> HIDE <2>1, <2>2
  <2>4. CallOK("mark", j)
    BY <1>10, <1>1, <2>3, <1>4, DomainAssumption DEF BindSelect, CallOK, InBind, Free, Job
  <2>5. CopyOK("mark", j)
    BY <1>10, <1>1, <2>3, <1>4, DomainAssumption DEF BindSelect, CallOK, CopyOK, InBind, Free,
       Removed
  <2>6. WorkOK("mark", j)
    BY <1>10, <1>1, <2>3, <1>4, DomainAssumption DEF BindSelect, CallOK, CopyOK, WorkOK, InBind,
       Free
  <2>7. ScanOK("mark", j)
    BY <1>10, <1>1, <2>3, <1>4, DomainAssumption DEF BindSelect, CallOK, ScanOK, InBind, Free, Live
  <2>8. LockStep(t, "mark", j)
    BY <1>10, <1>1, <2>3 DEF BindSelect, CallOK, LockStep, InBind, o, BindReturn
  <2>9. MarkStep(t, "mark", j) /\ operating' \subseteq Account
    BY <1>10, <1>1, <1>2, <2>3, <1>4, DomainAssumption DEF BindSelect, CallOK, MarkStep, Holds,
       InBind, Shared, o
  <2>10. UNCHANGED <<record, flag, plugin, unbinds>>
    BY <2>1
  <2> QED BY <2>3, <2>4, <2>5, <2>6, <2>7, <2>8, <2>9, <2>10, LocalStep
<1>11. CASE ~record[o.acct].exists
  <2>1. GoWith(t, "idle", NoJob) /\ UNCHANGED <<record, flag, plugin, unbinds>>
    BY <1>1, <1>11, <1>4 DEF BindSelect, GoWith, Go, files, Threads, o, BindReturn
  <2>2. NoJob \in Job
    BY <1>11, <1>1, <1>3, <1>4 DEF Job, Backs, NoJob, GetOsAccountIdList
  <2>3. PICK j \in Job : /\ GoWith(t, "idle", j)
                    /\ j.acct = 0 /\ j.domain = None /\ j.select = Removed /\ j.cur = 0
                    /\ j.snap = Removed /\ j.stored = None /\ j.back = "none"
                    /\ j.ok = TRUE /\ j.todo = {} /\ j.found = {} /\ j.isBound = FALSE
    BY <1>1, <2>1, <2>2 DEF Job, NoJob
  <2> HIDE <2>1, <2>2
  <2>4. CallOK("idle", j)
    BY <1>11, <1>1, <2>3, <1>4, DomainAssumption DEF BindSelect, CallOK, InBind, Free, Job
  <2>5. CopyOK("idle", j)
    BY <1>11, <1>1, <2>3, <1>4, DomainAssumption DEF BindSelect, CallOK, CopyOK, InBind, Free,
       Removed
  <2>6. WorkOK("idle", j)
    BY <1>11, <1>1, <2>3, <1>4, DomainAssumption DEF BindSelect, CallOK, CopyOK, WorkOK, InBind,
       Free
  <2>7. ScanOK("idle", j)
    BY <1>11, <1>1, <2>3, <1>4, DomainAssumption DEF BindSelect, CallOK, ScanOK, InBind, Free, Live
  <2>8. LockStep(t, "idle", j)
    BY <1>11, <1>1, <2>3 DEF BindSelect, CallOK, LockStep, InBind, o, BindReturn
  <2>9. MarkStep(t, "idle", j) /\ operating' \subseteq Account
    BY <1>11, <1>1, <1>2, <2>3, <1>4, DomainAssumption DEF BindSelect, CallOK, MarkStep, Holds,
       InBind, Shared, o
  <2>10. UNCHANGED <<record, flag, plugin, unbinds>>
    BY <2>1
  <2> QED BY <2>3, <2>4, <2>5, <2>6, <2>7, <2>8, <2>9, <2>10, LocalStep
<1> QED BY <1>10, <1>11 DEF BindSelect

LEMMA BindMarkStep ==
    ASSUME IInv, NEW t \in Thread, BindMark(t)
    PROVE  IInv'
<1> DEFINE o == job[t]
<1>1. /\ o \in Job /\ pc[t] \in Places /\ Shared /\ Threads
      /\ CallOK(pc[t], o) /\ CopyOK(pc[t], o) /\ WorkOK(pc[t], o) /\ ScanOK(pc[t], o)
  BY DEF IInv, Threads, Locals
<1>2. \A a \in Account : Holds(pc[t], o, a) => a \in operating
  BY DEF IInv, Marks
<1>3. Removed \in Rec /\ \A a \in Account : record[a] \in Rec
  BY <1>1 DEF Shared, Removed, Rec
<1> HIDE DEF o
<1> USE DEF Places, BindPlaces, RecPlaces, RmPlaces, CleanPlaces
<1>10. CASE o.acct \in operating
  <2>1. GoWith(t, "idle", NoJob) /\ UNCHANGED <<record, flag, plugin, unbinds>>
    BY <1>1, <1>10 DEF BindMark, GoWith, Go, files, Threads, o, BindReturn
  <2>2. NoJob \in Job
    BY <1>10, <1>1, <1>3 DEF Job, Backs, NoJob, GetOsAccountIdList
  <2>3. PICK j \in Job : /\ GoWith(t, "idle", j)
                    /\ j.acct = 0 /\ j.domain = None /\ j.select = Removed /\ j.cur = 0
                    /\ j.snap = Removed /\ j.stored = None /\ j.back = "none"
                    /\ j.ok = TRUE /\ j.todo = {} /\ j.found = {} /\ j.isBound = FALSE
    BY <1>1, <2>1, <2>2 DEF Job, NoJob
  <2> HIDE <2>1, <2>2
  <2>4. CallOK("idle", j)
    BY <1>10, <1>1, <2>3, DomainAssumption DEF BindMark, CallOK, InBind, Free, Job
  <2>5. CopyOK("idle", j)
    BY <1>10, <1>1, <2>3, DomainAssumption DEF BindMark, CallOK, CopyOK, InBind, Free, Removed
  <2>6. WorkOK("idle", j)
    BY <1>10, <1>1, <2>3, DomainAssumption DEF BindMark, CallOK, CopyOK, WorkOK, InBind, Free
  <2>7. ScanOK("idle", j)
    BY <1>10, <1>1, <2>3, DomainAssumption DEF BindMark, CallOK, ScanOK, InBind, Free, Live
  <2>8. LockStep(t, "idle", j)
    BY <1>10, <1>1, <2>3 DEF BindMark, CallOK, LockStep, InBind, o, BindReturn
  <2>9. MarkStep(t, "idle", j) /\ operating' \subseteq Account
    BY <1>10, <1>1, <1>2, <2>3, DomainAssumption DEF BindMark, CallOK, MarkStep, Holds, InBind,
       Shared, o
  <2>10. UNCHANGED <<record, flag, plugin, unbinds>>
    BY <2>1
  <2> QED BY <2>3, <2>4, <2>5, <2>6, <2>7, <2>8, <2>9, <2>10, LocalStep
<1>11. CASE o.acct \notin operating /\ o.select.toBeRemoved
  <2>1. GoWith(t, "unmark", [o EXCEPT !.cur = o.acct, !.snap = o.select, !.back = "self"])
        /\ UNCHANGED <<record, flag, plugin, unbinds>>
    BY <1>1, <1>11 DEF BindMark, GoWith, Go, files, Threads, o, BindReturn
  <2>2. [o EXCEPT !.cur = o.acct, !.snap = o.select, !.back = "self"] \in Job
    BY <1>11, <1>1, <1>3 DEF Job, Backs, NoJob, GetOsAccountIdList
  <2>3. PICK j \in Job : /\ GoWith(t, "unmark", j)
                    /\ j.acct = o.acct /\ j.domain = o.domain
                    /\ j.select = o.select /\ j.cur = o.acct
                    /\ j.snap = o.select /\ j.stored = o.stored /\ j.back = "self"
                    /\ j.ok = o.ok /\ j.todo = o.todo /\ j.found = o.found /\ j.isBound = o.isBound
    BY <1>1, <2>1, <2>2 DEF Job, NoJob
  <2> HIDE <2>1, <2>2
  <2>4. CallOK("unmark", j)
    BY <1>11, <1>1, <2>3, DomainAssumption DEF BindMark, CallOK, InBind, Free, Job
  <2>5. CopyOK("unmark", j)
    BY <1>11, <1>1, <2>3, DomainAssumption DEF BindMark, CallOK, CopyOK, InBind, Free, Removed
  <2>6. WorkOK("unmark", j)
    BY <1>11, <1>1, <2>3, DomainAssumption DEF BindMark, CallOK, CopyOK, WorkOK, InBind, Free
  <2>7. ScanOK("unmark", j)
    BY <1>11, <1>1, <2>3, DomainAssumption DEF BindMark, CallOK, ScanOK, InBind, Free, Live
  <2>8. LockStep(t, "unmark", j)
    BY <1>11, <1>1, <2>3 DEF BindMark, CallOK, LockStep, InBind, o, BindReturn
  <2>9. MarkStep(t, "unmark", j) /\ operating' \subseteq Account
    BY <1>11, <1>1, <1>2, <2>3, DomainAssumption DEF BindMark, CallOK, MarkStep, Holds, InBind,
       Shared, o
  <2>10. UNCHANGED <<record, flag, plugin, unbinds>>
    BY <2>1
  <2> QED BY <2>3, <2>4, <2>5, <2>6, <2>7, <2>8, <2>9, <2>10, LocalStep
<1>12. CASE o.acct \notin operating /\ ~o.select.toBeRemoved
  <2>1. GoWith(t, "flag", [o EXCEPT !.cur = o.acct, !.snap = o.select, !.back = "self"])
        /\ UNCHANGED <<record, flag, plugin, unbinds>>
    BY <1>1, <1>12 DEF BindMark, GoWith, Go, files, Threads, o, BindReturn
  <2>2. [o EXCEPT !.cur = o.acct, !.snap = o.select, !.back = "self"] \in Job
    BY <1>12, <1>1, <1>3 DEF Job, Backs, NoJob, GetOsAccountIdList
  <2>3. PICK j \in Job : /\ GoWith(t, "flag", j)
                    /\ j.acct = o.acct /\ j.domain = o.domain
                    /\ j.select = o.select /\ j.cur = o.acct
                    /\ j.snap = o.select /\ j.stored = o.stored /\ j.back = "self"
                    /\ j.ok = o.ok /\ j.todo = o.todo /\ j.found = o.found /\ j.isBound = o.isBound
    BY <1>1, <2>1, <2>2 DEF Job, NoJob
  <2> HIDE <2>1, <2>2
  <2>4. CallOK("flag", j)
    BY <1>12, <1>1, <2>3, DomainAssumption DEF BindMark, CallOK, InBind, Free, Job
  <2>5. CopyOK("flag", j)
    BY <1>12, <1>1, <2>3, DomainAssumption DEF BindMark, CallOK, CopyOK, InBind, Free, Removed
  <2>6. WorkOK("flag", j)
    BY <1>12, <1>1, <2>3, DomainAssumption DEF BindMark, CallOK, CopyOK, WorkOK, InBind, Free
  <2>7. ScanOK("flag", j)
    BY <1>12, <1>1, <2>3, DomainAssumption DEF BindMark, CallOK, ScanOK, InBind, Free, Live
  <2>8. LockStep(t, "flag", j)
    BY <1>12, <1>1, <2>3 DEF BindMark, CallOK, LockStep, InBind, o, BindReturn
  <2>9. MarkStep(t, "flag", j) /\ operating' \subseteq Account
    BY <1>12, <1>1, <1>2, <2>3, DomainAssumption DEF BindMark, CallOK, MarkStep, Holds, InBind,
       Shared, o
  <2>10. UNCHANGED <<record, flag, plugin, unbinds>>
    BY <2>1
  <2> QED BY <2>3, <2>4, <2>5, <2>6, <2>7, <2>8, <2>9, <2>10, LocalStep
<1> QED BY <1>10, <1>11, <1>12 DEF BindMark

LEMMA GetOsAccountsByDomainInfoStep ==
    ASSUME IInv, NEW t \in Thread, GetOsAccountsByDomainInfo(t)
    PROVE  IInv'
<1> DEFINE o == job[t]
<1>1. /\ o \in Job /\ pc[t] \in Places /\ Shared /\ Threads
      /\ CallOK(pc[t], o) /\ CopyOK(pc[t], o) /\ WorkOK(pc[t], o) /\ ScanOK(pc[t], o)
  BY DEF IInv, Threads, Locals
<1>2. \A a \in Account : Holds(pc[t], o, a) => a \in operating
  BY DEF IInv, Marks
<1>3. Removed \in Rec /\ \A a \in Account : record[a] \in Rec
  BY <1>1 DEF Shared, Removed, Rec
<1>4. o.todo # {} => Min(o.todo) \in o.todo
  BY <1>1, MinIn, DomainAssumption DEF Job
<1>5. PICK m : m = Min(o.todo)
  OBVIOUS
<1>6. o.todo # {} => m \in o.todo /\ m \in Account
  BY <1>1, <1>4, <1>5 DEF Job
<1> HIDE DEF o
<1> USE DEF Places, BindPlaces, RecPlaces, RmPlaces, CleanPlaces
<1>10. CASE o.todo = {}
  <2>1. GoWith(t, "filter", o) /\ UNCHANGED <<record, flag, plugin, unbinds>>
    BY <1>1, <1>10, <1>4, <1>5, <1>6 DEF GetOsAccountsByDomainInfo, GoWith, Go, files, Threads, o
  <2>2. o \in Job
    BY <1>10, <1>1, <1>3, <1>6 DEF Job, Backs, NoJob, GetOsAccountIdList
  <2>3. PICK j \in Job : /\ GoWith(t, "filter", j)
                    /\ j.acct = o.acct /\ j.domain = o.domain
                    /\ j.select = o.select /\ j.cur = o.cur
                    /\ j.snap = o.snap /\ j.stored = o.stored /\ j.back = o.back
                    /\ j.ok = o.ok /\ j.todo = o.todo /\ j.found = o.found /\ j.isBound = o.isBound
    BY <1>1, <2>1, <2>2 DEF Job, NoJob
  <2> HIDE <2>1, <2>2
  <2>4. CallOK("filter", j)
    BY <1>10, <1>1, <2>3, <1>6, DomainAssumption DEF GetOsAccountsByDomainInfo, CallOK, InBind,
       Free, Job
  <2>5. CopyOK("filter", j)
    BY <1>10, <1>1, <2>3, <1>6, DomainAssumption DEF GetOsAccountsByDomainInfo, CallOK, CopyOK,
       InBind, Free, Removed
  <2>6. WorkOK("filter", j)
    BY <1>10, <1>1, <2>3, <1>6, DomainAssumption DEF GetOsAccountsByDomainInfo, CallOK, CopyOK,
       WorkOK, InBind, Free
  <2>7. ScanOK("filter", j)
    BY <1>10, <1>1, <2>3, <1>6, DomainAssumption DEF GetOsAccountsByDomainInfo, CallOK, ScanOK,
       InBind, Free, Live
  <2>8. LockStep(t, "filter", j)
    BY <1>10, <1>1, <2>3 DEF GetOsAccountsByDomainInfo, CallOK, LockStep, InBind, o
  <2>9. MarkStep(t, "filter", j) /\ operating' \subseteq Account
    BY <1>10, <1>1, <1>2, <2>3, <1>6, DomainAssumption DEF GetOsAccountsByDomainInfo, CallOK,
       MarkStep, Holds, InBind, Shared, o
  <2>10. UNCHANGED <<record, flag, plugin, unbinds>>
    BY <2>1
  <2> QED BY <2>3, <2>4, <2>5, <2>6, <2>7, <2>8, <2>9, <2>10, LocalStep
<1>11. CASE /\ o.todo # {} /\ (~record[m].exists \/ ~Seen)
            /\ GoWith(t, "scan", [o EXCEPT !.todo = o.todo \ {m}])
  <2>1. GoWith(t, "scan", [o EXCEPT !.todo = o.todo \ {m}])
        /\ UNCHANGED <<record, flag, plugin, unbinds>>
    BY <1>1, <1>11, <1>4, <1>5, <1>6 DEF GetOsAccountsByDomainInfo, GoWith, Go, files, Threads, o
  <2>2. [o EXCEPT !.todo = o.todo \ {m}] \in Job
    BY <1>11, <1>1, <1>3, <1>6 DEF Job, Backs, NoJob, GetOsAccountIdList
  <2>3. PICK j \in Job : /\ GoWith(t, "scan", j)
                    /\ j.acct = o.acct /\ j.domain = o.domain
                    /\ j.select = o.select /\ j.cur = o.cur
                    /\ j.snap = o.snap /\ j.stored = o.stored /\ j.back = o.back
                    /\ j.ok = o.ok /\ j.todo = o.todo \ {m}
                    /\ j.found = o.found /\ j.isBound = o.isBound
    BY <1>1, <2>1, <2>2 DEF Job, NoJob
  <2> HIDE <2>1, <2>2
  <2>4. CallOK("scan", j)
    BY <1>11, <1>1, <2>3, <1>6, DomainAssumption DEF GetOsAccountsByDomainInfo, CallOK, InBind,
       Free, Job
  <2>5. CopyOK("scan", j)
    BY <1>11, <1>1, <2>3, <1>6, DomainAssumption DEF GetOsAccountsByDomainInfo, CallOK, CopyOK,
       InBind, Free, Removed
  <2>6. WorkOK("scan", j)
    BY <1>11, <1>1, <2>3, <1>6, DomainAssumption DEF GetOsAccountsByDomainInfo, CallOK, CopyOK,
       WorkOK, InBind, Free
  <2>7. ScanOK("scan", j)
    BY <1>11, <1>1, <2>3, <1>6, DomainAssumption DEF GetOsAccountsByDomainInfo, CallOK, ScanOK,
       InBind, Free, Live
  <2>8. LockStep(t, "scan", j)
    BY <1>11, <1>1, <2>3 DEF GetOsAccountsByDomainInfo, CallOK, LockStep, InBind, o
  <2>9. MarkStep(t, "scan", j) /\ operating' \subseteq Account
    BY <1>11, <1>1, <1>2, <2>3, <1>6, DomainAssumption DEF GetOsAccountsByDomainInfo, CallOK,
       MarkStep, Holds, InBind, Shared, o
  <2>10. UNCHANGED <<record, flag, plugin, unbinds>>
    BY <2>1
  <2> QED BY <2>3, <2>4, <2>5, <2>6, <2>7, <2>8, <2>9, <2>10, LocalStep
<1>12. CASE /\ o.todo # {} /\ record[m].exists
            /\ GoWith(t, "flag", [o EXCEPT !.todo = o.todo \ {m}, !.cur = m,
                                           !.snap = record[m], !.back = "scan"])
  <2>1. GoWith(t, "flag", [o EXCEPT !.todo = o.todo \ {m}, !.cur = m, !.snap = record[m],
                                    !.back = "scan"])
        /\ UNCHANGED <<record, flag, plugin, unbinds>>
    BY <1>1, <1>12, <1>4, <1>5, <1>6 DEF GetOsAccountsByDomainInfo, GoWith, Go, files, Threads, o
  <2>2. [o EXCEPT !.todo = o.todo \ {m}, !.cur = m, !.snap = record[m], !.back = "scan"] \in Job
    BY <1>12, <1>1, <1>3, <1>6 DEF Job, Backs, NoJob, GetOsAccountIdList
  <2>3. PICK j \in Job : /\ GoWith(t, "flag", j)
                    /\ j.acct = o.acct /\ j.domain = o.domain /\ j.select = o.select /\ j.cur = m
                    /\ j.snap = record[m] /\ j.stored = o.stored /\ j.back = "scan"
                    /\ j.ok = o.ok /\ j.todo = o.todo \ {m}
                    /\ j.found = o.found /\ j.isBound = o.isBound
    BY <1>1, <2>1, <2>2 DEF Job, NoJob
  <2> HIDE <2>1, <2>2
  <2>4. CallOK("flag", j)
    BY <1>12, <1>1, <2>3, <1>6, DomainAssumption DEF GetOsAccountsByDomainInfo, CallOK, InBind,
       Free, Job
  <2>5. CopyOK("flag", j)
    BY <1>12, <1>1, <2>3, <1>6, DomainAssumption DEF GetOsAccountsByDomainInfo, CallOK, CopyOK,
       InBind, Free, Removed
  <2>6. WorkOK("flag", j)
    BY <1>12, <1>1, <2>3, <1>6, DomainAssumption DEF GetOsAccountsByDomainInfo, CallOK, CopyOK,
       WorkOK, InBind, Free
  <2>7. ScanOK("flag", j)
    BY <1>12, <1>1, <2>3, <1>6, DomainAssumption DEF GetOsAccountsByDomainInfo, CallOK, ScanOK,
       InBind, Free, Live
  <2>8. LockStep(t, "flag", j)
    BY <1>12, <1>1, <2>3 DEF GetOsAccountsByDomainInfo, CallOK, LockStep, InBind, o
  <2>9. MarkStep(t, "flag", j) /\ operating' \subseteq Account
    BY <1>12, <1>1, <1>2, <2>3, <1>6, DomainAssumption DEF GetOsAccountsByDomainInfo, CallOK,
       MarkStep, Holds, InBind, Shared, o
  <2>10. UNCHANGED <<record, flag, plugin, unbinds>>
    BY <2>1
  <2> QED BY <2>3, <2>4, <2>5, <2>6, <2>7, <2>8, <2>9, <2>10, LocalStep
<1>13. \/ o.todo = {}
       \/ /\ o.todo # {} /\ (~record[m].exists \/ ~Seen)
          /\ GoWith(t, "scan", [o EXCEPT !.todo = o.todo \ {m}])
       \/ /\ o.todo # {} /\ record[m].exists
          /\ GoWith(t, "flag", [o EXCEPT !.todo = o.todo \ {m}, !.cur = m,
                                         !.snap = record[m], !.back = "scan"])
  BY <1>5 DEF GetOsAccountsByDomainInfo, Seen, o
<1> QED BY <1>10, <1>11, <1>12, <1>13

LEMMA CheckDomainAccountBoundStep ==
    ASSUME IInv, NEW t \in Thread, CheckDomainAccountBound(t)
    PROVE  IInv'
<1> DEFINE o == job[t]
<1>1. /\ o \in Job /\ pc[t] \in Places /\ Shared /\ Threads
      /\ CallOK(pc[t], o) /\ CopyOK(pc[t], o) /\ WorkOK(pc[t], o) /\ ScanOK(pc[t], o)
  BY DEF IInv, Threads, Locals
<1>2. \A a \in Account : Holds(pc[t], o, a) => a \in operating
  BY DEF IInv, Marks
<1>3. Removed \in Rec /\ \A a \in Account : record[a] \in Rec
  BY <1>1 DEF Shared, Removed, Rec
<1>4. o.found # {} => (CHOOSE f \in o.found : \A g \in o.found : f[1] =< g[1]) \in o.found
  BY <1>1, FirstIn DEF Job
<1>5. PICK f : f = CHOOSE e \in o.found : \A g \in o.found : e[1] =< g[1]
  OBVIOUS
<1>6. o.found # {} => f \in o.found /\ f[1] \in Account /\ f[2] \in Rec
  BY <1>1, <1>4, <1>5 DEF Job
<1>7. o.acct \in operating
  BY <1>1, <1>2 DEF CheckDomainAccountBound, CallOK, Holds, InBind, BindPlaces, o
<1>9. operating \subseteq Account
  BY <1>1 DEF Shared
<1>8. o.found # {} /\ f[2].toBeRemoved => ~Live(f[1])
  BY <1>1, <1>6 DEF CopyOK, Live
<1> HIDE DEF o
<1> USE DEF Places, BindPlaces, RecPlaces, RmPlaces, CleanPlaces
<1>10. CASE o.found = {} /\ o.isBound
  <2>1. GoWith(t, "unmark", o) /\ UNCHANGED <<record, flag, plugin, unbinds>>
    BY <1>1, <1>10, <1>5, <1>6, <1>7, <1>8 DEF CheckDomainAccountBound, GoWith, Go, files,
       Threads, o
  <2>2. o \in Job
    BY <1>10, <1>1, <1>3, <1>6, <1>7, <1>8 DEF Job, Backs, NoJob, GetOsAccountIdList
  <2>3. PICK j \in Job : /\ GoWith(t, "unmark", j)
                    /\ j.acct = o.acct /\ j.domain = o.domain
                    /\ j.select = o.select /\ j.cur = o.cur
                    /\ j.snap = o.snap /\ j.stored = o.stored /\ j.back = o.back
                    /\ j.ok = o.ok /\ j.todo = o.todo /\ j.found = o.found /\ j.isBound = o.isBound
    BY <1>1, <2>1, <2>2 DEF Job, NoJob
  <2> HIDE <2>1, <2>2
  <2>4. CallOK("unmark", j)
    BY <1>10, <1>1, <2>3, <1>6, <1>7, <1>8, DomainAssumption DEF CheckDomainAccountBound, CallOK,
       InBind, Free, Job
  <2>5. CopyOK("unmark", j)
    BY <1>10, <1>1, <2>3, <1>6, <1>7, <1>8, DomainAssumption DEF CheckDomainAccountBound, CallOK,
       CopyOK, InBind, Free, Removed
  <2>6. WorkOK("unmark", j)
    BY <1>10, <1>1, <2>3, <1>6, <1>7, <1>8, DomainAssumption DEF CheckDomainAccountBound, CallOK,
       CopyOK, WorkOK, InBind, Free
  <2>7. ScanOK("unmark", j)
    BY <1>10, <1>1, <2>3, <1>6, <1>7, <1>8, DomainAssumption DEF CheckDomainAccountBound, CallOK,
       ScanOK, InBind, Free, Live
  <2>8. LockStep(t, "unmark", j)
    BY <1>10, <1>1, <2>3 DEF CheckDomainAccountBound, CallOK, LockStep, InBind, o
  <2>9. MarkStep(t, "unmark", j) /\ operating' \subseteq Account
    BY <1>10, <1>1, <1>2, <2>3, <1>6, <1>7, <1>8, DomainAssumption DEF CheckDomainAccountBound,
       CallOK, MarkStep, Holds, InBind, Shared, o
  <2>10. UNCHANGED <<record, flag, plugin, unbinds>>
    BY <2>1
  <2> QED BY <2>3, <2>4, <2>5, <2>6, <2>7, <2>8, <2>9, <2>10, LocalStep
<1>11. CASE o.found = {} /\ ~o.isBound
  <2>1. GoWith(t, "work", o) /\ UNCHANGED <<record, flag, plugin, unbinds>>
    BY <1>1, <1>11, <1>5, <1>6, <1>7, <1>8 DEF CheckDomainAccountBound, GoWith, Go, files,
       Threads, o
  <2>2. o \in Job
    BY <1>11, <1>1, <1>3, <1>6, <1>7, <1>8 DEF Job, Backs, NoJob, GetOsAccountIdList
  <2>3. PICK j \in Job : /\ GoWith(t, "work", j)
                    /\ j.acct = o.acct /\ j.domain = o.domain
                    /\ j.select = o.select /\ j.cur = o.cur
                    /\ j.snap = o.snap /\ j.stored = o.stored /\ j.back = o.back
                    /\ j.ok = o.ok /\ j.todo = o.todo /\ j.found = o.found /\ j.isBound = o.isBound
    BY <1>1, <2>1, <2>2 DEF Job, NoJob
  <2> HIDE <2>1, <2>2
  <2>4. CallOK("work", j)
    BY <1>11, <1>1, <2>3, <1>6, <1>7, <1>8, DomainAssumption DEF CheckDomainAccountBound, CallOK,
       InBind, Free, Job
  <2>5. CopyOK("work", j)
    BY <1>11, <1>1, <2>3, <1>6, <1>7, <1>8, DomainAssumption DEF CheckDomainAccountBound, CallOK,
       CopyOK, InBind, Free, Removed
  <2>6. WorkOK("work", j)
    BY <1>11, <1>1, <2>3, <1>6, <1>7, <1>8, DomainAssumption DEF CheckDomainAccountBound, CallOK,
       CopyOK, WorkOK, InBind, Free
  <2>7. ScanOK("work", j)
    BY <1>11, <1>1, <2>3, <1>6, <1>7, <1>8, DomainAssumption DEF CheckDomainAccountBound, CallOK,
       ScanOK, InBind, Free, Live
  <2>8. LockStep(t, "work", j)
    BY <1>11, <1>1, <2>3 DEF CheckDomainAccountBound, CallOK, LockStep, InBind, o
  <2>9. MarkStep(t, "work", j) /\ operating' \subseteq Account
    BY <1>11, <1>1, <1>2, <2>3, <1>6, <1>7, <1>8, DomainAssumption DEF CheckDomainAccountBound,
       CallOK, MarkStep, Holds, InBind, Shared, o
  <2>10. UNCHANGED <<record, flag, plugin, unbinds>>
    BY <2>1
  <2> QED BY <2>3, <2>4, <2>5, <2>6, <2>7, <2>8, <2>9, <2>10, LocalStep
<1>12. CASE o.found # {} /\ (~f[2].toBeRemoved \/ f[1] \in operating)
  <2>0. operating' = operating /\ pc[t] = "filter"
    BY <1>12, <1>5, <1>6, <1>7, <1>8 DEF CheckDomainAccountBound, o
  <2>1. GoWith(t, "filter", [o EXCEPT !.found = o.found \ {f}, !.isBound = TRUE])
        /\ UNCHANGED <<record, flag, plugin, unbinds>>
    BY <1>1, <1>12, <1>5, <1>6, <1>7, <1>8 DEF CheckDomainAccountBound, GoWith, Go, files,
       Threads, o
  <2>2. [o EXCEPT !.found = o.found \ {f}, !.isBound = TRUE] \in Job
    BY <1>12, <1>1, <1>3, <1>6, <1>7, <1>8 DEF Job, Backs, NoJob, GetOsAccountIdList
  <2>3. PICK j \in Job : /\ GoWith(t, "filter", j)
                    /\ j.acct = o.acct /\ j.domain = o.domain
                    /\ j.select = o.select /\ j.cur = o.cur
                    /\ j.snap = o.snap /\ j.stored = o.stored /\ j.back = o.back
                    /\ j.ok = o.ok /\ j.todo = o.todo /\ j.found = o.found \ {f} /\ j.isBound = TRUE
    BY <1>1, <2>1, <2>2 DEF Job, NoJob
  <2> HIDE <2>1, <2>2
  <2>4. CallOK("filter", j)
    BY <1>12, <1>1, <2>3, <1>6, <1>7, <1>8, DomainAssumption DEF CheckDomainAccountBound, CallOK,
       InBind, Free, Job
  <2>5. CopyOK("filter", j)
    BY <1>12, <1>1, <2>3, <1>6, <1>7, <1>8, DomainAssumption DEF CheckDomainAccountBound, CallOK,
       CopyOK, InBind, Free, Removed
  <2>6. WorkOK("filter", j)
    BY <1>12, <1>1, <2>3, <1>6, <1>7, <1>8, DomainAssumption DEF CheckDomainAccountBound, CallOK,
       CopyOK, WorkOK, InBind, Free
  <2>7. ScanOK("filter", j)
    BY <1>12, <1>1, <2>0, <2>3, <1>6, <1>7, <1>8, DomainAssumption DEF CallOK, ScanOK, InBind,
       Free, Live
  <2>8. LockStep(t, "filter", j)
    BY <1>12, <1>1, <2>3 DEF CheckDomainAccountBound, CallOK, LockStep, InBind, o
  <2>9. MarkStep(t, "filter", j) /\ operating' \subseteq Account
    BY <1>12, <1>1, <1>2, <2>0, <2>3, <1>6, <1>7, <1>8, DomainAssumption DEF CallOK, MarkStep,
       Holds, InBind, Shared, o
  <2>10. UNCHANGED <<record, flag, plugin, unbinds>>
    BY <2>1
  <2> QED BY <2>3, <2>4, <2>5, <2>6, <2>7, <2>8, <2>9, <2>10, LocalStep
<1>13. CASE o.found # {} /\ f[2].toBeRemoved /\ f[1] \notin operating
  <2>0. operating' = operating \cup {f[1]} /\ pc[t] = "filter"
    BY <1>13, <1>5, <1>6, <1>7, <1>8 DEF CheckDomainAccountBound, o
  <2>1. GoWith(t, "rmPrepare", [o EXCEPT !.found = o.found \ {f}, !.cur = f[1], !.snap = f[2],
                                         !.back = "filter"])
        /\ UNCHANGED <<record, flag, plugin, unbinds>>
    BY <1>1, <1>13, <1>5, <1>6, <1>7, <1>8 DEF CheckDomainAccountBound, GoWith, Go, files,
       Threads, o
  <2>2. [o EXCEPT !.found = o.found \ {f}, !.cur = f[1], !.snap = f[2], !.back = "filter"] \in Job
    BY <1>13, <1>1, <1>3, <1>6, <1>7, <1>8 DEF Job, Backs, NoJob, GetOsAccountIdList
  <2>3. PICK j \in Job : /\ GoWith(t, "rmPrepare", j)
                    /\ j.acct = o.acct /\ j.domain = o.domain /\ j.select = o.select /\ j.cur = f[1]
                    /\ j.snap = f[2] /\ j.stored = o.stored /\ j.back = "filter"
                    /\ j.ok = o.ok /\ j.todo = o.todo
                    /\ j.found = o.found \ {f} /\ j.isBound = o.isBound
    BY <1>1, <2>1, <2>2 DEF Job, NoJob
  <2> HIDE <2>1, <2>2
  <2>4. CallOK("rmPrepare", j)
    BY <1>13, <1>1, <2>3, <1>6, <1>7, <1>8, DomainAssumption DEF CheckDomainAccountBound, CallOK,
       InBind, Free, Job
  <2>5. CopyOK("rmPrepare", j)
    BY <1>13, <1>1, <2>3, <1>6, <1>7, <1>8, DomainAssumption DEF CheckDomainAccountBound, CallOK,
       CopyOK, InBind, Free, Removed
  <2>6. WorkOK("rmPrepare", j)
    BY <1>13, <1>1, <2>3, <1>6, <1>7, <1>8, DomainAssumption DEF CheckDomainAccountBound, CallOK,
       CopyOK, WorkOK, InBind, Free
  <2>7. ScanOK("rmPrepare", j)
    BY <1>13, <1>1, <2>0, <2>3, <1>6, <1>7, <1>8, DomainAssumption DEF CallOK, ScanOK, InBind,
       Free, Live
  <2>8. LockStep(t, "rmPrepare", j)
    BY <1>13, <1>1, <2>3 DEF CheckDomainAccountBound, CallOK, LockStep, InBind, o
  <2>9. MarkStep(t, "rmPrepare", j) /\ operating' \subseteq Account
    BY <1>13, <1>6, <1>7, <1>9, <2>0, <2>3 DEF MarkStep, Holds, InBind, Shared, o
  <2>10. UNCHANGED <<record, flag, plugin, unbinds>>
    BY <2>1
  <2> QED BY <2>3, <2>4, <2>5, <2>6, <2>7, <2>8, <2>9, <2>10, LocalStep
<1> QED BY <1>10, <1>11, <1>12, <1>13 DEF CheckDomainAccountBound

LEMMA BindUnmarkStep ==
    ASSUME IInv, NEW t \in Thread, BindUnmark(t)
    PROVE  IInv'
<1> DEFINE o == job[t]
<1>1. /\ o \in Job /\ pc[t] \in Places /\ Shared /\ Threads
      /\ CallOK(pc[t], o) /\ CopyOK(pc[t], o) /\ WorkOK(pc[t], o) /\ ScanOK(pc[t], o)
  BY DEF IInv, Threads, Locals
<1>2. \A a \in Account : Holds(pc[t], o, a) => a \in operating
  BY DEF IInv, Marks
<1>3. Removed \in Rec /\ \A a \in Account : record[a] \in Rec
  BY <1>1 DEF Shared, Removed, Rec
<1> HIDE DEF o
<1> USE DEF Places, BindPlaces, RecPlaces, RmPlaces, CleanPlaces
<1>10. CASE TRUE
  <2>1. GoWith(t, "idle", NoJob) /\ UNCHANGED <<record, flag, plugin, unbinds>>
    BY <1>1, <1>10 DEF BindUnmark, GoWith, Go, files, Threads, o, BindReturn
  <2>2. NoJob \in Job
    BY <1>10, <1>1, <1>3 DEF Job, Backs, NoJob, GetOsAccountIdList
  <2>3. PICK j \in Job : /\ GoWith(t, "idle", j)
                    /\ j.acct = 0 /\ j.domain = None /\ j.select = Removed /\ j.cur = 0
                    /\ j.snap = Removed /\ j.stored = None /\ j.back = "none"
                    /\ j.ok = TRUE /\ j.todo = {} /\ j.found = {} /\ j.isBound = FALSE
    BY <1>1, <2>1, <2>2 DEF Job, NoJob
  <2> HIDE <2>1, <2>2
  <2>4. CallOK("idle", j)
    BY <1>10, <1>1, <2>3, DomainAssumption DEF BindUnmark, CallOK, InBind, Free, Job
  <2>5. CopyOK("idle", j)
    BY <1>10, <1>1, <2>3, DomainAssumption DEF BindUnmark, CallOK, CopyOK, InBind, Free, Removed
  <2>6. WorkOK("idle", j)
    BY <1>10, <1>1, <2>3, DomainAssumption DEF BindUnmark, CallOK, CopyOK, WorkOK, InBind, Free
  <2>7. ScanOK("idle", j)
    BY <1>10, <1>1, <2>3, DomainAssumption DEF BindUnmark, CallOK, ScanOK, InBind, Free, Live
  <2>8. LockStep(t, "idle", j)
    BY <1>10, <1>1, <2>3 DEF BindUnmark, CallOK, LockStep, InBind, o, BindReturn
  <2>9. MarkStep(t, "idle", j) /\ operating' \subseteq Account
    BY <1>10, <1>1, <1>2, <2>3, DomainAssumption DEF BindUnmark, CallOK, MarkStep, Holds, InBind,
       Shared, o
  <2>10. UNCHANGED <<record, flag, plugin, unbinds>>
    BY <2>1
  <2> QED BY <2>3, <2>4, <2>5, <2>6, <2>7, <2>8, <2>9, <2>10, LocalStep
<1> QED BY <1>10 DEF BindUnmark

\* New calls.
LEMMA BindDomainAccountStep ==
    ASSUME IInv, NEW t \in Thread, NEW a \in Account, NEW x \in Domain, BindDomainAccount(t, a, x)
    PROVE  IInv'
<1> DEFINE o == job[t]
<1>1. /\ o \in Job /\ pc[t] \in Places /\ Shared /\ Threads
      /\ CallOK(pc[t], o) /\ CopyOK(pc[t], o) /\ WorkOK(pc[t], o) /\ ScanOK(pc[t], o)
  BY DEF IInv, Threads, Locals
<1>2. \A b \in Account : Holds(pc[t], o, b) => b \in operating
  BY DEF IInv, Marks
<1>3. Removed \in Rec /\ \A b \in Account : record[b] \in Rec
  BY <1>1 DEF Shared, Removed, Rec
<1> HIDE DEF o
<1> USE DEF Places, BindPlaces, RecPlaces, RmPlaces, CleanPlaces
<1>10. CASE TRUE
  <2>1. GoWith(t, "select", [NoJob EXCEPT !.acct = a, !.domain = x])
        /\ UNCHANGED <<record, flag, plugin, unbinds>>
    BY <1>1, <1>10 DEF BindDomainAccount, GoWith, Go, files, Threads, o, BindLock
  <2>2. [NoJob EXCEPT !.acct = a, !.domain = x] \in Job
    BY <1>10, <1>1, <1>3 DEF Job, Backs, NoJob, GetOsAccountIdList
  <2>3. PICK j \in Job : /\ GoWith(t, "select", j)
                    /\ j.acct = a /\ j.domain = x /\ j.select = Removed /\ j.cur = 0
                    /\ j.snap = Removed /\ j.stored = None /\ j.back = "none"
                    /\ j.ok = TRUE /\ j.todo = {} /\ j.found = {} /\ j.isBound = FALSE
    BY <1>1, <2>1, <2>2 DEF Job, NoJob
  <2> HIDE <2>1, <2>2
  <2>4. CallOK("select", j)
    BY <1>10, <1>1, <2>3, DomainAssumption DEF BindDomainAccount, CallOK, InBind, Free, Job
  <2>5. CopyOK("select", j)
    BY <1>10, <1>1, <2>3, DomainAssumption DEF BindDomainAccount, CallOK, CopyOK, InBind, Free,
       Removed
  <2>6. WorkOK("select", j)
    BY <1>10, <1>1, <2>3, DomainAssumption DEF BindDomainAccount, CallOK, CopyOK, WorkOK, InBind,
       Free
  <2>7. ScanOK("select", j)
    BY <1>10, <1>1, <2>3, DomainAssumption DEF BindDomainAccount, CallOK, ScanOK, InBind, Free, Live
  <2>8. LockStep(t, "select", j)
    BY <1>10, <1>1, <2>3 DEF BindDomainAccount, CallOK, LockStep, InBind, o, BindLock
  <2>9. MarkStep(t, "select", j) /\ operating' \subseteq Account
    BY <1>10, <1>1, <1>2, <2>3, DomainAssumption DEF BindDomainAccount, CallOK, MarkStep, Holds,
       InBind, Shared, o
  <2>10. UNCHANGED <<record, flag, plugin, unbinds>>
    BY <2>1
  <2> QED BY <2>3, <2>4, <2>5, <2>6, <2>7, <2>8, <2>9, <2>10, LocalStep
<1> QED BY <1>10 DEF BindDomainAccount

LEMMA RemoveOsAccountStep ==
    ASSUME IInv, NEW t \in Thread, NEW a \in Account, RemoveOsAccount(t, a)
    PROVE  IInv'
<1> DEFINE o == job[t]
<1>1. /\ o \in Job /\ pc[t] \in Places /\ Shared /\ Threads
      /\ CallOK(pc[t], o) /\ CopyOK(pc[t], o) /\ WorkOK(pc[t], o) /\ ScanOK(pc[t], o)
  BY DEF IInv, Threads, Locals
<1>2. \A b \in Account : Holds(pc[t], o, b) => b \in operating
  BY DEF IInv, Marks
<1>3. Removed \in Rec /\ \A b \in Account : record[b] \in Rec
  BY <1>1 DEF Shared, Removed, Rec
<1> HIDE DEF o
<1> USE DEF Places, BindPlaces, RecPlaces, RmPlaces, CleanPlaces
<1>10. CASE TRUE
  <2>1. GoWith(t, "rmRead", [NoJob EXCEPT !.cur = a, !.back = "remove"])
        /\ UNCHANGED <<record, flag, plugin, unbinds>>
    BY <1>1, <1>10 DEF RemoveOsAccount, GoWith, Go, files, Threads, o
  <2>2. [NoJob EXCEPT !.cur = a, !.back = "remove"] \in Job
    BY <1>10, <1>1, <1>3 DEF Job, Backs, NoJob, GetOsAccountIdList
  <2>3. PICK j \in Job : /\ GoWith(t, "rmRead", j)
                    /\ j.acct = 0 /\ j.domain = None /\ j.select = Removed /\ j.cur = a
                    /\ j.snap = Removed /\ j.stored = None /\ j.back = "remove"
                    /\ j.ok = TRUE /\ j.todo = {} /\ j.found = {} /\ j.isBound = FALSE
    BY <1>1, <2>1, <2>2 DEF Job, NoJob
  <2> HIDE <2>1, <2>2
  <2>4. CallOK("rmRead", j)
    BY <1>10, <1>1, <2>3, DomainAssumption DEF RemoveOsAccount, CallOK, InBind, Free, Job
  <2>5. CopyOK("rmRead", j)
    BY <1>10, <1>1, <2>3, DomainAssumption DEF RemoveOsAccount, CallOK, CopyOK, InBind, Free,
       Removed
  <2>6. WorkOK("rmRead", j)
    BY <1>10, <1>1, <2>3, DomainAssumption DEF RemoveOsAccount, CallOK, CopyOK, WorkOK, InBind, Free
  <2>7. ScanOK("rmRead", j)
    BY <1>10, <1>1, <2>3, DomainAssumption DEF RemoveOsAccount, CallOK, ScanOK, InBind, Free, Live
  <2>8. LockStep(t, "rmRead", j)
    BY <1>10, <1>1, <2>3 DEF RemoveOsAccount, CallOK, LockStep, InBind, o
  <2>9. MarkStep(t, "rmRead", j) /\ operating' \subseteq Account
    BY <1>10, <1>1, <1>2, <2>3, DomainAssumption DEF RemoveOsAccount, CallOK, MarkStep, Holds,
       InBind, Shared, o
  <2>10. UNCHANGED <<record, flag, plugin, unbinds>>
    BY <2>1
  <2> QED BY <2>3, <2>4, <2>5, <2>6, <2>7, <2>8, <2>9, <2>10, LocalStep
<1> QED BY <1>10 DEF RemoveOsAccount

\* Steps of a removal and of the collector that change nothing but marks and
\* local variables.
LEMMA RemoveReadStep ==
    ASSUME IInv, NEW t \in Thread, RemoveRead(t)
    PROVE  IInv'
<1> DEFINE o == job[t]
<1>1. /\ o \in Job /\ pc[t] \in Places /\ Shared /\ Threads
      /\ CallOK(pc[t], o) /\ CopyOK(pc[t], o) /\ WorkOK(pc[t], o) /\ ScanOK(pc[t], o)
  BY DEF IInv, Threads, Locals
<1>2. \A a \in Account : Holds(pc[t], o, a) => a \in operating
  BY DEF IInv, Marks
<1>3. Removed \in Rec /\ \A a \in Account : record[a] \in Rec
  BY <1>1 DEF Shared, Removed, Rec
<1>4. o.cur \in Account
  BY <1>1 DEF RemoveRead, CallOK, InBind, RmPlaces, RecPlaces, o
<1>6. PICK q \in Rec : q = record[o.cur]
  BY <1>3, <1>4
<1>7. [q EXCEPT !.toBeRemoved = TRUE] \in Rec
  BY DEF Rec
<1>8. PICK r \in Rec : r = [q EXCEPT !.toBeRemoved = TRUE]
  BY <1>7
<1>5. /\ r = [record[o.cur] EXCEPT !.toBeRemoved = TRUE]
      /\ r.exists = record[o.cur].exists /\ r.domain = record[o.cur].domain
      /\ r.toBeRemoved = TRUE
  BY <1>6, <1>8 DEF Rec
<1> HIDE DEF o
<1> USE DEF Places, BindPlaces, RecPlaces, RmPlaces, CleanPlaces
<1>10. CASE record[o.cur].exists
  <2>1. GoWith(t, "rmFlag", [o EXCEPT !.snap = r]) /\ UNCHANGED <<record, flag, plugin, unbinds>>
    BY <1>1, <1>10, <1>4, <1>5 DEF RemoveRead, GoWith, Go, files, Threads, o
  <2>2. [o EXCEPT !.snap = r] \in Job
    BY <1>10, <1>1, <1>3, <1>4, <1>5 DEF Job, Backs, NoJob, GetOsAccountIdList
  <2>3. PICK j \in Job : /\ GoWith(t, "rmFlag", j)
                    /\ j.acct = o.acct /\ j.domain = o.domain
                    /\ j.select = o.select /\ j.cur = o.cur
                    /\ j.snap = r /\ j.stored = o.stored /\ j.back = o.back
                    /\ j.ok = o.ok /\ j.todo = o.todo /\ j.found = o.found /\ j.isBound = o.isBound
    BY <1>1, <2>1, <2>2 DEF Job, NoJob
  <2> HIDE <2>1, <2>2
  <2>4. CallOK("rmFlag", j)
    BY <1>10, <1>1, <2>3, <1>4, <1>5, DomainAssumption DEF RemoveRead, CallOK, InBind, Free, Job
  <2>5. CopyOK("rmFlag", j)
    BY <1>10, <1>1, <2>3, <1>4, <1>5, DomainAssumption DEF RemoveRead, CallOK, CopyOK, InBind,
       Free, Removed
  <2>6. WorkOK("rmFlag", j)
    BY <1>10, <1>1, <2>3, <1>4, <1>5, DomainAssumption DEF RemoveRead, CallOK, CopyOK, WorkOK,
       InBind, Free
  <2>7. ScanOK("rmFlag", j)
    BY <1>10, <1>1, <2>3, <1>4, <1>5, DomainAssumption DEF RemoveRead, CallOK, ScanOK, InBind,
       Free, Live
  <2>8. LockStep(t, "rmFlag", j)
    BY <1>10, <1>1, <2>3 DEF RemoveRead, CallOK, LockStep, InBind, o
  <2>9. MarkStep(t, "rmFlag", j) /\ operating' \subseteq Account
    BY <1>10, <1>1, <1>2, <2>3, <1>4, <1>5, DomainAssumption DEF RemoveRead, CallOK, MarkStep,
       Holds, InBind, Shared, o
  <2>10. UNCHANGED <<record, flag, plugin, unbinds>>
    BY <2>1
  <2> QED BY <2>3, <2>4, <2>5, <2>6, <2>7, <2>8, <2>9, <2>10, LocalStep
<1>11. CASE ~record[o.cur].exists
  <2>1. GoWith(t, "rmUnmark", [o EXCEPT !.snap = r]) /\ UNCHANGED <<record, flag, plugin, unbinds>>
    BY <1>1, <1>11, <1>4, <1>5 DEF RemoveRead, GoWith, Go, files, Threads, o
  <2>2. [o EXCEPT !.snap = r] \in Job
    BY <1>11, <1>1, <1>3, <1>4, <1>5 DEF Job, Backs, NoJob, GetOsAccountIdList
  <2>3. PICK j \in Job : /\ GoWith(t, "rmUnmark", j)
                    /\ j.acct = o.acct /\ j.domain = o.domain
                    /\ j.select = o.select /\ j.cur = o.cur
                    /\ j.snap = r /\ j.stored = o.stored /\ j.back = o.back
                    /\ j.ok = o.ok /\ j.todo = o.todo /\ j.found = o.found /\ j.isBound = o.isBound
    BY <1>1, <2>1, <2>2 DEF Job, NoJob
  <2> HIDE <2>1, <2>2
  <2>4. CallOK("rmUnmark", j)
    BY <1>11, <1>1, <2>3, <1>4, <1>5, DomainAssumption DEF RemoveRead, CallOK, InBind, Free, Job
  <2>5. CopyOK("rmUnmark", j)
    BY <1>11, <1>1, <2>3, <1>4, <1>5, DomainAssumption DEF RemoveRead, CallOK, CopyOK, InBind,
       Free, Removed
  <2>6. WorkOK("rmUnmark", j)
    BY <1>11, <1>1, <2>3, <1>4, <1>5, DomainAssumption DEF RemoveRead, CallOK, CopyOK, WorkOK,
       InBind, Free
  <2>7. ScanOK("rmUnmark", j)
    BY <1>11, <1>1, <2>3, <1>4, <1>5, DomainAssumption DEF RemoveRead, CallOK, ScanOK, InBind,
       Free, Live
  <2>8. LockStep(t, "rmUnmark", j)
    BY <1>11, <1>1, <2>3 DEF RemoveRead, CallOK, LockStep, InBind, o
  <2>9. MarkStep(t, "rmUnmark", j) /\ operating' \subseteq Account
    BY <1>11, <1>1, <1>2, <2>3, <1>4, <1>5, DomainAssumption DEF RemoveRead, CallOK, MarkStep,
       Holds, InBind, Shared, o
  <2>10. UNCHANGED <<record, flag, plugin, unbinds>>
    BY <2>1
  <2> QED BY <2>3, <2>4, <2>5, <2>6, <2>7, <2>8, <2>9, <2>10, LocalStep
<1> QED BY <1>10, <1>11 DEF RemoveRead

LEMMA RemoveUnmarkStep ==
    ASSUME IInv, NEW t \in Thread, RemoveUnmark(t)
    PROVE  IInv'
<1> DEFINE o == job[t]
<1>1. /\ o \in Job /\ pc[t] \in Places /\ Shared /\ Threads
      /\ CallOK(pc[t], o) /\ CopyOK(pc[t], o) /\ WorkOK(pc[t], o) /\ ScanOK(pc[t], o)
  BY DEF IInv, Threads, Locals
<1>2. \A a \in Account : Holds(pc[t], o, a) => a \in operating
  BY DEF IInv, Marks
<1>3. Removed \in Rec /\ \A a \in Account : record[a] \in Rec
  BY <1>1 DEF Shared, Removed, Rec
<1> HIDE DEF o
<1> USE DEF Places, BindPlaces, RecPlaces, RmPlaces, CleanPlaces
<1>10. CASE o.back = "remove"
  <2>1. GoWith(t, "idle", NoJob) /\ UNCHANGED <<record, flag, plugin, unbinds>>
    BY <1>1, <1>10 DEF RemoveUnmark, GoWith, Go, files, Threads, o
  <2>2. NoJob \in Job
    BY <1>10, <1>1, <1>3 DEF Job, Backs, NoJob, GetOsAccountIdList
  <2>3. PICK j \in Job : /\ GoWith(t, "idle", j)
                    /\ j.acct = 0 /\ j.domain = None /\ j.select = Removed /\ j.cur = 0
                    /\ j.snap = Removed /\ j.stored = None /\ j.back = "none"
                    /\ j.ok = TRUE /\ j.todo = {} /\ j.found = {} /\ j.isBound = FALSE
    BY <1>1, <2>1, <2>2 DEF Job, NoJob
  <2> HIDE <2>1, <2>2
  <2>4. CallOK("idle", j)
    BY <1>10, <1>1, <2>3, DomainAssumption DEF RemoveUnmark, CallOK, InBind, Free, Job
  <2>5. CopyOK("idle", j)
    BY <1>10, <1>1, <2>3, DomainAssumption DEF RemoveUnmark, CallOK, CopyOK, InBind, Free, Removed
  <2>6. WorkOK("idle", j)
    BY <1>10, <1>1, <2>3, DomainAssumption DEF RemoveUnmark, CallOK, CopyOK, WorkOK, InBind, Free
  <2>7. ScanOK("idle", j)
    BY <1>10, <1>1, <2>3, DomainAssumption DEF RemoveUnmark, CallOK, ScanOK, InBind, Free, Live
  <2>8. LockStep(t, "idle", j)
    BY <1>10, <1>1, <2>3 DEF RemoveUnmark, CallOK, LockStep, InBind, o
  <2>9. MarkStep(t, "idle", j) /\ operating' \subseteq Account
    BY <1>10, <1>1, <1>2, <2>3, DomainAssumption DEF RemoveUnmark, CallOK, MarkStep, Holds,
       InBind, Shared, o
  <2>10. UNCHANGED <<record, flag, plugin, unbinds>>
    BY <2>1
  <2> QED BY <2>3, <2>4, <2>5, <2>6, <2>7, <2>8, <2>9, <2>10, LocalStep
<1>11. CASE o.back = "filter" /\ ~(o.isBound \/ ~o.ok)
  <2>1. GoWith(t, "filter", [o EXCEPT !.isBound = FALSE, !.ok = TRUE, !.cur = 0,
                                      !.snap = Removed, !.back = "none"])
        /\ UNCHANGED <<record, flag, plugin, unbinds>>
    BY <1>1, <1>11 DEF RemoveUnmark, GoWith, Go, files, Threads, o
  <2>2. [o EXCEPT !.isBound = FALSE, !.ok = TRUE, !.cur = 0, !.snap = Removed,
                  !.back = "none"] \in Job
    BY <1>11, <1>1, <1>3 DEF Job, Backs, NoJob, GetOsAccountIdList
  <2>3. PICK j \in Job : /\ GoWith(t, "filter", j)
                    /\ j.acct = o.acct /\ j.domain = o.domain /\ j.select = o.select /\ j.cur = 0
                    /\ j.snap = Removed /\ j.stored = o.stored /\ j.back = "none"
                    /\ j.ok = TRUE /\ j.todo = o.todo /\ j.found = o.found /\ j.isBound = FALSE
    BY <1>1, <2>1, <2>2 DEF Job, NoJob
  <2> HIDE <2>1, <2>2
  <2>4. CallOK("filter", j)
    BY <1>11, <1>1, <2>3, DomainAssumption DEF RemoveUnmark, CallOK, InBind, Free, Job
  <2>5. CopyOK("filter", j)
    BY <1>11, <1>1, <2>3, DomainAssumption DEF RemoveUnmark, CallOK, CopyOK, InBind, Free, Removed
  <2>6. WorkOK("filter", j)
    BY <1>11, <1>1, <2>3, DomainAssumption DEF RemoveUnmark, CallOK, CopyOK, WorkOK, InBind, Free
  <2>7. ScanOK("filter", j)
    BY <1>11, <1>1, <2>3, DomainAssumption DEF RemoveUnmark, CallOK, ScanOK, InBind, Free, Live
  <2>8. LockStep(t, "filter", j)
    BY <1>11, <1>1, <2>3 DEF RemoveUnmark, CallOK, LockStep, InBind, o
  <2>9. MarkStep(t, "filter", j) /\ operating' \subseteq Account
    BY <1>11, <1>1, <1>2, <2>3, DomainAssumption DEF RemoveUnmark, CallOK, MarkStep, Holds,
       InBind, Shared, o
  <2>10. UNCHANGED <<record, flag, plugin, unbinds>>
    BY <2>1
  <2> QED BY <2>3, <2>4, <2>5, <2>6, <2>7, <2>8, <2>9, <2>10, LocalStep
<1>12. CASE o.back = "filter" /\ (o.isBound \/ ~o.ok)
  <2>1. GoWith(t, "filter", [o EXCEPT !.isBound = TRUE, !.ok = TRUE, !.cur = 0, !.snap = Removed,
                                      !.back = "none"])
        /\ UNCHANGED <<record, flag, plugin, unbinds>>
    BY <1>1, <1>12 DEF RemoveUnmark, GoWith, Go, files, Threads, o
  <2>2. [o EXCEPT !.isBound = TRUE, !.ok = TRUE, !.cur = 0, !.snap = Removed,
                  !.back = "none"] \in Job
    BY <1>12, <1>1, <1>3 DEF Job, Backs, NoJob, GetOsAccountIdList
  <2>3. PICK j \in Job : /\ GoWith(t, "filter", j)
                    /\ j.acct = o.acct /\ j.domain = o.domain /\ j.select = o.select /\ j.cur = 0
                    /\ j.snap = Removed /\ j.stored = o.stored /\ j.back = "none"
                    /\ j.ok = TRUE /\ j.todo = o.todo /\ j.found = o.found /\ j.isBound = TRUE
    BY <1>1, <2>1, <2>2 DEF Job, NoJob
  <2> HIDE <2>1, <2>2
  <2>4. CallOK("filter", j)
    BY <1>12, <1>1, <2>3, DomainAssumption DEF RemoveUnmark, CallOK, InBind, Free, Job
  <2>5. CopyOK("filter", j)
    BY <1>12, <1>1, <2>3, DomainAssumption DEF RemoveUnmark, CallOK, CopyOK, InBind, Free, Removed
  <2>6. WorkOK("filter", j)
    BY <1>12, <1>1, <2>3, DomainAssumption DEF RemoveUnmark, CallOK, CopyOK, WorkOK, InBind, Free
  <2>7. ScanOK("filter", j)
    BY <1>12, <1>1, <2>3, DomainAssumption DEF RemoveUnmark, CallOK, ScanOK, InBind, Free, Live
  <2>8. LockStep(t, "filter", j)
    BY <1>12, <1>1, <2>3 DEF RemoveUnmark, CallOK, LockStep, InBind, o
  <2>9. MarkStep(t, "filter", j) /\ operating' \subseteq Account
    BY <1>12, <1>1, <1>2, <2>3, DomainAssumption DEF RemoveUnmark, CallOK, MarkStep, Holds,
       InBind, Shared, o
  <2>10. UNCHANGED <<record, flag, plugin, unbinds>>
    BY <2>1
  <2> QED BY <2>3, <2>4, <2>5, <2>6, <2>7, <2>8, <2>9, <2>10, LocalStep
<1>13. CASE o.back \notin {"remove", "filter"}
  <2>1. GoWith(t, "garbage", [NoJob EXCEPT !.todo = o.todo])
        /\ UNCHANGED <<record, flag, plugin, unbinds>>
    BY <1>1, <1>13 DEF RemoveUnmark, GoWith, Go, files, Threads, o
  <2>2. [NoJob EXCEPT !.todo = o.todo] \in Job
    BY <1>13, <1>1, <1>3 DEF Job, Backs, NoJob, GetOsAccountIdList
  <2>3. PICK j \in Job : /\ GoWith(t, "garbage", j)
                    /\ j.acct = 0 /\ j.domain = None /\ j.select = Removed /\ j.cur = 0
                    /\ j.snap = Removed /\ j.stored = None /\ j.back = "none"
                    /\ j.ok = TRUE /\ j.todo = o.todo /\ j.found = {} /\ j.isBound = FALSE
    BY <1>1, <2>1, <2>2 DEF Job, NoJob
  <2> HIDE <2>1, <2>2
  <2>4. CallOK("garbage", j)
    BY <1>13, <1>1, <2>3, DomainAssumption DEF RemoveUnmark, CallOK, InBind, Free, Job
  <2>5. CopyOK("garbage", j)
    BY <1>13, <1>1, <2>3, DomainAssumption DEF RemoveUnmark, CallOK, CopyOK, InBind, Free, Removed
  <2>6. WorkOK("garbage", j)
    BY <1>13, <1>1, <2>3, DomainAssumption DEF RemoveUnmark, CallOK, CopyOK, WorkOK, InBind, Free
  <2>7. ScanOK("garbage", j)
    BY <1>13, <1>1, <2>3, DomainAssumption DEF RemoveUnmark, CallOK, ScanOK, InBind, Free, Live
  <2>8. LockStep(t, "garbage", j)
    BY <1>13, <1>1, <2>3 DEF RemoveUnmark, CallOK, LockStep, InBind, o
  <2>9. MarkStep(t, "garbage", j) /\ operating' \subseteq Account
    BY <1>13, <1>1, <1>2, <2>3, DomainAssumption DEF RemoveUnmark, CallOK, MarkStep, Holds,
       InBind, Shared, o
  <2>10. UNCHANGED <<record, flag, plugin, unbinds>>
    BY <2>1
  <2> QED BY <2>3, <2>4, <2>5, <2>6, <2>7, <2>8, <2>9, <2>10, LocalStep
<1> QED BY <1>10, <1>11, <1>12, <1>13 DEF RemoveUnmark

LEMMA CleanGarbageMarkStep ==
    ASSUME IInv, NEW t \in Thread, CleanGarbageMark(t)
    PROVE  IInv'
<1> DEFINE o == job[t]
<1>1. /\ o \in Job /\ pc[t] \in Places /\ Shared /\ Threads
      /\ CallOK(pc[t], o) /\ CopyOK(pc[t], o) /\ WorkOK(pc[t], o) /\ ScanOK(pc[t], o)
  BY DEF IInv, Threads, Locals
<1>2. \A a \in Account : Holds(pc[t], o, a) => a \in operating
  BY DEF IInv, Marks
<1>3. Removed \in Rec /\ \A a \in Account : record[a] \in Rec
  BY <1>1 DEF Shared, Removed, Rec
<1>4. o.todo # {} => Min(o.todo) \in o.todo
  BY <1>1, MinIn, DomainAssumption DEF Job
<1>5. PICK m : m = Min(o.todo)
  OBVIOUS
<1>6. o.todo # {} => m \in o.todo /\ m \in Account
  BY <1>1, <1>4, <1>5 DEF Job
<1> HIDE DEF o
<1> USE DEF Places, BindPlaces, RecPlaces, RmPlaces, CleanPlaces
<1>10. CASE o.todo = {}
  <2>1. GoWith(t, "clean", [NoJob EXCEPT !.todo = GetOsAccountIdList])
        /\ UNCHANGED <<record, flag, plugin, unbinds>>
    BY <1>1, <1>10, <1>4, <1>5, <1>6 DEF CleanGarbageMark, GoWith, Go, files, Threads, o
  <2>2. [NoJob EXCEPT !.todo = GetOsAccountIdList] \in Job
    BY <1>10, <1>1, <1>3, <1>6 DEF Job, Backs, NoJob, GetOsAccountIdList
  <2>3. PICK j \in Job : /\ GoWith(t, "clean", j)
                    /\ j.acct = 0 /\ j.domain = None /\ j.select = Removed /\ j.cur = 0
                    /\ j.snap = Removed /\ j.stored = None /\ j.back = "none"
                    /\ j.ok = TRUE /\ j.todo = GetOsAccountIdList
                    /\ j.found = {} /\ j.isBound = FALSE
    BY <1>1, <2>1, <2>2 DEF Job, NoJob
  <2> HIDE <2>1, <2>2
  <2>4. CallOK("clean", j)
    BY <1>10, <1>1, <2>3, <1>6, DomainAssumption DEF CleanGarbageMark, CallOK, InBind, Free, Job
  <2>5. CopyOK("clean", j)
    BY <1>10, <1>1, <2>3, <1>6, DomainAssumption DEF CleanGarbageMark, CallOK, CopyOK, InBind,
       Free, Removed
  <2>6. WorkOK("clean", j)
    BY <1>10, <1>1, <2>3, <1>6, DomainAssumption DEF CleanGarbageMark, CallOK, CopyOK, WorkOK,
       InBind, Free
  <2>7. ScanOK("clean", j)
    BY <1>10, <1>1, <2>3, <1>6, DomainAssumption DEF CleanGarbageMark, CallOK, ScanOK, InBind,
       Free, Live
  <2>8. LockStep(t, "clean", j)
    BY <1>10, <1>1, <2>3 DEF CleanGarbageMark, CallOK, LockStep, InBind, o
  <2>9. MarkStep(t, "clean", j) /\ operating' \subseteq Account
    BY <1>10, <1>1, <1>2, <2>3, <1>6, DomainAssumption DEF CleanGarbageMark, CallOK, MarkStep,
       Holds, InBind, Shared, o
  <2>10. UNCHANGED <<record, flag, plugin, unbinds>>
    BY <2>1
  <2> QED BY <2>3, <2>4, <2>5, <2>6, <2>7, <2>8, <2>9, <2>10, LocalStep
<1>11. CASE o.todo # {} /\ m \in operating
  <2>0. operating' = operating /\ pc[t] = "garbage"
    BY <1>11, <1>4, <1>5, <1>6 DEF CleanGarbageMark, o
  <2>1. GoWith(t, "garbage", [o EXCEPT !.todo = o.todo \ {m}])
        /\ UNCHANGED <<record, flag, plugin, unbinds>>
    BY <1>1, <1>11, <1>4, <1>5, <1>6 DEF CleanGarbageMark, GoWith, Go, files, Threads, o
  <2>2. [o EXCEPT !.todo = o.todo \ {m}] \in Job
    BY <1>11, <1>1, <1>3, <1>6 DEF Job, Backs, NoJob, GetOsAccountIdList
  <2>3. PICK j \in Job : /\ GoWith(t, "garbage", j)
                    /\ j.acct = o.acct /\ j.domain = o.domain
                    /\ j.select = o.select /\ j.cur = o.cur
                    /\ j.snap = o.snap /\ j.stored = o.stored /\ j.back = o.back
                    /\ j.ok = o.ok /\ j.todo = o.todo \ {m}
                    /\ j.found = o.found /\ j.isBound = o.isBound
    BY <1>1, <2>1, <2>2 DEF Job, NoJob
  <2> HIDE <2>1, <2>2
  <2>4. CallOK("garbage", j)
    BY <1>11, <1>1, <2>3, <1>6, DomainAssumption DEF CleanGarbageMark, CallOK, InBind, Free, Job
  <2>5. CopyOK("garbage", j)
    BY <1>11, <1>1, <2>3, <1>6, DomainAssumption DEF CleanGarbageMark, CallOK, CopyOK, InBind,
       Free, Removed
  <2>6. WorkOK("garbage", j)
    BY <1>11, <1>1, <2>3, <1>6, DomainAssumption DEF CleanGarbageMark, CallOK, CopyOK, WorkOK,
       InBind, Free
  <2>7. ScanOK("garbage", j)
    BY <1>11, <1>1, <2>0, <2>3, <1>6, DomainAssumption DEF CallOK, ScanOK, InBind, Free, Live
  <2>8. LockStep(t, "garbage", j)
    BY <1>11, <1>1, <2>3 DEF CleanGarbageMark, CallOK, LockStep, InBind, o
  <2>9. MarkStep(t, "garbage", j) /\ operating' \subseteq Account
    BY <1>11, <1>1, <1>2, <2>0, <2>3, <1>6, DomainAssumption DEF CallOK, MarkStep, Holds, InBind,
       Shared, o
  <2>10. UNCHANGED <<record, flag, plugin, unbinds>>
    BY <2>1
  <2> QED BY <2>3, <2>4, <2>5, <2>6, <2>7, <2>8, <2>9, <2>10, LocalStep
<1>12. CASE o.todo # {} /\ m \notin operating
  <2>0. operating' = operating \cup {m} /\ pc[t] = "garbage"
    BY <1>12, <1>4, <1>5, <1>6 DEF CleanGarbageMark, o
  <2>1. GoWith(t, "garbageRead", [o EXCEPT !.todo = o.todo \ {m}, !.cur = m, !.back = "garbage"])
        /\ UNCHANGED <<record, flag, plugin, unbinds>>
    BY <1>1, <1>12, <1>4, <1>5, <1>6 DEF CleanGarbageMark, GoWith, Go, files, Threads, o
  <2>2. [o EXCEPT !.todo = o.todo \ {m}, !.cur = m, !.back = "garbage"] \in Job
    BY <1>12, <1>1, <1>3, <1>6 DEF Job, Backs, NoJob, GetOsAccountIdList
  <2>3. PICK j \in Job : /\ GoWith(t, "garbageRead", j)
                    /\ j.acct = o.acct /\ j.domain = o.domain /\ j.select = o.select /\ j.cur = m
                    /\ j.snap = o.snap /\ j.stored = o.stored /\ j.back = "garbage"
                    /\ j.ok = o.ok /\ j.todo = o.todo \ {m}
                    /\ j.found = o.found /\ j.isBound = o.isBound
    BY <1>1, <2>1, <2>2 DEF Job, NoJob
  <2> HIDE <2>1, <2>2
  <2>4. CallOK("garbageRead", j)
    BY <1>12, <1>1, <2>3, <1>6, DomainAssumption DEF CleanGarbageMark, CallOK, InBind, Free, Job
  <2>5. CopyOK("garbageRead", j)
    BY <1>12, <1>1, <2>3, <1>6, DomainAssumption DEF CleanGarbageMark, CallOK, CopyOK, InBind,
       Free, Removed
  <2>6. WorkOK("garbageRead", j)
    BY <1>12, <1>1, <2>3, <1>6, DomainAssumption DEF CleanGarbageMark, CallOK, CopyOK, WorkOK,
       InBind, Free
  <2>7. ScanOK("garbageRead", j)
    BY <1>12, <1>1, <2>0, <2>3, <1>6, DomainAssumption DEF CallOK, ScanOK, InBind, Free, Live
  <2>8. LockStep(t, "garbageRead", j)
    BY <1>12, <1>1, <2>3 DEF CleanGarbageMark, CallOK, LockStep, InBind, o
  <2>9. MarkStep(t, "garbageRead", j) /\ operating' \subseteq Account
    BY <1>12, <1>1, <1>2, <2>0, <2>3, <1>6, DomainAssumption DEF CallOK, MarkStep, Holds, InBind,
       Shared, o
  <2>10. UNCHANGED <<record, flag, plugin, unbinds>>
    BY <2>1
  <2> QED BY <2>3, <2>4, <2>5, <2>6, <2>7, <2>8, <2>9, <2>10, LocalStep
<1> QED BY <1>10, <1>11, <1>12 DEF CleanGarbageMark

LEMMA CleanUnbindMarkStep ==
    ASSUME IInv, NEW t \in Thread, CleanUnbindMark(t)
    PROVE  IInv'
<1> DEFINE o == job[t]
<1>1. /\ o \in Job /\ pc[t] \in Places /\ Shared /\ Threads
      /\ CallOK(pc[t], o) /\ CopyOK(pc[t], o) /\ WorkOK(pc[t], o) /\ ScanOK(pc[t], o)
  BY DEF IInv, Threads, Locals
<1>2. \A a \in Account : Holds(pc[t], o, a) => a \in operating
  BY DEF IInv, Marks
<1>3. Removed \in Rec /\ \A a \in Account : record[a] \in Rec
  BY <1>1 DEF Shared, Removed, Rec
<1>4. o.todo # {} => Min(o.todo) \in o.todo
  BY <1>1, MinIn, DomainAssumption DEF Job
<1>5. PICK m : m = Min(o.todo)
  OBVIOUS
<1>6. o.todo # {} => m \in o.todo /\ m \in Account
  BY <1>1, <1>4, <1>5 DEF Job
<1> HIDE DEF o
<1> USE DEF Places, BindPlaces, RecPlaces, RmPlaces, CleanPlaces
<1>10. CASE o.todo = {}
  <2>1. GoWith(t, "idle", NoJob) /\ UNCHANGED <<record, flag, plugin, unbinds>>
    BY <1>1, <1>10, <1>4, <1>5, <1>6 DEF CleanUnbindMark, GoWith, Go, files, Threads, o
  <2>2. NoJob \in Job
    BY <1>10, <1>1, <1>3, <1>6 DEF Job, Backs, NoJob, GetOsAccountIdList
  <2>3. PICK j \in Job : /\ GoWith(t, "idle", j)
                    /\ j.acct = 0 /\ j.domain = None /\ j.select = Removed /\ j.cur = 0
                    /\ j.snap = Removed /\ j.stored = None /\ j.back = "none"
                    /\ j.ok = TRUE /\ j.todo = {} /\ j.found = {} /\ j.isBound = FALSE
    BY <1>1, <2>1, <2>2 DEF Job, NoJob
  <2> HIDE <2>1, <2>2
  <2>4. CallOK("idle", j)
    BY <1>10, <1>1, <2>3, <1>6, DomainAssumption DEF CleanUnbindMark, CallOK, InBind, Free, Job
  <2>5. CopyOK("idle", j)
    BY <1>10, <1>1, <2>3, <1>6, DomainAssumption DEF CleanUnbindMark, CallOK, CopyOK, InBind,
       Free, Removed
  <2>6. WorkOK("idle", j)
    BY <1>10, <1>1, <2>3, <1>6, DomainAssumption DEF CleanUnbindMark, CallOK, CopyOK, WorkOK,
       InBind, Free
  <2>7. ScanOK("idle", j)
    BY <1>10, <1>1, <2>3, <1>6, DomainAssumption DEF CleanUnbindMark, CallOK, ScanOK, InBind,
       Free, Live
  <2>8. LockStep(t, "idle", j)
    BY <1>10, <1>1, <2>3 DEF CleanUnbindMark, CallOK, LockStep, InBind, o
  <2>9. MarkStep(t, "idle", j) /\ operating' \subseteq Account
    BY <1>10, <1>1, <1>2, <2>3, <1>6, DomainAssumption DEF CleanUnbindMark, CallOK, MarkStep,
       Holds, InBind, Shared, o
  <2>10. UNCHANGED <<record, flag, plugin, unbinds>>
    BY <2>1
  <2> QED BY <2>3, <2>4, <2>5, <2>6, <2>7, <2>8, <2>9, <2>10, LocalStep
<1>11. CASE o.todo # {} /\ m \in operating
  <2>0. operating' = operating /\ pc[t] = "clean"
    BY <1>11, <1>4, <1>5, <1>6 DEF CleanUnbindMark, o
  <2>1. GoWith(t, "clean", [o EXCEPT !.todo = o.todo \ {m}])
        /\ UNCHANGED <<record, flag, plugin, unbinds>>
    BY <1>1, <1>11, <1>4, <1>5, <1>6 DEF CleanUnbindMark, GoWith, Go, files, Threads, o
  <2>2. [o EXCEPT !.todo = o.todo \ {m}] \in Job
    BY <1>11, <1>1, <1>3, <1>6 DEF Job, Backs, NoJob, GetOsAccountIdList
  <2>3. PICK j \in Job : /\ GoWith(t, "clean", j)
                    /\ j.acct = o.acct /\ j.domain = o.domain
                    /\ j.select = o.select /\ j.cur = o.cur
                    /\ j.snap = o.snap /\ j.stored = o.stored /\ j.back = o.back
                    /\ j.ok = o.ok /\ j.todo = o.todo \ {m}
                    /\ j.found = o.found /\ j.isBound = o.isBound
    BY <1>1, <2>1, <2>2 DEF Job, NoJob
  <2> HIDE <2>1, <2>2
  <2>4. CallOK("clean", j)
    BY <1>11, <1>1, <2>3, <1>6, DomainAssumption DEF CleanUnbindMark, CallOK, InBind, Free, Job
  <2>5. CopyOK("clean", j)
    BY <1>11, <1>1, <2>3, <1>6, DomainAssumption DEF CleanUnbindMark, CallOK, CopyOK, InBind,
       Free, Removed
  <2>6. WorkOK("clean", j)
    BY <1>11, <1>1, <2>3, <1>6, DomainAssumption DEF CleanUnbindMark, CallOK, CopyOK, WorkOK,
       InBind, Free
  <2>7. ScanOK("clean", j)
    BY <1>11, <1>1, <2>0, <2>3, <1>6, DomainAssumption DEF CallOK, ScanOK, InBind, Free, Live
  <2>8. LockStep(t, "clean", j)
    BY <1>11, <1>1, <2>3 DEF CleanUnbindMark, CallOK, LockStep, InBind, o
  <2>9. MarkStep(t, "clean", j) /\ operating' \subseteq Account
    BY <1>11, <1>1, <1>2, <2>0, <2>3, <1>6, DomainAssumption DEF CallOK, MarkStep, Holds, InBind,
       Shared, o
  <2>10. UNCHANGED <<record, flag, plugin, unbinds>>
    BY <2>1
  <2> QED BY <2>3, <2>4, <2>5, <2>6, <2>7, <2>8, <2>9, <2>10, LocalStep
<1>12. CASE o.todo # {} /\ m \notin operating
  <2>0. operating' = operating \cup {m} /\ pc[t] = "clean"
    BY <1>12, <1>4, <1>5, <1>6 DEF CleanUnbindMark, o
  <2>1. GoWith(t, "cleanRead", [o EXCEPT !.todo = o.todo \ {m}, !.cur = m, !.back = "clean"])
        /\ UNCHANGED <<record, flag, plugin, unbinds>>
    BY <1>1, <1>12, <1>4, <1>5, <1>6 DEF CleanUnbindMark, GoWith, Go, files, Threads, o
  <2>2. [o EXCEPT !.todo = o.todo \ {m}, !.cur = m, !.back = "clean"] \in Job
    BY <1>12, <1>1, <1>3, <1>6 DEF Job, Backs, NoJob, GetOsAccountIdList
  <2>3. PICK j \in Job : /\ GoWith(t, "cleanRead", j)
                    /\ j.acct = o.acct /\ j.domain = o.domain /\ j.select = o.select /\ j.cur = m
                    /\ j.snap = o.snap /\ j.stored = o.stored /\ j.back = "clean"
                    /\ j.ok = o.ok /\ j.todo = o.todo \ {m}
                    /\ j.found = o.found /\ j.isBound = o.isBound
    BY <1>1, <2>1, <2>2 DEF Job, NoJob
  <2> HIDE <2>1, <2>2
  <2>4. CallOK("cleanRead", j)
    BY <1>12, <1>1, <2>3, <1>6, DomainAssumption DEF CleanUnbindMark, CallOK, InBind, Free, Job
  <2>5. CopyOK("cleanRead", j)
    BY <1>12, <1>1, <2>3, <1>6, DomainAssumption DEF CleanUnbindMark, CallOK, CopyOK, InBind,
       Free, Removed
  <2>6. WorkOK("cleanRead", j)
    BY <1>12, <1>1, <2>3, <1>6, DomainAssumption DEF CleanUnbindMark, CallOK, CopyOK, WorkOK,
       InBind, Free
  <2>7. ScanOK("cleanRead", j)
    BY <1>12, <1>1, <2>0, <2>3, <1>6, DomainAssumption DEF CallOK, ScanOK, InBind, Free, Live
  <2>8. LockStep(t, "cleanRead", j)
    BY <1>12, <1>1, <2>3 DEF CleanUnbindMark, CallOK, LockStep, InBind, o
  <2>9. MarkStep(t, "cleanRead", j) /\ operating' \subseteq Account
    BY <1>12, <1>1, <1>2, <2>0, <2>3, <1>6, DomainAssumption DEF CallOK, MarkStep, Holds, InBind,
       Shared, o
  <2>10. UNCHANGED <<record, flag, plugin, unbinds>>
    BY <2>1
  <2> QED BY <2>3, <2>4, <2>5, <2>6, <2>7, <2>8, <2>9, <2>10, LocalStep
<1> QED BY <1>10, <1>11, <1>12 DEF CleanUnbindMark

LEMMA CleanGarbageOsAccountsStep ==
    ASSUME IInv, NEW t \in Thread, CleanGarbageOsAccounts(t)
    PROVE  IInv'
<1> DEFINE o == job[t]
<1>1. /\ o \in Job /\ pc[t] \in Places /\ Shared /\ Threads
      /\ CallOK(pc[t], o) /\ CopyOK(pc[t], o) /\ WorkOK(pc[t], o) /\ ScanOK(pc[t], o)
  BY DEF IInv, Threads, Locals
<1>2. \A a \in Account : Holds(pc[t], o, a) => a \in operating
  BY DEF IInv, Marks
<1>3. Removed \in Rec /\ \A a \in Account : record[a] \in Rec
  BY <1>1 DEF Shared, Removed, Rec
<1>4. o.cur \in Account
  BY <1>1 DEF CleanGarbageOsAccounts, CallOK, InBind, RmPlaces, RecPlaces, o
<1> HIDE DEF o
<1> USE DEF Places, BindPlaces, RecPlaces, RmPlaces, CleanPlaces
<1>10. CASE record[o.cur].toBeRemoved
  <2>1. GoWith(t, "rmPrepare", [o EXCEPT !.snap = record[o.cur]])
        /\ UNCHANGED <<record, flag, plugin, unbinds>>
    BY <1>1, <1>10, <1>4 DEF CleanGarbageOsAccounts, GoWith, Go, files, Threads, o
  <2>2. [o EXCEPT !.snap = record[o.cur]] \in Job
    BY <1>10, <1>1, <1>3, <1>4 DEF Job, Backs, NoJob, GetOsAccountIdList
  <2>3. PICK j \in Job : /\ GoWith(t, "rmPrepare", j)
                    /\ j.acct = o.acct /\ j.domain = o.domain
                    /\ j.select = o.select /\ j.cur = o.cur
                    /\ j.snap = record[o.cur] /\ j.stored = o.stored /\ j.back = o.back
                    /\ j.ok = o.ok /\ j.todo = o.todo /\ j.found = o.found /\ j.isBound = o.isBound
    BY <1>1, <2>1, <2>2 DEF Job, NoJob
  <2> HIDE <2>1, <2>2
  <2>4. CallOK("rmPrepare", j)
    BY <1>10, <1>1, <2>3, <1>4, DomainAssumption DEF CleanGarbageOsAccounts, CallOK, InBind, Free,
       Job
  <2>5. CopyOK("rmPrepare", j)
    BY <1>10, <1>1, <2>3, <1>4, DomainAssumption DEF CleanGarbageOsAccounts, CallOK, CopyOK,
       InBind, Free, Removed
  <2>6. WorkOK("rmPrepare", j)
    BY <1>10, <1>1, <2>3, <1>4, DomainAssumption DEF CleanGarbageOsAccounts, CallOK, CopyOK,
       WorkOK, InBind, Free
  <2>7. ScanOK("rmPrepare", j)
    BY <1>10, <1>1, <2>3, <1>4, DomainAssumption DEF CleanGarbageOsAccounts, CallOK, ScanOK,
       InBind, Free, Live
  <2>8. LockStep(t, "rmPrepare", j)
    BY <1>10, <1>1, <2>3 DEF CleanGarbageOsAccounts, CallOK, LockStep, InBind, o
  <2>9. MarkStep(t, "rmPrepare", j) /\ operating' \subseteq Account
    BY <1>10, <1>1, <1>2, <2>3, <1>4, DomainAssumption DEF CleanGarbageOsAccounts, CallOK,
       MarkStep, Holds, InBind, Shared, o
  <2>10. UNCHANGED <<record, flag, plugin, unbinds>>
    BY <2>1
  <2> QED BY <2>3, <2>4, <2>5, <2>6, <2>7, <2>8, <2>9, <2>10, LocalStep
<1>11. CASE ~record[o.cur].toBeRemoved
  <2>1. GoWith(t, "rmUnmark", [o EXCEPT !.snap = o.snap])
        /\ UNCHANGED <<record, flag, plugin, unbinds>>
    BY <1>1, <1>11, <1>4 DEF CleanGarbageOsAccounts, GoWith, Go, files, Threads, o
  <2>2. [o EXCEPT !.snap = o.snap] \in Job
    BY <1>11, <1>1, <1>3, <1>4 DEF Job, Backs, NoJob, GetOsAccountIdList
  <2>3. PICK j \in Job : /\ GoWith(t, "rmUnmark", j)
                    /\ j.acct = o.acct /\ j.domain = o.domain
                    /\ j.select = o.select /\ j.cur = o.cur
                    /\ j.snap = o.snap /\ j.stored = o.stored /\ j.back = o.back
                    /\ j.ok = o.ok /\ j.todo = o.todo /\ j.found = o.found /\ j.isBound = o.isBound
    BY <1>1, <2>1, <2>2 DEF Job, NoJob
  <2> HIDE <2>1, <2>2
  <2>4. CallOK("rmUnmark", j)
    BY <1>11, <1>1, <2>3, <1>4, DomainAssumption DEF CleanGarbageOsAccounts, CallOK, InBind, Free,
       Job
  <2>5. CopyOK("rmUnmark", j)
    BY <1>11, <1>1, <2>3, <1>4, DomainAssumption DEF CleanGarbageOsAccounts, CallOK, CopyOK,
       InBind, Free, Removed
  <2>6. WorkOK("rmUnmark", j)
    BY <1>11, <1>1, <2>3, <1>4, DomainAssumption DEF CleanGarbageOsAccounts, CallOK, CopyOK,
       WorkOK, InBind, Free
  <2>7. ScanOK("rmUnmark", j)
    BY <1>11, <1>1, <2>3, <1>4, DomainAssumption DEF CleanGarbageOsAccounts, CallOK, ScanOK,
       InBind, Free, Live
  <2>8. LockStep(t, "rmUnmark", j)
    BY <1>11, <1>1, <2>3 DEF CleanGarbageOsAccounts, CallOK, LockStep, InBind, o
  <2>9. MarkStep(t, "rmUnmark", j) /\ operating' \subseteq Account
    BY <1>11, <1>1, <1>2, <2>3, <1>4, DomainAssumption DEF CleanGarbageOsAccounts, CallOK,
       MarkStep, Holds, InBind, Shared, o
  <2>10. UNCHANGED <<record, flag, plugin, unbinds>>
    BY <2>1
  <2> QED BY <2>3, <2>4, <2>5, <2>6, <2>7, <2>8, <2>9, <2>10, LocalStep
<1> QED BY <1>10, <1>11 DEF CleanGarbageOsAccounts

LEMMA CleanUnbindDomainAccountStep ==
    ASSUME IInv, NEW t \in Thread, CleanUnbindDomainAccount(t)
    PROVE  IInv'
<1> DEFINE o == job[t]
<1>1. /\ o \in Job /\ pc[t] \in Places /\ Shared /\ Threads
      /\ CallOK(pc[t], o) /\ CopyOK(pc[t], o) /\ WorkOK(pc[t], o) /\ ScanOK(pc[t], o)
  BY DEF IInv, Threads, Locals
<1>2. \A a \in Account : Holds(pc[t], o, a) => a \in operating
  BY DEF IInv, Marks
<1>3. Removed \in Rec /\ \A a \in Account : record[a] \in Rec
  BY <1>1 DEF Shared, Removed, Rec
<1>4. o.cur \in Account
  BY <1>1 DEF CleanUnbindDomainAccount, CallOK, InBind, RmPlaces, RecPlaces, o
<1> HIDE DEF o
<1> USE DEF Places, BindPlaces, RecPlaces, RmPlaces, CleanPlaces
<1>10. CASE record[o.cur].exists
  <2>1. GoWith(t, "flag", [o EXCEPT !.snap = record[o.cur]])
        /\ UNCHANGED <<record, flag, plugin, unbinds>>
    BY <1>1, <1>10, <1>4 DEF CleanUnbindDomainAccount, GoWith, Go, files, Threads, o
  <2>2. [o EXCEPT !.snap = record[o.cur]] \in Job
    BY <1>10, <1>1, <1>3, <1>4 DEF Job, Backs, NoJob, GetOsAccountIdList
  <2>3. PICK j \in Job : /\ GoWith(t, "flag", j)
                    /\ j.acct = o.acct /\ j.domain = o.domain
                    /\ j.select = o.select /\ j.cur = o.cur
                    /\ j.snap = record[o.cur] /\ j.stored = o.stored /\ j.back = o.back
                    /\ j.ok = o.ok /\ j.todo = o.todo /\ j.found = o.found /\ j.isBound = o.isBound
    BY <1>1, <2>1, <2>2 DEF Job, NoJob
  <2> HIDE <2>1, <2>2
  <2>4. CallOK("flag", j)
    BY <1>10, <1>1, <2>3, <1>4, DomainAssumption DEF CleanUnbindDomainAccount, CallOK, InBind,
       Free, Job
  <2>5. CopyOK("flag", j)
    BY <1>10, <1>1, <2>3, <1>4, DomainAssumption DEF CleanUnbindDomainAccount, CallOK, CopyOK,
       InBind, Free, Removed
  <2>6. WorkOK("flag", j)
    BY <1>10, <1>1, <2>3, <1>4, DomainAssumption DEF CleanUnbindDomainAccount, CallOK, CopyOK,
       WorkOK, InBind, Free
  <2>7. ScanOK("flag", j)
    BY <1>10, <1>1, <2>3, <1>4, DomainAssumption DEF CleanUnbindDomainAccount, CallOK, ScanOK,
       InBind, Free, Live
  <2>8. LockStep(t, "flag", j)
    BY <1>10, <1>1, <2>3 DEF CleanUnbindDomainAccount, CallOK, LockStep, InBind, o
  <2>9. MarkStep(t, "flag", j) /\ operating' \subseteq Account
    BY <1>10, <1>1, <1>2, <2>3, <1>4, DomainAssumption DEF CleanUnbindDomainAccount, CallOK,
       MarkStep, Holds, InBind, Shared, o
  <2>10. UNCHANGED <<record, flag, plugin, unbinds>>
    BY <2>1
  <2> QED BY <2>3, <2>4, <2>5, <2>6, <2>7, <2>8, <2>9, <2>10, LocalStep
<1>11. CASE ~record[o.cur].exists
  <2>1. GoWith(t, "cleanUnmark", [o EXCEPT !.snap = record[o.cur]])
        /\ UNCHANGED <<record, flag, plugin, unbinds>>
    BY <1>1, <1>11, <1>4 DEF CleanUnbindDomainAccount, GoWith, Go, files, Threads, o
  <2>2. [o EXCEPT !.snap = record[o.cur]] \in Job
    BY <1>11, <1>1, <1>3, <1>4 DEF Job, Backs, NoJob, GetOsAccountIdList
  <2>3. PICK j \in Job : /\ GoWith(t, "cleanUnmark", j)
                    /\ j.acct = o.acct /\ j.domain = o.domain
                    /\ j.select = o.select /\ j.cur = o.cur
                    /\ j.snap = record[o.cur] /\ j.stored = o.stored /\ j.back = o.back
                    /\ j.ok = o.ok /\ j.todo = o.todo /\ j.found = o.found /\ j.isBound = o.isBound
    BY <1>1, <2>1, <2>2 DEF Job, NoJob
  <2> HIDE <2>1, <2>2
  <2>4. CallOK("cleanUnmark", j)
    BY <1>11, <1>1, <2>3, <1>4, DomainAssumption DEF CleanUnbindDomainAccount, CallOK, InBind,
       Free, Job
  <2>5. CopyOK("cleanUnmark", j)
    BY <1>11, <1>1, <2>3, <1>4, DomainAssumption DEF CleanUnbindDomainAccount, CallOK, CopyOK,
       InBind, Free, Removed
  <2>6. WorkOK("cleanUnmark", j)
    BY <1>11, <1>1, <2>3, <1>4, DomainAssumption DEF CleanUnbindDomainAccount, CallOK, CopyOK,
       WorkOK, InBind, Free
  <2>7. ScanOK("cleanUnmark", j)
    BY <1>11, <1>1, <2>3, <1>4, DomainAssumption DEF CleanUnbindDomainAccount, CallOK, ScanOK,
       InBind, Free, Live
  <2>8. LockStep(t, "cleanUnmark", j)
    BY <1>11, <1>1, <2>3 DEF CleanUnbindDomainAccount, CallOK, LockStep, InBind, o
  <2>9. MarkStep(t, "cleanUnmark", j) /\ operating' \subseteq Account
    BY <1>11, <1>1, <1>2, <2>3, <1>4, DomainAssumption DEF CleanUnbindDomainAccount, CallOK,
       MarkStep, Holds, InBind, Shared, o
  <2>10. UNCHANGED <<record, flag, plugin, unbinds>>
    BY <2>1
  <2> QED BY <2>3, <2>4, <2>5, <2>6, <2>7, <2>8, <2>9, <2>10, LocalStep
<1> QED BY <1>10, <1>11 DEF CleanUnbindDomainAccount

LEMMA CleanUnbindUnmarkStep ==
    ASSUME IInv, NEW t \in Thread, CleanUnbindUnmark(t)
    PROVE  IInv'
<1> DEFINE o == job[t]
<1>1. /\ o \in Job /\ pc[t] \in Places /\ Shared /\ Threads
      /\ CallOK(pc[t], o) /\ CopyOK(pc[t], o) /\ WorkOK(pc[t], o) /\ ScanOK(pc[t], o)
  BY DEF IInv, Threads, Locals
<1>2. \A a \in Account : Holds(pc[t], o, a) => a \in operating
  BY DEF IInv, Marks
<1>3. Removed \in Rec /\ \A a \in Account : record[a] \in Rec
  BY <1>1 DEF Shared, Removed, Rec
<1> HIDE DEF o
<1> USE DEF Places, BindPlaces, RecPlaces, RmPlaces, CleanPlaces
<1>10. CASE TRUE
  <2>1. GoWith(t, "clean", o) /\ UNCHANGED <<record, flag, plugin, unbinds>>
    BY <1>1, <1>10 DEF CleanUnbindUnmark, GoWith, Go, files, Threads, o
  <2>2. o \in Job
    BY <1>10, <1>1, <1>3 DEF Job, Backs, NoJob, GetOsAccountIdList
  <2>3. PICK j \in Job : /\ GoWith(t, "clean", j)
                    /\ j.acct = o.acct /\ j.domain = o.domain
                    /\ j.select = o.select /\ j.cur = o.cur
                    /\ j.snap = o.snap /\ j.stored = o.stored /\ j.back = o.back
                    /\ j.ok = o.ok /\ j.todo = o.todo /\ j.found = o.found /\ j.isBound = o.isBound
    BY <1>1, <2>1, <2>2 DEF Job, NoJob
  <2> HIDE <2>1, <2>2
  <2>4. CallOK("clean", j)
    BY <1>10, <1>1, <2>3, DomainAssumption DEF CleanUnbindUnmark, CallOK, InBind, Free, Job
  <2>5. CopyOK("clean", j)
    BY <1>10, <1>1, <2>3, DomainAssumption DEF CleanUnbindUnmark, CallOK, CopyOK, InBind, Free,
       Removed
  <2>6. WorkOK("clean", j)
    BY <1>10, <1>1, <2>3, DomainAssumption DEF CleanUnbindUnmark, CallOK, CopyOK, WorkOK, InBind,
       Free
  <2>7. ScanOK("clean", j)
    BY <1>10, <1>1, <2>3, DomainAssumption DEF CleanUnbindUnmark, CallOK, ScanOK, InBind, Free, Live
  <2>8. LockStep(t, "clean", j)
    BY <1>10, <1>1, <2>3 DEF CleanUnbindUnmark, CallOK, LockStep, InBind, o
  <2>9. MarkStep(t, "clean", j) /\ operating' \subseteq Account
    BY <1>10, <1>1, <1>2, <2>3, DomainAssumption DEF CleanUnbindUnmark, CallOK, MarkStep, Holds,
       InBind, Shared, o
  <2>10. UNCHANGED <<record, flag, plugin, unbinds>>
    BY <2>1
  <2> QED BY <2>3, <2>4, <2>5, <2>6, <2>7, <2>8, <2>9, <2>10, LocalStep
<1> QED BY <1>10 DEF CleanUnbindUnmark

\* Where a recovery ends, the caller finds what it relies on: the account that
\* was recovered is bound by its record or not at all.
LEMMA RecoveredLands ==
    ASSUME IInv, NEW t \in Thread, pc[t] \in RecPlaces, NEW ok \in BOOLEAN, Recovered(t, ok),
           ok /\ record[job[t].cur].exists =>
              \A y \in Domain : <<y, job[t].cur>> \in plugin => record[job[t].cur].domain = y
    PROVE  \E l \in {"scan", "cleanUnmark", "unmark"}, j \in Job :
              /\ GoWith(t, l, j)
              /\ CallOK(l, j) /\ CopyOK(l, j) /\ WorkOK(l, j) /\ ScanOK(l, j)
              /\ InBind(l, j) <=> InBind(pc[t], job[t])
              /\ \A a \in Account : Holds(l, j, a) <=> Holds(pc[t], job[t], a)
<1> DEFINE o == job[t]
<1>1. /\ o \in Job /\ Shared /\ Threads
      /\ CallOK(pc[t], o) /\ CopyOK(pc[t], o) /\ WorkOK(pc[t], o) /\ ScanOK(pc[t], o)
  BY DEF IInv, Threads, Locals
<1>3. Removed \in Rec /\ o.cur \in Account /\ pc[t] \in {"flag", "recUnbind", "recDelete"}
  BY <1>1 DEF Removed, Rec, CallOK, RecPlaces
<1>4. ok /\ record[o.cur].exists => \A y \in Domain : <<y, o.cur>> \in plugin
        => record[o.cur].domain = y
  OBVIOUS
<1> HIDE DEF o
<1> USE DEF BindPlaces, RecPlaces, RmPlaces
<1>10. CASE o.back = "self" /\ ok /\ o.select.domain = None
  <2>1. GoWith(t, "scan", [[o EXCEPT !.cur = 0, !.snap = Removed, !.stored = None,
                  !.back = "none"] EXCEPT !.todo = GetOsAccountIdList])
    BY <1>10 DEF Recovered, o
  <2>2. [[o EXCEPT !.cur = 0, !.snap = Removed, !.stored = None, !.back = "none"]
                  EXCEPT !.todo = GetOsAccountIdList] \in Job
    BY <1>1, <1>3 DEF Job, Backs, NoJob, GetOsAccountIdList
  <2>3. PICK j \in Job : /\ GoWith(t, "scan", j)
                    /\ j.acct = o.acct /\ j.domain = o.domain /\ j.select = o.select /\ j.cur = 0
                    /\ j.snap = Removed /\ j.stored = None /\ j.back = "none"
                    /\ j.ok = o.ok /\ j.todo = GetOsAccountIdList
                    /\ j.found = o.found /\ j.isBound = o.isBound
    BY <1>1, <2>1, <2>2 DEF Job, NoJob
  <2> HIDE <2>1, <2>2
  <2>4. CallOK("scan", j) /\ (InBind("scan", j) <=> InBind(pc[t], o))
    BY <1>10, <1>1, <1>3, <2>3, DomainAssumption DEF CallOK, InBind, Free
  <2>5. CopyOK("scan", j)
    BY <1>10, <1>1, <1>3, <2>3 DEF CallOK, CopyOK, InBind, Free
  <2>6. WorkOK("scan", j)
    BY <1>10, <1>1, <1>3, <1>4, <2>3, DomainAssumption DEF CallOK, CopyOK, WorkOK, InBind, Free
  <2>7. ScanOK("scan", j)
    BY <1>10, <1>1, <1>3, <1>4, <2>3 DEF CallOK, CopyOK, ScanOK, InBind, Free, Live,
       GetOsAccountIdList
  <2>8. \A a \in Account : Holds("scan", j, a) <=> Holds(pc[t], o, a)
    BY <1>10, <1>1, <1>3, <2>3 DEF CallOK, Holds, InBind
  <2> WITNESS "scan" \in {"scan", "cleanUnmark", "unmark"}, j \in Job
  <2> QED BY <2>3, <2>4, <2>5, <2>6, <2>7, <2>8 DEF o
<1>11. CASE o.back = "scan" /\ ok /\ o.snap.domain = o.domain
  <2>1. GoWith(t, "scan", [[o EXCEPT !.cur = 0, !.snap = Removed, !.stored = None,
                  !.back = "none"] EXCEPT !.found = o.found \cup {<<o.cur, o.snap>>}])
    BY <1>11 DEF Recovered, o
  <2>a. (o.found \cup {<<o.cur, o.snap>>}) \in SUBSET (Account \X Rec)
    BY <1>1, <1>3 DEF Job
  <2>2. [[o EXCEPT !.cur = 0, !.snap = Removed, !.stored = None, !.back = "none"]
                  EXCEPT !.found = o.found \cup {<<o.cur, o.snap>>}] \in Job
    BY <1>1, <1>3, <2>a DEF Job, Backs, NoJob, GetOsAccountIdList
  <2>3. PICK j \in Job : /\ GoWith(t, "scan", j)
                    /\ j.acct = o.acct /\ j.domain = o.domain /\ j.select = o.select /\ j.cur = 0
                    /\ j.snap = Removed /\ j.stored = None /\ j.back = "none"
                    /\ j.ok = o.ok /\ j.todo = o.todo
                    /\ j.found = o.found \cup {<<o.cur, o.snap>>} /\ j.isBound = o.isBound
    BY <1>1, <2>1, <2>2 DEF Job, NoJob
  <2> HIDE <2>1, <2>2
  <2>4. CallOK("scan", j) /\ (InBind("scan", j) <=> InBind(pc[t], o))
    BY <1>11, <1>1, <1>3, <2>3, DomainAssumption DEF CallOK, InBind, Free
  <2>5. CopyOK("scan", j)
    BY <1>11, <1>1, <1>3, <2>3 DEF CallOK, CopyOK, InBind, Free
  <2>6. WorkOK("scan", j)
    BY <1>11, <1>1, <1>3, <1>4, <2>3, DomainAssumption DEF CallOK, CopyOK, WorkOK, InBind, Free
  <2>7. ScanOK("scan", j)
    <3>1. <<o.cur, o.snap>>[1] = o.cur /\ <<o.cur, o.snap>> \in j.found /\ o.found \subseteq j.found
      BY <2>3
    <3> QED BY <1>11, <1>1, <1>3, <2>3, <3>1 DEF ScanOK, Free
  <2>8. \A a \in Account : Holds("scan", j, a) <=> Holds(pc[t], o, a)
    BY <1>11, <1>1, <1>3, <2>3 DEF CallOK, Holds, InBind
  <2> WITNESS "scan" \in {"scan", "cleanUnmark", "unmark"}, j \in Job
  <2> QED BY <2>3, <2>4, <2>5, <2>6, <2>7, <2>8 DEF o
<1>12. CASE o.back = "scan" /\ ok /\ o.snap.domain # o.domain
  <2>1. GoWith(t, "scan", [o EXCEPT !.cur = 0, !.snap = Removed, !.stored = None, !.back = "none"])
    BY <1>12 DEF Recovered, o
  <2>2. [o EXCEPT !.cur = 0, !.snap = Removed, !.stored = None, !.back = "none"] \in Job
    BY <1>1, <1>3 DEF Job, Backs, NoJob, GetOsAccountIdList
  <2>3. PICK j \in Job : /\ GoWith(t, "scan", j)
                    /\ j.acct = o.acct /\ j.domain = o.domain /\ j.select = o.select /\ j.cur = 0
                    /\ j.snap = Removed /\ j.stored = None /\ j.back = "none"
                    /\ j.ok = o.ok /\ j.todo = o.todo /\ j.found = o.found /\ j.isBound = o.isBound
    BY <1>1, <2>1, <2>2 DEF Job, NoJob
  <2> HIDE <2>1, <2>2
  <2>4. CallOK("scan", j) /\ (InBind("scan", j) <=> InBind(pc[t], o))
    BY <1>12, <1>1, <1>3, <2>3, DomainAssumption DEF CallOK, InBind, Free
  <2>5. CopyOK("scan", j)
    BY <1>12, <1>1, <1>3, <2>3 DEF CallOK, CopyOK, InBind, Free
  <2>6. WorkOK("scan", j)
    BY <1>12, <1>1, <1>3, <1>4, <2>3, DomainAssumption DEF CallOK, CopyOK, WorkOK, InBind, Free
  <2>7. ScanOK("scan", j)
    BY <1>12, <1>1, <1>3, <1>4, <2>3 DEF CallOK, CopyOK, ScanOK, InBind, Free, Live,
       GetOsAccountIdList
  <2>8. \A a \in Account : Holds("scan", j, a) <=> Holds(pc[t], o, a)
    BY <1>12, <1>1, <1>3, <2>3 DEF CallOK, Holds, InBind
  <2> WITNESS "scan" \in {"scan", "cleanUnmark", "unmark"}, j \in Job
  <2> QED BY <2>3, <2>4, <2>5, <2>6, <2>7, <2>8 DEF o
<1>13. CASE o.back = "clean"
  <2>1. GoWith(t, "cleanUnmark", [[o EXCEPT !.cur = 0, !.snap = Removed, !.stored = None,
                  !.back = "none"] EXCEPT !.cur = o.cur])
    BY <1>13 DEF Recovered, o
  <2>2. [[o EXCEPT !.cur = 0, !.snap = Removed, !.stored = None, !.back = "none"]
                  EXCEPT !.cur = o.cur] \in Job
    BY <1>1, <1>3 DEF Job, Backs, NoJob, GetOsAccountIdList
  <2>3. PICK j \in Job : /\ GoWith(t, "cleanUnmark", j)
                    /\ j.acct = o.acct /\ j.domain = o.domain
                    /\ j.select = o.select /\ j.cur = o.cur
                    /\ j.snap = Removed /\ j.stored = None /\ j.back = "none"
                    /\ j.ok = o.ok /\ j.todo = o.todo /\ j.found = o.found /\ j.isBound = o.isBound
    BY <1>1, <2>1, <2>2 DEF Job, NoJob
  <2> HIDE <2>1, <2>2
  <2>4. CallOK("cleanUnmark", j) /\ (InBind("cleanUnmark", j) <=> InBind(pc[t], o))
    BY <1>13, <1>1, <1>3, <2>3, DomainAssumption DEF CallOK, InBind, Free
  <2>5. CopyOK("cleanUnmark", j)
    BY <1>13, <1>1, <1>3, <2>3 DEF CallOK, CopyOK, InBind, Free
  <2>6. WorkOK("cleanUnmark", j)
    BY <1>13, <1>1, <1>3, <1>4, <2>3, DomainAssumption DEF CallOK, CopyOK, WorkOK, InBind, Free
  <2>7. ScanOK("cleanUnmark", j)
    BY <1>13, <1>1, <1>3, <1>4, <2>3 DEF CallOK, CopyOK, ScanOK, InBind, Free, Live,
       GetOsAccountIdList
  <2>8. \A a \in Account : Holds("cleanUnmark", j, a) <=> Holds(pc[t], o, a)
    BY <1>13, <1>1, <1>3, <2>3 DEF CallOK, Holds, InBind
  <2> WITNESS "cleanUnmark" \in {"scan", "cleanUnmark", "unmark"}, j \in Job
  <2> QED BY <2>3, <2>4, <2>5, <2>6, <2>7, <2>8 DEF o
<1>14. CASE ~(o.back = "self" /\ ok /\ o.select.domain = None) /\ ~(o.back = "scan" /\ ok)
        /\ o.back # "clean"
  <2>1. GoWith(t, "unmark", [NoJob EXCEPT !.acct = o.acct])
    BY <1>14 DEF Recovered, o
  <2>2. [NoJob EXCEPT !.acct = o.acct] \in Job
    BY <1>1, <1>3 DEF Job, Backs, NoJob, GetOsAccountIdList
  <2>3. PICK j \in Job : /\ GoWith(t, "unmark", j)
                    /\ j.acct = o.acct /\ j.domain = None /\ j.select = Removed /\ j.cur = 0
                    /\ j.snap = Removed /\ j.stored = None /\ j.back = "none"
                    /\ j.ok = TRUE /\ j.todo = {} /\ j.found = {} /\ j.isBound = FALSE
    BY <1>1, <2>1, <2>2 DEF Job, NoJob
  <2> HIDE <2>1, <2>2
  <2>4. CallOK("unmark", j) /\ (InBind("unmark", j) <=> InBind(pc[t], o))
    BY <1>14, <1>1, <1>3, <2>3, DomainAssumption DEF CallOK, InBind, Free
  <2>5. CopyOK("unmark", j)
    BY <1>14, <1>1, <1>3, <2>3 DEF CallOK, CopyOK, InBind, Free
  <2>6. WorkOK("unmark", j)
    BY <1>14, <1>1, <1>3, <1>4, <2>3, DomainAssumption DEF CallOK, CopyOK, WorkOK, InBind, Free
  <2>7. ScanOK("unmark", j)
    BY <1>14, <1>1, <1>3, <1>4, <2>3 DEF CallOK, CopyOK, ScanOK, InBind, Free, Live,
       GetOsAccountIdList
  <2>8. \A a \in Account : Holds("unmark", j, a) <=> Holds(pc[t], o, a)
    BY <1>14, <1>1, <1>3, <2>3 DEF CallOK, Holds, InBind
  <2> WITNESS "unmark" \in {"scan", "cleanUnmark", "unmark"}, j \in Job
  <2> QED BY <2>3, <2>4, <2>5, <2>6, <2>7, <2>8 DEF o
<1> QED BY <1>10, <1>11, <1>12, <1>13, <1>14

\* The end of a recovery that changes nothing shared.
LEMMA RecoveredLocal ==
    ASSUME IInv, NEW t \in Thread, pc[t] \in RecPlaces, NEW ok \in BOOLEAN, Recovered(t, ok),
           UNCHANGED <<record, flag, plugin, unbinds, bindMutex, operating>>,
           ok /\ record[job[t].cur].exists =>
              \A y \in Domain : <<y, job[t].cur>> \in plugin => record[job[t].cur].domain = y
    PROVE  IInv'
<1>1. PICK l \in {"scan", "cleanUnmark", "unmark"}, j \in Job :
        /\ GoWith(t, l, j)
        /\ CallOK(l, j) /\ CopyOK(l, j) /\ WorkOK(l, j) /\ ScanOK(l, j)
        /\ InBind(l, j) <=> InBind(pc[t], job[t])
        /\ \A a \in Account : Holds(l, j, a) <=> Holds(pc[t], job[t], a)
  BY RecoveredLands
<1>2. LockStep(t, l, j) /\ MarkStep(t, l, j) /\ operating' \subseteq Account
  BY <1>1 DEF LockStep, MarkStep, IInv, Marks, Shared
<1>3. l \in Places
  BY DEF Places, BindPlaces, CleanPlaces
<1> QED BY <1>1, <1>2, <1>3, LocalStep

\* The recovery of an unfinished binding.
LEMMA CheckAndRecoverStep ==
    ASSUME IInv, NEW t \in Thread, CheckAndRecoverBindDomainForUncomplete(t)
    PROVE  IInv'
<1> DEFINE o == job[t]
<1>1. /\ o \in Job /\ pc[t] \in Places /\ Shared /\ Threads
      /\ CallOK(pc[t], o) /\ CopyOK(pc[t], o) /\ WorkOK(pc[t], o) /\ ScanOK(pc[t], o)
  BY DEF IInv, Threads, Locals
<1>2. o.cur \in Account /\ pc[t] = "flag" /\ operating \subseteq Account
  BY <1>1 DEF CallOK, RecPlaces, Shared, CheckAndRecoverBindDomainForUncomplete
<1>s. CASE Recovered(t, FALSE)
  <2>1. UNCHANGED <<record, flag, plugin, unbinds, bindMutex, operating>>
    BY DEF CheckAndRecoverBindDomainForUncomplete, files
  <2>2. pc[t] \in RecPlaces
    BY <1>2 DEF RecPlaces
  <2> QED BY <1>s, <2>1, <2>2, RecoveredLocal
<1>3. CASE flag[o.cur] = None /\ Recovered(t, TRUE)
  <2>1. Recovered(t, TRUE) /\ UNCHANGED <<record, flag, plugin, unbinds, bindMutex, operating>>
    BY <1>3 DEF CheckAndRecoverBindDomainForUncomplete, files
  <2>2. record[o.cur].exists => \A y \in Domain : <<y, o.cur>> \in plugin
          => record[o.cur].domain = y
    BY <1>2, <1>3, DomainAssumption DEF IInv, Agree, AgreeAt
  <2>3. pc[t] \in RecPlaces
    BY <1>2 DEF RecPlaces
  <2> QED BY <2>1, <2>2, <2>3, RecoveredLocal
<1>4. CASE flag[o.cur] # None /\ ~Recovered(t, FALSE)
  <2> DEFINE l == IF o.snap.domain # None THEN "recDelete" ELSE "recUnbind"
  <2>1. /\ GoWith(t, l, [o EXCEPT !.stored = flag[o.cur]])
        /\ UNCHANGED <<record, flag, plugin, unbinds, bindMutex, operating>>
    BY <1>4 DEF CheckAndRecoverBindDomainForUncomplete, files
  <2>2. flag[o.cur] \in Domain
    BY <1>1, <1>2, <1>4 DEF Shared
  <2>3. PICK j \in Job : /\ GoWith(t, l, j) /\ j.stored = flag[o.cur]
                    /\ j.acct = o.acct /\ j.domain = o.domain
                    /\ j.select = o.select /\ j.cur = o.cur
                    /\ j.snap = o.snap /\ j.back = o.back
                    /\ j.ok = o.ok /\ j.todo = o.todo /\ j.found = o.found /\ j.isBound = o.isBound
    BY <1>1, <2>1, <2>2 DEF Job
  <2>4. l \in Places /\ l \in {"recDelete", "recUnbind"}
    BY DEF Places, RecPlaces
  <2>a. (l = "recUnbind" => o.snap.domain = None) /\ (l = "recDelete" => o.snap.domain # None)
    OBVIOUS
  <2> HIDE DEF o, l
  <2> USE DEF BindPlaces, RecPlaces, RmPlaces
  <2>5. CallOK(l, j)
    BY <1>1, <1>2, <2>2, <2>3, <2>4 DEF CallOK, InBind, Free
  <2>6. CopyOK(l, j)
    BY <1>1, <1>2, <2>3, <2>4, <2>a DEF CallOK, CopyOK, InBind, Free
  <2>7. WorkOK(l, j)
    BY <1>1, <1>2, <2>3, <2>4, <2>a DEF CallOK, WorkOK, InBind, Free
  <2>8. ScanOK(l, j)
    BY <1>1, <1>2, <2>3, <2>4 DEF ScanOK, Free
  <2>9. LockStep(t, l, j) /\ MarkStep(t, l, j)
    <3>1. InBind(l, j) <=> InBind(pc[t], o)
      BY <1>2, <2>3, <2>4 DEF InBind
    <3>2. \A a \in Account : Holds(l, j, a) <=> Holds(pc[t], o, a)
      BY <1>2, <2>3, <2>4 DEF Holds, InBind
    <3> QED BY <3>1, <3>2, <2>1 DEF LockStep, MarkStep, IInv, Marks, o
  <2>10. operating' \subseteq Account /\ UNCHANGED <<record, flag, plugin, unbinds>>
    BY <1>2, <2>1
  <2> HIDE <2>1
  <2> QED BY <2>3, <2>4, <2>5, <2>6, <2>7, <2>8, <2>9, <2>10, LocalStep
<1>5. Recovered(t, FALSE) \/ flag[o.cur] # None \/ Recovered(t, TRUE)
  BY DEF CheckAndRecoverBindDomainForUncomplete
<1> QED BY <1>s, <1>3, <1>4, <1>5

LEMMA RecoverUnbindStep ==
    ASSUME IInv, NEW t \in Thread, RecoverUnbind(t)
    PROVE  IInv'
<1> DEFINE o == job[t]
<1>1. /\ o \in Job /\ pc[t] \in Places /\ Shared /\ Threads
      /\ CallOK(pc[t], o) /\ CopyOK(pc[t], o) /\ WorkOK(pc[t], o) /\ ScanOK(pc[t], o)
  BY DEF IInv, Threads, Locals
<1>2. o.cur \in Account /\ pc[t] = "recUnbind" /\ operating \subseteq Account
        /\ pc[t] \in RecPlaces /\ o.stored \in Domain
  BY <1>1 DEF CallOK, RecPlaces, Shared, RecoverUnbind
<1>3. CASE Recovered(t, FALSE) /\ UNCHANGED plugin
  <2>1. UNCHANGED <<record, flag, plugin, unbinds, bindMutex, operating>>
    BY <1>3 DEF RecoverUnbind, files
  <2> QED BY <1>2, <1>3, <2>1, RecoveredLocal
<1>4. CASE plugin' = plugin \ {<<o.stored, o.cur>>} /\ Go(t, "recDelete") /\ UNCHANGED job
  <2>1. UNCHANGED <<record, flag, unbinds, bindMutex, operating>>
    BY DEF RecoverUnbind, files
  <2>2. GoWith(t, "recDelete", o)
    BY <1>1, <1>4 DEF GoWith, Go, Threads
  <2>3. Shared'
    BY <1>1, <1>4, <2>1 DEF Shared
  <2>4. record[o.cur].exists => record[o.cur].domain = None
    BY <1>1, <1>2 DEF CopyOK, RecPlaces
  <2>5. Agree'
    <3> SUFFICES ASSUME NEW a \in Account, NEW x \in Domain PROVE AgreeAt(a, x)'
      BY DEF Agree
    <3>1. AgreeAt(a, x)
      BY DEF IInv, Agree
    <3>2. CASE a = o.cur
      BY <1>4, <2>1, <2>4, <3>1, <3>2, DomainAssumption DEF AgreeAt, Live
    <3>3. CASE a # o.cur
      BY <1>4, <2>1, <3>1, <3>3 DEF AgreeAt, Live
    <3> QED BY <3>2, <3>3
  <2>6. Once'
    BY <1>4, <2>1 DEF IInv, Once, Live
  <2>7. record[o.cur].exists => \A y \in Domain : <<y, o.cur>> \notin plugin'
    <3> SUFFICES ASSUME record[o.cur].exists, NEW y \in Domain, <<y, o.cur>> \in plugin'
                 PROVE  FALSE
      OBVIOUS
    <3>1. <<y, o.cur>> \in plugin /\ y # o.stored
      BY <1>4
    <3>2. AgreeAt(o.cur, y)
      BY <1>2 DEF IInv, Agree
    <3>3. flag[o.cur] \in {o.stored, None}
      BY <1>1, <1>2 DEF WorkOK
    <3> QED BY <2>4, <3>1, <3>2, <3>3, DomainAssumption DEF AgreeAt
  <2>8. \A u \in Thread \ {t} : pc'[u] = pc[u] /\ job'[u] = job[u]
    BY <2>2, <1>1 DEF GoWith, Go, Threads
  <2>9. ASSUME NEW u \in Thread \ {t}
        PROVE  CopyOK(pc[u], job[u])' /\ WorkOK(pc[u], job[u])' /\ ScanOK(pc[u], job[u])'
    <3>1. /\ CallOK(pc[u], job[u]) /\ CopyOK(pc[u], job[u])
          /\ WorkOK(pc[u], job[u]) /\ ScanOK(pc[u], job[u])
          /\ pc'[u] = pc[u] /\ job'[u] = job[u]
      BY <2>8 DEF IInv, Locals
    <3>2. CopyOK(pc[u], job[u])'
      BY <2>1, <3>1 DEF CopyOK
    <3>3. WorkOK(pc[u], job[u])'
      <4>1. pc[u] = "write" => job[u].acct # o.cur
        <5> SUFFICES ASSUME pc[u] = "write", job[u].acct = o.cur PROVE FALSE
          OBVIOUS
        <5>1. Holds(pc[u], job[u], o.cur) /\ InBind(pc[u], job[u])
          BY DEF Holds, InBind, BindPlaces
        <5>2. ~InBind(pc[t], o)
          BY <5>1, DomainAssumption DEF IInv, Owner
        <5>3. Holds(pc[t], o, o.cur)
          BY <1>1, <1>2, <5>2 DEF Holds, InBind, CallOK
        <5> QED BY <5>1, <5>3, <1>2 DEF IInv, Marks
      <4> QED BY <1>4, <2>1, <3>1, <4>1 DEF WorkOK
    <3>4. ScanOK(pc[u], job[u])'
      BY <1>4, <2>1, <3>1 DEF ScanOK, Live
    <3> QED BY <3>2, <3>3, <3>4
  <2>a. PICK j \in Job : j = o /\ GoWith(t, "recDelete", j)
    BY <1>1, <2>2
  <2> HIDE DEF o
  <2> USE DEF BindPlaces, RecPlaces, RmPlaces
  <2>10. CallOK("recDelete", j)
    BY <1>1, <1>2, <2>a DEF CallOK, InBind, Free
  <2>11. CopyOK("recDelete", j)'
    BY <1>1, <1>2, <2>1, <2>a DEF CopyOK, InBind, Free
  <2>12. WorkOK("recDelete", j)'
    BY <1>1, <1>2, <1>4, <2>1, <2>7, <2>a DEF WorkOK, Free
  <2>13. ScanOK("recDelete", j)'
    BY <1>1, <1>2, <1>4, <2>1, <2>a DEF ScanOK, Free, Live
  <2>14. LockStep(t, "recDelete", j)
    BY <1>2, <2>1, <2>a DEF LockStep, InBind, o
  <2>15. MarkStep(t, "recDelete", j)
    <3>1. \A a \in Account : Holds("recDelete", j, a) <=> Holds(pc[t], o, a)
      BY <1>2, <2>a DEF Holds, InBind
    <3> QED BY <3>1, <2>1 DEF MarkStep, IInv, Marks, o
  <2>16. "recDelete" \in Places
    BY DEF Places
  <2> QED BY <2>3, <2>5, <2>6, <2>9, <2>a, <2>10, <2>11, <2>12, <2>13, <2>14, <2>15, <2>16, Compose
<1> QED BY <1>3, <1>4 DEF RecoverUnbind

\* What another thread has marked is not what thread t has marked, and only
\* one thread binds.
LEMMA Elsewhere ==
    ASSUME IInv, NEW t \in Thread, NEW u \in Thread, u # t, NEW c \in Account, Holds(pc[t], job[t],
            c)
    PROVE  /\ InBind(pc[u], job[u]) /\ pc[u] \notin {"select", "mark"} => job[u].acct # c
           /\ pc[u] \in RmPlaces => job[u].cur # c
           /\ pc[u] \in RecPlaces /\ job[u].back = "clean" => job[u].cur # c
           /\ InBind(pc[t], job[t]) => ~InBind(pc[u], job[u])
           /\ InBind(pc[t], job[t]) /\ pc[u] \in RecPlaces => job[u].cur # c
<1>1. ~Holds(pc[u], job[u], c)
  BY DEF IInv, Marks
<1>2. InBind(pc[t], job[t]) => ~InBind(pc[u], job[u])
  BY DEF IInv, Owner
<1>3. pc[u] \in RecPlaces => job[u].back \in {"self", "scan", "work", "clean"}
  BY DEF IInv, Locals, CallOK, RecPlaces
<1> QED BY <1>1, <1>2, <1>3 DEF Holds, InBind

\* The other threads stay where they are.
LEMMA Frame ==
    ASSUME IInv, NEW t \in Thread, NEW l \in Places, NEW j \in Job, GoWith(t, l, j)
    PROVE  \A u \in Thread \ {t} :
              /\ pc'[u] = pc[u] /\ job'[u] = job[u]
              /\ CallOK(pc[u], job[u]) /\ CopyOK(pc[u], job[u])
              /\ WorkOK(pc[u], job[u]) /\ ScanOK(pc[u], job[u])
BY DEF IInv, Locals, Threads, GoWith, Go

LEMMA RecoverDeleteStep ==
    ASSUME IInv, NEW t \in Thread, RecoverDelete(t)
    PROVE  IInv'
<1> DEFINE o == job[t]
<1>1. /\ o \in Job /\ pc[t] \in Places /\ Shared /\ Threads
      /\ CallOK(pc[t], o) /\ CopyOK(pc[t], o) /\ WorkOK(pc[t], o) /\ ScanOK(pc[t], o)
  BY DEF IInv, Threads, Locals
<1>2. /\ o.cur \in Account /\ pc[t] = "recDelete" /\ pc[t] \in RecPlaces
      /\ o.back \in {"self", "scan", "work", "clean"}
  BY <1>1 DEF CallOK, RecPlaces, RecoverDelete
<1>3. record[o.cur].exists => \A y \in Domain : <<y, o.cur>> \in plugin => record[o.cur].domain = y
  BY <1>1, <1>2 DEF IInv, Agree, AgreeAt, WorkOK, CopyOK
<1>4. UNCHANGED <<record, plugin, unbinds, bindMutex, operating>>
  BY DEF RecoverDelete
<1>5. CASE Recovered(t, o.snap.domain = None) /\ UNCHANGED flag
  BY <1>2, <1>3, <1>4, <1>5, RecoveredLocal
<1>6. CASE flag' = [flag EXCEPT ![o.cur] = None] /\ Recovered(t, TRUE)
  <2>1. PICK l \in {"scan", "cleanUnmark", "unmark"}, j \in Job :
          /\ GoWith(t, l, j)
          /\ CallOK(l, j) /\ CopyOK(l, j) /\ WorkOK(l, j) /\ ScanOK(l, j)
          /\ InBind(l, j) <=> InBind(pc[t], o)
          /\ \A a \in Account : Holds(l, j, a) <=> Holds(pc[t], o, a)
    BY <1>2, <1>3, <1>6, RecoveredLands
  <2>2. LockStep(t, l, j) /\ MarkStep(t, l, j)
    BY <1>4, <2>1 DEF LockStep, MarkStep, IInv, Marks
  <2>3. Shared'
    BY <1>1, <1>4, <1>6 DEF Shared
  <2>4. Agree'
    <3> SUFFICES ASSUME NEW a \in Account, NEW x \in Domain PROVE AgreeAt(a, x)'
      BY DEF Agree
    <3>1. AgreeAt(a, x)
      BY DEF IInv, Agree
    <3>2. flag'[a] = flag[a] \/ a = o.cur
      BY <1>1, <1>2, <1>6 DEF Shared
    <3> QED BY <1>3, <1>4, <3>1, <3>2 DEF AgreeAt, Live
  <2>5. Once'
    BY <1>4 DEF IInv, Once, Live
  <2>6. CopyOK(l, j)' /\ ScanOK(l, j)'
    BY <1>4, <2>1 DEF CopyOK, ScanOK, Live
  <2>7. WorkOK(l, j)'
    BY <1>4, <2>1 DEF WorkOK
  <2>8. l \in Places
    BY DEF Places, BindPlaces, CleanPlaces
  <2>9. ASSUME NEW u \in Thread \ {t}
        PROVE  CopyOK(pc[u], job[u])' /\ WorkOK(pc[u], job[u])' /\ ScanOK(pc[u], job[u])'
    <3>1. /\ pc'[u] = pc[u] /\ job'[u] = job[u]
          /\ CallOK(pc[u], job[u]) /\ CopyOK(pc[u], job[u])
          /\ WorkOK(pc[u], job[u]) /\ ScanOK(pc[u], job[u])
      BY <2>1, <2>8, Frame
    <3>2. CopyOK(pc[u], job[u])' /\ ScanOK(pc[u], job[u])'
      BY <1>4, <3>1 DEF CopyOK, ScanOK, Live
    <3>3. pc[u] \in {"bind", "write"} => job[u].acct # o.cur
      <4>1. CASE InBind(pc[t], o)
        BY <4>1 DEF IInv, Owner, InBind, BindPlaces
      <4>2. CASE ~InBind(pc[t], o)
        <5>1. Holds(pc[t], o, o.cur)
          BY <1>2, <4>2 DEF Holds, InBind
        <5> QED BY <1>2, <5>1, Elsewhere DEF InBind, BindPlaces
      <4> QED BY <4>1, <4>2
    <3>4. \A a \in Account : flag'[a] = (IF a = o.cur THEN None ELSE flag[a])
      BY <1>1, <1>2, <1>6 DEF Shared
    <3>5. WorkOK(pc[u], job[u])'
      BY <1>4, <3>1, <3>3, <3>4 DEF WorkOK, CallOK, InBind, BindPlaces, RecPlaces
    <3> QED BY <3>2, <3>5
  <2> HIDE DEF o
  <2> QED BY <2>1, <2>2, <2>3, <2>4, <2>5, <2>6, <2>7, <2>8, <2>9, Compose
<1> QED BY <1>5, <1>6 DEF RecoverDelete

\* BindDomainAccountWork: the file, the plugin, the record, the file.
LEMMA BindWorkFlagStep ==
    ASSUME IInv, NEW t \in Thread, BindWorkFlag(t)
    PROVE  IInv'
<1>1. PICK o \in Job : o = job[t]
  BY DEF IInv, Threads
<1>2. /\ pc[t] = "work" /\ Shared /\ Threads
      /\ CallOK("work", o) /\ CopyOK("work", o) /\ WorkOK("work", o) /\ ScanOK("work", o)
  BY <1>1 DEF IInv, Threads, Locals, BindWorkFlag
<1> USE DEF BindPlaces, RecPlaces, RmPlaces, CleanPlaces
<1>3. /\ o.acct \in Account /\ o.domain \in Domain /\ o.back = "none" /\ InBind(pc[t], o)
      /\ o.todo = {} /\ o.found = {} /\ o.isBound = FALSE
      /\ \A a \in Account : Holds(pc[t], o, a) <=> a = o.acct
  BY <1>2 DEF CallOK, InBind, Holds
<1>4. UNCHANGED <<record, plugin, unbinds, bindMutex, operating, job>>
  BY DEF BindWorkFlag
<1>5. PICK l \in {"bind", "unmark"}, x \in Domain \cup {None} :
         /\ Go(t, l)
         /\ flag' = [flag EXCEPT ![o.acct] = x] \/ flag' = flag
         /\ l = "bind" => flag' = [flag EXCEPT ![o.acct] = x] /\ x = o.domain
  BY <1>1, <1>3 DEF BindWorkFlag
<1>6. GoWith(t, l, o) /\ l \in Places
  BY <1>1, <1>2, <1>4, <1>5 DEF GoWith, Go, Threads, Places
<1>7. Shared'
  BY <1>2, <1>4, <1>5 DEF Shared
<1>8. \A a \in Account : a # o.acct => flag'[a] = flag[a]
  BY <1>2, <1>5 DEF Shared
<1>9. record[o.acct].exists => \A y \in Domain : <<y, o.acct>> \notin plugin
  BY <1>2 DEF WorkOK, Free
<1>10. Agree'
  <2> SUFFICES ASSUME NEW a \in Account, NEW y \in Domain PROVE AgreeAt(a, y)'
    BY DEF Agree
  <2>1. AgreeAt(a, y)
    BY DEF IInv, Agree
  <2> QED BY <1>4, <1>8, <1>9, <2>1 DEF AgreeAt, Live
<1>11. Once'
  BY <1>4 DEF IInv, Once, Live
<1>12. LockStep(t, l, o) /\ MarkStep(t, l, o)
  BY <1>1, <1>2, <1>3, <1>4, <1>5 DEF LockStep, MarkStep, IInv, Marks, InBind, Holds
<1>13. CallOK(l, o)
  BY <1>2, <1>3, <1>5 DEF CallOK, InBind, Free
<1>14. CopyOK(l, o)'
  BY <1>2, <1>3, <1>4, <1>5 DEF CopyOK, InBind, Free
<1>15. WorkOK(l, o)'
  <2>1. l = "bind" => flag'[o.acct] = o.domain
    BY <1>2, <1>3, <1>5 DEF Shared
  <2> QED BY <1>2, <1>3, <1>4, <1>5, <2>1 DEF WorkOK, Free
<1>16. ScanOK(l, o)'
  BY <1>2, <1>3, <1>4, <1>5 DEF ScanOK, Free, Live
<1>17. ASSUME NEW u \in Thread \ {t}
       PROVE  CopyOK(pc[u], job[u])' /\ WorkOK(pc[u], job[u])' /\ ScanOK(pc[u], job[u])'
  <2>1. /\ pc'[u] = pc[u] /\ job'[u] = job[u]
        /\ CallOK(pc[u], job[u]) /\ CopyOK(pc[u], job[u])
        /\ WorkOK(pc[u], job[u]) /\ ScanOK(pc[u], job[u])
    BY <1>6, Frame
  <2>2. CopyOK(pc[u], job[u])' /\ ScanOK(pc[u], job[u])'
    BY <1>4, <2>1 DEF CopyOK, ScanOK, Live
  <2>3. ~InBind(pc[u], job[u]) /\ (pc[u] \in RecPlaces => job[u].cur # o.acct)
    BY <1>1, <1>3, Elsewhere
  <2>4. WorkOK(pc[u], job[u])'
    BY <1>4, <1>8, <2>1, <2>3 DEF WorkOK, CallOK, InBind
  <2> QED BY <2>2, <2>4
<1> QED BY <1>6, <1>7, <1>10, <1>11, <1>12, <1>13, <1>14, <1>15, <1>16, <1>17, Compose

LEMMA BindDomainAccountSyncStep ==
    ASSUME IInv, NEW t \in Thread, BindDomainAccountSync(t)
    PROVE  IInv'
<1>1. PICK o \in Job : o = job[t]
  BY DEF IInv, Threads
<1>2. /\ pc[t] = "bind" /\ Shared /\ Threads
      /\ CallOK("bind", o) /\ CopyOK("bind", o) /\ WorkOK("bind", o) /\ ScanOK("bind", o)
  BY <1>1 DEF IInv, Threads, Locals, BindDomainAccountSync
<1> USE DEF BindPlaces, RecPlaces, RmPlaces, CleanPlaces
<1>3. /\ o.acct \in Account /\ o.domain \in Domain /\ o.back = "none" /\ InBind(pc[t], o)
      /\ o.todo = {} /\ o.found = {} /\ o.isBound = FALSE
      /\ \A a \in Account : Holds(pc[t], o, a) <=> a = o.acct
  BY <1>2 DEF CallOK, InBind, Holds
<1>4. UNCHANGED <<record, flag, unbinds, bindMutex, operating, job>>
  BY DEF BindDomainAccountSync, files
<1>5. /\ record[o.acct].exists => record[o.acct].domain = None
      /\ record[o.acct].exists => \A y \in Domain : <<y, o.acct>> \notin plugin
      /\ flag[o.acct] = o.domain
      /\ Seen => \A a \in Account : ~(Live(a) /\ <<o.domain, a>> \in plugin)
  BY <1>2, <1>3 DEF CopyOK, WorkOK, ScanOK, InBind, Free
<1>6. CASE Go(t, "delFlag") /\ UNCHANGED plugin
  <2>1. GoWith(t, "delFlag", o) /\ "delFlag" \in Places
    BY <1>1, <1>2, <1>4, <1>6 DEF GoWith, Go, Threads, Places
  <2>2. LockStep(t, "delFlag", o) /\ MarkStep(t, "delFlag", o)
    BY <1>1, <1>2, <1>3, <1>4 DEF LockStep, MarkStep, IInv, Marks, InBind, Holds
  <2>3. CallOK("delFlag", o) /\ CopyOK("delFlag", o)
    BY <1>2, <1>3 DEF CallOK, CopyOK, InBind, Free
  <2>4. WorkOK("delFlag", o) /\ ScanOK("delFlag", o)
    BY <1>3, <1>5 DEF WorkOK, ScanOK, Free
  <2>5. operating' \subseteq Account
    BY <1>2, <1>4 DEF Shared
  <2> QED BY <1>4, <1>6, <2>1, <2>2, <2>3, <2>4, <2>5, LocalStep
<1>7. CASE plugin' = plugin \cup {<<o.domain, o.acct>>} /\ Go(t, "write")
  <2>1. GoWith(t, "write", o) /\ "write" \in Places
    BY <1>1, <1>2, <1>4, <1>7 DEF GoWith, Go, Threads, Places
  <2>2. LockStep(t, "write", o) /\ MarkStep(t, "write", o)
    BY <1>1, <1>2, <1>3, <1>4 DEF LockStep, MarkStep, IInv, Marks, InBind, Holds
  <2>3. Shared'
    BY <1>2, <1>3, <1>4, <1>7 DEF Shared
  <2>4. \A a \in Account, y \in Domain :
           <<y, a>> \in plugin' <=> <<y, a>> \in plugin \/ (y = o.domain /\ a = o.acct)
    BY <1>7
  <2>5. Agree'
    <3> SUFFICES ASSUME NEW a \in Account, NEW y \in Domain PROVE AgreeAt(a, y)'
      BY DEF Agree
    <3>1. AgreeAt(a, y)
      BY DEF IInv, Agree
    <3> QED BY <1>4, <1>5, <2>4, <3>1 DEF AgreeAt, Live
  <2>6. Once'
    BY <1>4, <1>5, <2>4 DEF IInv, Once, Live
  <2>7. CallOK("write", o)
    BY <1>2, <1>3 DEF CallOK, InBind, Free
  <2>8. CopyOK("write", o)'
    BY <1>2, <1>3, <1>4 DEF CopyOK, InBind, Free
  <2>9. WorkOK("write", o)'
    BY <1>3, <1>4, <1>5, <2>4 DEF WorkOK, Free
  <2>10. ScanOK("write", o)'
    BY <1>3, <1>4, <1>5, <2>4 DEF ScanOK, Free, Live
  <2>11. ASSUME NEW u \in Thread \ {t}
         PROVE  CopyOK(pc[u], job[u])' /\ WorkOK(pc[u], job[u])' /\ ScanOK(pc[u], job[u])'
    <3>1. /\ pc'[u] = pc[u] /\ job'[u] = job[u]
          /\ CallOK(pc[u], job[u]) /\ CopyOK(pc[u], job[u])
          /\ WorkOK(pc[u], job[u]) /\ ScanOK(pc[u], job[u])
      BY <2>1, Frame
    <3>2. ~InBind(pc[u], job[u]) /\ (pc[u] \in RecPlaces => job[u].cur # o.acct)
      BY <1>1, <1>3, Elsewhere
    <3>3. CopyOK(pc[u], job[u])'
      BY <1>4, <3>1 DEF CopyOK
    <3>4. WorkOK(pc[u], job[u])'
      BY <1>4, <2>4, <3>1, <3>2 DEF WorkOK, CallOK, InBind, Free
    <3>5. ScanOK(pc[u], job[u])'
      BY <3>1, <3>2 DEF ScanOK, InBind, Free
    <3> QED BY <3>3, <3>4, <3>5
  <2> QED BY <2>1, <2>2, <2>3, <2>5, <2>6, <2>7, <2>8, <2>9, <2>10, <2>11, Compose
<1> QED BY <1>1, <1>6, <1>7 DEF BindDomainAccountSync

LEMMA BindWorkWriteStep ==
    ASSUME IInv, NEW t \in Thread, BindWorkWrite(t)
    PROVE  IInv'
<1>1. PICK o \in Job : o = job[t]
  BY DEF IInv, Threads
<1>2. /\ pc[t] = "write" /\ Shared /\ Threads
      /\ CallOK("write", o) /\ CopyOK("write", o) /\ WorkOK("write", o) /\ ScanOK("write", o)
  BY <1>1 DEF IInv, Threads, Locals, BindWorkWrite
<1> USE DEF BindPlaces, RecPlaces, RmPlaces, CleanPlaces
<1>3. /\ o.acct \in Account /\ o.domain \in Domain /\ o.back = "none" /\ InBind(pc[t], o)
      /\ o.todo = {} /\ o.found = {} /\ o.isBound = FALSE
      /\ \A a \in Account : Holds(pc[t], o, a) <=> a = o.acct
  BY <1>2 DEF CallOK, InBind, Holds
<1>4. UNCHANGED <<flag, plugin, unbinds, bindMutex, operating>>
  BY DEF BindWorkWrite, files
<1>5. /\ record[o.acct].exists => record[o.acct].domain = None
      /\ record[o.acct].exists => \A y \in Domain : <<y, o.acct>> \in plugin <=> y = o.domain
      /\ flag[o.acct] = o.domain /\ o.select.exists /\ o.select.domain = None
      /\ Seen => \A a \in Account : Live(a) /\ <<o.domain, a>> \in plugin => a = o.acct
  BY <1>2, <1>3 DEF CopyOK, WorkOK, ScanOK, InBind, Free
<1>6. CASE GoWith(t, "recUnbind", [o EXCEPT !.cur = o.acct, !.snap = o.select,
                                            !.stored = o.domain, !.back = "work"])
           /\ UNCHANGED record
  <2>1. [o EXCEPT !.cur = o.acct, !.snap = o.select, !.stored = o.domain, !.back = "work"] \in Job
    BY <1>3 DEF Job, Backs
  <2>2. PICK j \in Job : /\ GoWith(t, "recUnbind", j)
                         /\ j.acct = o.acct /\ j.domain = o.domain /\ j.select = o.select
                         /\ j.cur = o.acct /\ j.snap = o.select /\ j.stored = o.domain
                         /\ j.back = "work" /\ j.found = {}
    BY <1>3, <1>6, <2>1 DEF Job
  <2>3. LockStep(t, "recUnbind", j) /\ MarkStep(t, "recUnbind", j)
    BY <1>1, <1>2, <1>3, <1>4, <2>2 DEF LockStep, MarkStep, IInv, Marks, InBind, Holds
  <2>4. CallOK("recUnbind", j) /\ CopyOK("recUnbind", j)
    BY <1>3, <1>5, <2>2 DEF CallOK, CopyOK, InBind, Free
  <2>5. WorkOK("recUnbind", j) /\ ScanOK("recUnbind", j)
    BY <1>3, <1>5, <2>2 DEF WorkOK, ScanOK, Free
  <2>6. operating' \subseteq Account /\ "recUnbind" \in Places
    BY <1>2, <1>4 DEF Shared, Places
  <2> QED BY <1>4, <1>6, <2>2, <2>3, <2>4, <2>5, <2>6, LocalStep
<1>7. CASE /\ record[o.acct].exists
           /\ record' = [record EXCEPT ![o.acct] = [o.select EXCEPT !.domain = o.domain]]
           /\ Go(t, "delFlag") /\ UNCHANGED job
  <2>1. GoWith(t, "delFlag", o) /\ "delFlag" \in Places
    BY <1>1, <1>2, <1>7 DEF GoWith, Go, Threads, Places
  <2>2. LockStep(t, "delFlag", o) /\ MarkStep(t, "delFlag", o)
    BY <1>1, <1>2, <1>3, <1>4 DEF LockStep, MarkStep, IInv, Marks, InBind, Holds
  <2>3. PICK r \in Rec : r = [o.select EXCEPT !.domain = o.domain]
    BY <1>3 DEF Job, Rec
  <2>4. r.exists /\ r.domain = o.domain
    BY <1>5, <2>3 DEF Job, Rec
  <2>5. Shared'
    BY <1>2, <1>4, <1>7, <2>3 DEF Shared
  <2>6. record'[o.acct] = r /\ \A a \in Account : a # o.acct => record'[a] = record[a]
    BY <1>2, <1>3, <1>7, <2>3 DEF Shared
  <2>7. Agree'
    <3> SUFFICES ASSUME NEW a \in Account, NEW y \in Domain PROVE AgreeAt(a, y)'
      BY DEF Agree
    <3>1. AgreeAt(a, y) /\ y # None
      BY DomainAssumption DEF IInv, Agree
    <3>2. CASE a = o.acct
      BY <1>4, <1>5, <1>7, <2>4, <2>6, <3>1, <3>2 DEF AgreeAt, Live
    <3>3. CASE a # o.acct
      BY <1>4, <2>6, <3>1, <3>3 DEF AgreeAt, Live
    <3> QED BY <3>2, <3>3
  <2>8. Once'
    <3>1. ASSUME NEW a \in Account, Live(a)', a # o.acct PROVE Live(a)
      BY <2>6, <3>1 DEF Live
    <3> QED BY <1>4, <1>5, <1>7, <3>1 DEF IInv, Once
  <2>9. CallOK("delFlag", o)
    BY <1>2, <1>3 DEF CallOK, InBind, Free
  <2>10. CopyOK("delFlag", o)'
    BY <1>3 DEF CopyOK, InBind, Free
  <2>11. WorkOK("delFlag", o)' /\ ScanOK("delFlag", o)'
    BY <1>3, <1>4, <1>5, <1>7, <2>4, <2>6 DEF WorkOK, ScanOK, Free
  <2>12. ASSUME NEW u \in Thread \ {t}
         PROVE  CopyOK(pc[u], job[u])' /\ WorkOK(pc[u], job[u])' /\ ScanOK(pc[u], job[u])'
    <3>1. /\ pc'[u] = pc[u] /\ job'[u] = job[u]
          /\ CallOK(pc[u], job[u]) /\ CopyOK(pc[u], job[u])
          /\ WorkOK(pc[u], job[u]) /\ ScanOK(pc[u], job[u])
      BY <2>1, Frame
    <3>2. ~InBind(pc[u], job[u]) /\ (pc[u] \in RecPlaces \cup RmPlaces => job[u].cur # o.acct)
      BY <1>1, <1>3, Elsewhere
    <3>3. pc[u] \in RecPlaces \cup RmPlaces => record'[job[u].cur] = record[job[u].cur]
      BY <2>6, <3>1, <3>2 DEF CallOK
    <3>4. job[u].found = {}
      BY <3>1, <3>2 DEF CallOK, Free, InBind
    <3>5. CopyOK(pc[u], job[u])'
      BY <3>1, <3>2, <3>3, <3>4 DEF CopyOK, InBind, Free
    <3>6. WorkOK(pc[u], job[u])'
      BY <1>4, <3>1, <3>2, <3>3 DEF WorkOK, InBind, Free
    <3>7. ScanOK(pc[u], job[u])'
      BY <3>1, <3>2 DEF ScanOK, InBind, Free
    <3> QED BY <3>5, <3>6, <3>7
  <2> QED BY <2>1, <2>2, <2>5, <2>7, <2>8, <2>9, <2>10, <2>11, <2>12, Compose
<1> QED BY <1>1, <1>6, <1>7 DEF BindWorkWrite

LEMMA BindWorkDeleteFlagStep ==
    ASSUME IInv, NEW t \in Thread, BindWorkDeleteFlag(t)
    PROVE  IInv'
<1>1. PICK o \in Job : o = job[t]
  BY DEF IInv, Threads
<1>2. /\ pc[t] = "delFlag" /\ Shared /\ Threads
      /\ CallOK("delFlag", o) /\ CopyOK("delFlag", o)
      /\ WorkOK("delFlag", o) /\ ScanOK("delFlag", o)
  BY <1>1 DEF IInv, Threads, Locals, BindWorkDeleteFlag
<1> USE DEF BindPlaces, RecPlaces, RmPlaces, CleanPlaces
<1>3. /\ o.acct \in Account /\ o.domain \in Domain /\ o.back = "none" /\ InBind(pc[t], o)
      /\ o.found = {}
      /\ \A a \in Account : Holds(pc[t], o, a) <=> a = o.acct
  BY <1>2 DEF CallOK, InBind, Holds, Free
<1>4. UNCHANGED <<record, plugin, unbinds, bindMutex, operating, job>>
  BY DEF BindWorkDeleteFlag, files
<1>5. /\ Go(t, "unmark")
      /\ flag' = [flag EXCEPT ![o.acct] = None] \/ flag' = flag
  BY <1>1 DEF BindWorkDeleteFlag
<1>6. GoWith(t, "unmark", o) /\ "unmark" \in Places
  BY <1>1, <1>2, <1>4, <1>5 DEF GoWith, Go, Threads, Places
<1>7. Shared'
  BY <1>2, <1>4, <1>5 DEF Shared
<1>8. \A a \in Account : a # o.acct => flag'[a] = flag[a]
  BY <1>2, <1>5 DEF Shared
<1>9. record[o.acct].exists => \A y \in Domain : <<y, o.acct>> \in plugin
        => record[o.acct].domain = y
  BY <1>2 DEF WorkOK
<1>10. Agree'
  <2> SUFFICES ASSUME NEW a \in Account, NEW y \in Domain PROVE AgreeAt(a, y)'
    BY DEF Agree
  <2>1. AgreeAt(a, y)
    BY DEF IInv, Agree
  <2> QED BY <1>4, <1>8, <1>9, <2>1 DEF AgreeAt, Live
<1>11. Once'
  BY <1>4 DEF IInv, Once, Live
<1>12. LockStep(t, "unmark", o) /\ MarkStep(t, "unmark", o)
  BY <1>1, <1>2, <1>3, <1>4 DEF LockStep, MarkStep, IInv, Marks, InBind, Holds
<1>13. CallOK("unmark", o)
  BY <1>3 DEF CallOK, InBind, Free
<1>14. CopyOK("unmark", o)'
  BY <1>3 DEF CopyOK, InBind, Free
<1>15. WorkOK("unmark", o)' /\ ScanOK("unmark", o)'
  BY <1>3 DEF WorkOK, ScanOK, Free
<1>17. ASSUME NEW u \in Thread \ {t}
       PROVE  CopyOK(pc[u], job[u])' /\ WorkOK(pc[u], job[u])' /\ ScanOK(pc[u], job[u])'
  <2>1. /\ pc'[u] = pc[u] /\ job'[u] = job[u]
        /\ CallOK(pc[u], job[u]) /\ CopyOK(pc[u], job[u])
        /\ WorkOK(pc[u], job[u]) /\ ScanOK(pc[u], job[u])
    BY <1>6, Frame
  <2>2. CopyOK(pc[u], job[u])' /\ ScanOK(pc[u], job[u])'
    BY <1>4, <2>1 DEF CopyOK, ScanOK, Live
  <2>3. ~InBind(pc[u], job[u]) /\ (pc[u] \in RecPlaces => job[u].cur # o.acct)
    BY <1>1, <1>3, Elsewhere
  <2>4. WorkOK(pc[u], job[u])'
    BY <1>4, <1>8, <2>1, <2>3 DEF WorkOK, CallOK, InBind
  <2> QED BY <2>2, <2>4
<1> QED BY <1>6, <1>7, <1>10, <1>11, <1>12, <1>13, <1>14, <1>15, <1>17, Compose

\* The removal of an account: the flag, the plugin, the directory.
LEMMA RemoveSetFlagStep ==
    ASSUME IInv, NEW t \in Thread, RemoveSetFlag(t)
    PROVE  IInv'
<1>1. PICK o \in Job : o = job[t]
  BY DEF IInv, Threads
<1>2. /\ pc[t] = "rmFlag" /\ Shared /\ Threads
      /\ CallOK("rmFlag", o) /\ CopyOK("rmFlag", o) /\ WorkOK("rmFlag", o) /\ ScanOK("rmFlag", o)
  BY <1>1 DEF IInv, Threads, Locals, RemoveSetFlag
<1> USE DEF BindPlaces, RecPlaces, RmPlaces, CleanPlaces
<1>3. /\ o.cur \in Account /\ o.back = "remove" /\ ~InBind(pc[t], o) /\ o.found = {}
      /\ \A a \in Account : Holds(pc[t], o, a) <=> a = o.cur
      /\ \A l \in {"rmPrepare", "rmUnmark"} :
            ~InBind(l, o) /\ ~Free(l, o) /\ CallOK(l, o)
            /\ \A a \in Account : Holds(l, o, a) <=> a = o.cur
  BY <1>2 DEF CallOK, InBind, Holds, Free
<1>4. UNCHANGED <<flag, plugin, unbinds, bindMutex, operating, job>>
  BY DEF RemoveSetFlag, files
<1>5. /\ record[o.cur].exists /\ record[o.cur].domain = o.snap.domain
      /\ o.snap.exists /\ o.snap.toBeRemoved
  BY <1>2 DEF CopyOK
<1>6. ASSUME NEW l \in {"rmPrepare", "rmUnmark"}, Go(t, l)
      PROVE  GoWith(t, l, o) /\ l \in Places /\ LockStep(t, l, o) /\ MarkStep(t, l, o)
  <2>1. GoWith(t, l, o) /\ l \in Places
    BY <1>1, <1>2, <1>4, <1>6 DEF GoWith, Go, Threads, Places
  <2>2. LockStep(t, l, o) /\ MarkStep(t, l, o)
    BY <1>1, <1>2, <1>3, <1>4 DEF LockStep, MarkStep, IInv, Marks
  <2> QED BY <2>1, <2>2
<1>7. CASE Go(t, "rmUnmark") /\ UNCHANGED record
  <2>1. CopyOK("rmUnmark", o) /\ WorkOK("rmUnmark", o) /\ ScanOK("rmUnmark", o)
    BY <1>3 DEF CopyOK, WorkOK, ScanOK
  <2>2. operating' \subseteq Account
    BY <1>2, <1>4 DEF Shared
  <2> QED BY <1>3, <1>4, <1>6, <1>7, <2>1, <2>2, LocalStep
<1>8. CASE record' = [record EXCEPT ![o.cur] = o.snap] /\ Go(t, "rmPrepare")
  <2>1. Shared'
    BY <1>2, <1>4, <1>8 DEF Shared, Job
  <2>2. record'[o.cur] = o.snap /\ \A a \in Account : a # o.cur => record'[a] = record[a]
    BY <1>2, <1>3, <1>8 DEF Shared
  <2>3. \A a \in Account : /\ record'[a].exists <=> record[a].exists
                           /\ record'[a].domain = record[a].domain
                           /\ record[a].toBeRemoved => record'[a].toBeRemoved
                           /\ Live(a)' => Live(a)
    BY <1>5, <2>2 DEF Live
  <2>4. Agree'
    <3> SUFFICES ASSUME NEW a \in Account, NEW y \in Domain PROVE AgreeAt(a, y)'
      BY DEF Agree
    <3>1. AgreeAt(a, y)
      BY DEF IInv, Agree
    <3> QED BY <1>4, <2>3, <3>1 DEF AgreeAt
  <2>5. Once'
    BY <1>4, <2>3 DEF IInv, Once
  <2>6. CopyOK("rmPrepare", o)'
    BY <1>3, <1>5, <2>2 DEF CopyOK
  <2>7. WorkOK("rmPrepare", o)' /\ ScanOK("rmPrepare", o)'
    BY <1>3 DEF WorkOK, ScanOK
  <2>8. ASSUME NEW u \in Thread \ {t}
        PROVE  CopyOK(pc[u], job[u])' /\ WorkOK(pc[u], job[u])' /\ ScanOK(pc[u], job[u])'
    <3>1. /\ pc'[u] = pc[u] /\ job'[u] = job[u] /\ job[u] \in Job
          /\ CallOK(pc[u], job[u]) /\ CopyOK(pc[u], job[u])
          /\ WorkOK(pc[u], job[u]) /\ ScanOK(pc[u], job[u])
      BY <1>6, <1>8, <1>2, Frame DEF Threads
    <3>2. /\ pc[u] \in RecPlaces \cup RmPlaces => job[u].cur \in Account
          /\ job[u].back = "scan" => job[u].cur \in Account
          /\ InBind(pc[u], job[u]) => job[u].acct \in Account
          /\ \A f \in job[u].found : f[1] \in Account
      <4>1. job[u].back = "scan" => pc[u] \in RecPlaces
        BY <3>1, <1>2 DEF CallOK, Threads, Places
      <4>2. \A f \in job[u].found : f[1] \in Account
        BY <3>1 DEF Job
      <4> QED BY <3>1, <4>1, <4>2 DEF CallOK
    <3>3. CopyOK(pc[u], job[u])'
      BY <2>3, <3>1, <3>2 DEF CopyOK
    <3>4. WorkOK(pc[u], job[u])'
      BY <1>4, <2>3, <3>1, <3>2 DEF WorkOK, InBind, Free
    <3>5. ScanOK(pc[u], job[u])'
      BY <1>4, <2>3, <3>1 DEF ScanOK
    <3> QED BY <3>3, <3>4, <3>5
  <2> QED BY <1>3, <1>6, <1>8, <2>1, <2>4, <2>5, <2>6, <2>7, <2>8, Compose
<1> QED BY <1>1, <1>7, <1>8 DEF RemoveSetFlag

LEMMA PrepareRemoveOsAccountStep ==
    ASSUME IInv, NEW t \in Thread, PrepareRemoveOsAccount(t)
    PROVE  IInv'
<1>1. PICK o \in Job : o = job[t]
  BY DEF IInv, Threads
<1>2. /\ pc[t] = "rmPrepare" /\ Shared /\ Threads
      /\ CallOK("rmPrepare", o) /\ CopyOK("rmPrepare", o)
      /\ WorkOK("rmPrepare", o) /\ ScanOK("rmPrepare", o)
  BY <1>1 DEF IInv, Threads, Locals, PrepareRemoveOsAccount
<1> USE DEF BindPlaces, RecPlaces, RmPlaces, CleanPlaces
<1>3. /\ o.cur \in Account /\ o.back \in {"remove", "filter", "garbage"}
      /\ Holds(pc[t], o, o.cur) /\ (o.back = "filter" => o.cur # o.acct /\ o.acct \in Account)
  BY <1>2 DEF CallOK, Holds, InBind
<1>4. UNCHANGED <<record, flag, plugin, bindMutex, operating>>
  BY DEF PrepareRemoveOsAccount, files
<1>5. ASSUME NEW l \in {"rmDelete", "rmUnmark"}, NEW j \in Job, j.acct = o.acct,
        j.domain = o.domain,
             j.select = o.select, j.cur = o.cur, j.snap = o.snap, j.back = o.back,
             j.todo = o.todo, j.found = o.found, j.isBound = o.isBound
      PROVE  /\ l \in Places /\ LockStep(t, l, j) /\ MarkStep(t, l, j)
             /\ CallOK(l, j) /\ CopyOK(l, j) /\ WorkOK(l, j) /\ ScanOK(l, j)
  <2>1. LockStep(t, l, j) /\ MarkStep(t, l, j) /\ l \in Places
    BY <1>1, <1>2, <1>3, <1>4, <1>5 DEF LockStep, MarkStep, IInv, Marks, InBind, Holds, Places
  <2>2. CallOK(l, j)
    BY <1>2, <1>3, <1>5 DEF CallOK, InBind, Free
  <2>3. CopyOK(l, j)
    BY <1>2, <1>3, <1>5 DEF CopyOK, InBind, Free
  <2>4. WorkOK(l, j)
    BY <1>2, <1>3, <1>5 DEF WorkOK, Free
  <2>5. ScanOK(l, j)
    BY <1>2, <1>3, <1>5 DEF ScanOK, Free
  <2> QED BY <2>1, <2>2, <2>3, <2>4, <2>5
<1>6. CASE GoWith(t, "rmUnmark", [o EXCEPT !.ok = FALSE]) /\ UNCHANGED unbinds
  <2>1. [o EXCEPT !.ok = FALSE] \in Job
    BY DEF Job
  <2>2. PICK j \in Job : /\ GoWith(t, "rmUnmark", j)
                         /\ j.acct = o.acct /\ j.domain = o.domain /\ j.select = o.select
                         /\ j.cur = o.cur /\ j.snap = o.snap /\ j.back = o.back
                         /\ j.todo = o.todo /\ j.found = o.found /\ j.isBound = o.isBound
    BY <1>6, <2>1 DEF Job
  <2>3. operating' \subseteq Account
    BY <1>2, <1>4 DEF Shared
  <2> QED BY <1>4, <1>5, <1>6, <2>2, <2>3, LocalStep DEF files
<1>7. CASE /\ unbinds' = IF o.snap.domain = None THEN unbinds
                       ELSE unbinds \cup {<<o.snap.domain, o.cur>>}
           /\ Go(t, "rmDelete") /\ UNCHANGED job
  <2>1. GoWith(t, "rmDelete", o)
    BY <1>1, <1>2, <1>7 DEF GoWith, Go, Threads
  <2>2. Shared'
    BY <1>2, <1>3, <1>4, <1>7 DEF Shared, Job, Rec
  <2>3. Agree'
    <3> SUFFICES ASSUME NEW a \in Account, NEW y \in Domain PROVE AgreeAt(a, y)'
      BY DEF Agree
    <3>1. AgreeAt(a, y)
      BY DEF IInv, Agree
    <3>2. <<y, a>> \in unbinds' => <<y, a>> \in unbinds
                                   \/ (o.snap.domain # None /\ y = o.snap.domain /\ a = o.cur)
      BY <1>7
    <3> QED BY <1>2, <1>4, <3>1, <3>2 DEF AgreeAt, Live, CopyOK
  <2>4. Once'
    BY <1>4 DEF IInv, Once, Live
  <2>5. CopyOK("rmDelete", o)' /\ WorkOK("rmDelete", o)' /\ ScanOK("rmDelete", o)'
    <3>1. CopyOK("rmDelete", o) /\ WorkOK("rmDelete", o) /\ ScanOK("rmDelete", o)
      BY <1>5
    <3>2. CopyOK("rmDelete", o)' /\ ScanOK("rmDelete", o)'
      BY <1>4, <3>1 DEF CopyOK, ScanOK, Live
    <3>3. WorkOK("rmDelete", o)'
      BY <1>4, <3>1 DEF WorkOK
    <3> QED BY <3>2, <3>3
  <2>6. ASSUME NEW u \in Thread \ {t}
        PROVE  CopyOK(pc[u], job[u])' /\ WorkOK(pc[u], job[u])' /\ ScanOK(pc[u], job[u])'
    <3>1. /\ pc'[u] = pc[u] /\ job'[u] = job[u]
          /\ CopyOK(pc[u], job[u]) /\ WorkOK(pc[u], job[u]) /\ ScanOK(pc[u], job[u])
      BY <1>5, <2>1, Frame
    <3>2. CopyOK(pc[u], job[u])' /\ ScanOK(pc[u], job[u])'
      BY <1>4, <3>1 DEF CopyOK, ScanOK, Live
    <3>3. WorkOK(pc[u], job[u])'
      BY <1>4, <3>1 DEF WorkOK
    <3> QED BY <3>2, <3>3
  <2> QED BY <1>5, <2>1, <2>2, <2>3, <2>4, <2>5, <2>6, Compose
<1> QED BY <1>1, <1>6, <1>7 DEF PrepareRemoveOsAccount

LEMMA DelOsAccountStep ==
    ASSUME IInv, NEW t \in Thread, DelOsAccount(t)
    PROVE  IInv'
<1>1. PICK o \in Job : o = job[t]
  BY DEF IInv, Threads
<1>2. /\ pc[t] = "rmDelete" /\ Shared /\ Threads
      /\ CallOK("rmDelete", o) /\ CopyOK("rmDelete", o)
      /\ WorkOK("rmDelete", o) /\ ScanOK("rmDelete", o)
  BY <1>1 DEF IInv, Threads, Locals, DelOsAccount
<1> USE DEF BindPlaces, RecPlaces, RmPlaces, CleanPlaces
<1>3. /\ o.cur \in Account /\ o.back \in {"remove", "filter", "garbage"}
      /\ Holds(pc[t], o, o.cur) /\ (o.back = "filter" => o.cur # o.acct /\ o.acct \in Account)
  BY <1>2 DEF CallOK, Holds, InBind
<1>4. UNCHANGED <<plugin, unbinds, bindMutex, operating>>
  BY DEF DelOsAccount, files
<1>5. ASSUME NEW l \in {"rmDelete", "rmUnmark"}, NEW j \in Job, j.acct = o.acct,
        j.domain = o.domain,
             j.select = o.select, j.cur = o.cur, j.snap = o.snap, j.back = o.back,
             j.todo = o.todo, j.found = o.found, j.isBound = o.isBound
      PROVE  /\ l \in Places /\ LockStep(t, l, j) /\ MarkStep(t, l, j)
             /\ CallOK(l, j) /\ CopyOK(l, j) /\ WorkOK(l, j) /\ ScanOK(l, j)
  <2>1. LockStep(t, l, j) /\ MarkStep(t, l, j) /\ l \in Places
    BY <1>1, <1>2, <1>3, <1>4, <1>5 DEF LockStep, MarkStep, IInv, Marks, InBind, Holds, Places
  <2>2. CallOK(l, j)
    BY <1>2, <1>3, <1>5 DEF CallOK, InBind, Free
  <2>3. CopyOK(l, j)
    BY <1>2, <1>3, <1>5 DEF CopyOK, InBind, Free
  <2>4. WorkOK(l, j)
    BY <1>2, <1>3, <1>5 DEF WorkOK, Free
  <2>5. ScanOK(l, j)
    BY <1>2, <1>3, <1>5 DEF ScanOK, Free
  <2> QED BY <2>1, <2>2, <2>3, <2>4, <2>5
<1>6. CASE GoWith(t, "rmUnmark", [o EXCEPT !.ok = FALSE]) /\ UNCHANGED files
  <2>1. [o EXCEPT !.ok = FALSE] \in Job
    BY DEF Job
  <2>2. PICK j \in Job : /\ GoWith(t, "rmUnmark", j)
                         /\ j.acct = o.acct /\ j.domain = o.domain /\ j.select = o.select
                         /\ j.cur = o.cur /\ j.snap = o.snap /\ j.back = o.back
                         /\ j.todo = o.todo /\ j.found = o.found /\ j.isBound = o.isBound
    BY <1>6, <2>1 DEF Job
  <2>3. operating' \subseteq Account
    BY <1>2, <1>4 DEF Shared
  <2> QED BY <1>4, <1>5, <1>6, <2>2, <2>3, LocalStep DEF files
<1>7. CASE /\ record' = [record EXCEPT ![o.cur] = Removed]
           /\ flag' = [flag EXCEPT ![o.cur] = None]
           /\ \E ok \in BOOLEAN : GoWith(t, "rmUnmark", [o EXCEPT !.ok = ok])
  <2>1. PICK j \in Job : /\ GoWith(t, "rmUnmark", j)
                         /\ j.acct = o.acct /\ j.domain = o.domain /\ j.select = o.select
                         /\ j.cur = o.cur /\ j.snap = o.snap /\ j.back = o.back
                         /\ j.todo = o.todo /\ j.found = o.found /\ j.isBound = o.isBound
    <3>1. PICK ok \in BOOLEAN : GoWith(t, "rmUnmark", [o EXCEPT !.ok = ok])
      BY <1>7
    <3>2. [o EXCEPT !.ok = ok] \in Job
      BY DEF Job
    <3> QED BY <3>1, <3>2 DEF Job
  <2>2. /\ "rmUnmark" \in Places /\ LockStep(t, "rmUnmark", j) /\ MarkStep(t, "rmUnmark", j)
        /\ CallOK("rmUnmark", j) /\ CopyOK("rmUnmark", j)
        /\ WorkOK("rmUnmark", j) /\ ScanOK("rmUnmark", j)
    BY <1>5, <2>1
  <2>3. Shared'
    BY <1>2, <1>4, <1>7 DEF Shared, Rec, Removed
  <2>4. /\ ~record'[o.cur].exists
        /\ \A a \in Account : a # o.cur => record'[a] = record[a] /\ flag'[a] = flag[a]
        /\ flag'[o.cur] = None
    BY <1>2, <1>3, <1>7 DEF Shared, Removed
  <2>5. \A a \in Account : Live(a)' => Live(a)
    BY <2>4 DEF Live
  <2>6. Agree'
    <3> SUFFICES ASSUME NEW a \in Account, NEW y \in Domain PROVE AgreeAt(a, y)'
      BY DEF Agree
    <3>1. AgreeAt(a, y)
      BY DEF IInv, Agree
    <3> QED BY <1>4, <2>4, <3>1 DEF AgreeAt, Live
  <2>7. Once'
    BY <1>4, <2>5 DEF IInv, Once
  <2>8. \A f \in j.found : f[1] \in Account
    BY DEF Job
  <2>9. CopyOK("rmUnmark", j)'
    BY <1>3, <2>1, <2>2, <2>4, <2>8 DEF CopyOK, CallOK, InBind, Free
  <2>10. WorkOK("rmUnmark", j)'
    BY <1>3, <1>4, <2>1, <2>2, <2>4 DEF WorkOK, Free
  <2>11. ScanOK("rmUnmark", j)'
    BY <1>4, <2>2, <2>5 DEF ScanOK
  <2>12. ASSUME NEW u \in Thread \ {t}
         PROVE  CopyOK(pc[u], job[u])' /\ WorkOK(pc[u], job[u])' /\ ScanOK(pc[u], job[u])'
    <3>1. /\ pc'[u] = pc[u] /\ job'[u] = job[u] /\ job[u] \in Job
          /\ CallOK(pc[u], job[u]) /\ CopyOK(pc[u], job[u])
          /\ WorkOK(pc[u], job[u]) /\ ScanOK(pc[u], job[u])
      BY <1>2, <2>1, <2>2, Frame DEF Threads
    <3>2. /\ InBind(pc[u], job[u]) /\ pc[u] \notin {"select", "mark"} => job[u].acct # o.cur
          /\ pc[u] \in RmPlaces => job[u].cur # o.cur
      BY <1>1, <1>3, Elsewhere
    <3>3. /\ pc[u] \in RecPlaces \cup RmPlaces => job[u].cur \in Account
          /\ job[u].back = "scan" => job[u].cur \in Account
          /\ InBind(pc[u], job[u]) => job[u].acct \in Account
          /\ \A f \in job[u].found : f[1] \in Account
      <4>1. job[u].back = "scan" => pc[u] \in RecPlaces
        BY <3>1, <1>2 DEF CallOK, Threads, Places
      <4>2. \A f \in job[u].found : f[1] \in Account
        BY <3>1 DEF Job
      <4> QED BY <3>1, <4>1, <4>2 DEF CallOK
    <3>4. CopyOK(pc[u], job[u])'
      BY <2>4, <3>1, <3>2, <3>3 DEF CopyOK
    <3>5. WorkOK(pc[u], job[u])'
      BY <1>4, <2>4, <3>1, <3>2, <3>3 DEF WorkOK, InBind, Free
    <3>6. ScanOK(pc[u], job[u])'
      BY <1>4, <2>5, <3>1 DEF ScanOK
    <3> QED BY <3>4, <3>5, <3>6
  <2> QED BY <2>1, <2>2, <2>3, <2>6, <2>7, <2>9, <2>10, <2>11, <2>12, Compose
<1> QED BY <1>1, <1>6, <1>7 DEF DelOsAccount

\* The plugin forgets an account that is removed.
LEMMA StartPluginStep ==
    ASSUME IInv, NEW b \in unbinds, StartPluginOnAccountUnBound(b)
    PROVE  IInv'
<1>1. Shared /\ Threads
  BY DEF IInv
<1>2. UNCHANGED <<record, flag, bindMutex, operating, pc, job>>
  BY DEF StartPluginOnAccountUnBound, files
<1>3. plugin' \subseteq plugin /\ plugin \ plugin' \subseteq {b} /\ unbinds' \subseteq unbinds
  BY DEF StartPluginOnAccountUnBound
<1>4. PICK x \in Domain, c \in Account : b = <<x, c>>
  BY <1>1 DEF Shared
<1>5. record[c].exists => record[c].toBeRemoved /\ record[c].domain = x
  BY <1>4 DEF IInv, Agree, AgreeAt
<1>6. \A a \in Account, y \in Domain :
         /\ <<y, a>> \in plugin' => <<y, a>> \in plugin
         /\ <<y, a>> \in plugin => <<y, a>> \in plugin' \/ (y = x /\ a = c)
         /\ <<y, a>> \in unbinds' => <<y, a>> \in unbinds
  BY <1>3, <1>4
<1>7. Shared' /\ Threads'
  BY <1>1, <1>2, <1>3 DEF Shared, Threads
<1>8. Owner' /\ Marks'
  BY <1>2 DEF IInv, Owner, Marks
<1>9. Agree'
  <2> SUFFICES ASSUME NEW a \in Account, NEW y \in Domain PROVE AgreeAt(a, y)'
    BY DEF Agree
  <2>1. AgreeAt(a, y)
    BY DEF IInv, Agree
  <2> QED BY <1>2, <1>5, <1>6, <2>1 DEF AgreeAt, Live
<1>10. Once'
  BY <1>2, <1>6 DEF IInv, Once, Live
<1>11. Locals'
  <2> SUFFICES ASSUME NEW u \in Thread
               PROVE  (CallOK(pc[u], job[u]) /\ CopyOK(pc[u], job[u])
                       /\ WorkOK(pc[u], job[u]) /\ ScanOK(pc[u], job[u]))'
    BY DEF Locals
  <2>1. /\ CallOK(pc[u], job[u]) /\ CopyOK(pc[u], job[u])
        /\ WorkOK(pc[u], job[u]) /\ ScanOK(pc[u], job[u])
    BY DEF IInv, Locals
  <2>2. CallOK(pc[u], job[u])' /\ CopyOK(pc[u], job[u])'
    BY <1>2, <2>1 DEF CopyOK
  <2>3. /\ InBind(pc[u], job[u]) => job[u].acct \in Account
        /\ InBind(pc[u], job[u]) /\ pc[u] # "unmark" => job[u].domain \in Domain
        /\ pc[u] \in RecPlaces => job[u].cur \in Account
    BY <2>1 DEF CallOK
  <2>4. pc[u] = "write" /\ job[u].acct = c => ~record[c].exists
    BY <1>4, <1>5, <2>1, DomainAssumption DEF CopyOK, InBind, BindPlaces
  <2>5. WorkOK(pc[u], job[u])'
    BY <1>2, <1>6, <2>1, <2>3, <2>4 DEF WorkOK, InBind, Free, BindPlaces, RecPlaces
  <2>6. Free(pc[u], job[u]) => InBind(pc[u], job[u]) /\ pc[u] # "unmark"
    BY <2>1, <1>1 DEF InBind, Free, BindPlaces, CallOK
  <2>7. ScanOK(pc[u], job[u])'
    BY <1>2, <1>6, <2>1, <2>3, <2>6 DEF ScanOK, Live, InBind, BindPlaces
  <2> QED BY <2>2, <2>5, <2>7
<1> QED BY <1>7, <1>8, <1>9, <1>10, <1>11 DEF IInv

\* A thread without a call.
LEMMA Fresh ==
    ASSUME NEW l \in {"idle", "garbage"}, NEW j \in Job, j.back = "none", j.found = {}
    PROVE  /\ ~InBind(l, j) /\ \A a \in Account : ~Holds(l, j, a)
           /\ CallOK(l, j) /\ CopyOK(l, j) /\ WorkOK(l, j) /\ ScanOK(l, j)
<1> USE DEF BindPlaces, RecPlaces, RmPlaces
<1>1. ~InBind(l, j) /\ ~Free(l, j) /\ \A a \in Account : ~Holds(l, j, a)
  BY DEF InBind, Free, Holds
<1>2. CallOK(l, j) /\ CopyOK(l, j)
  BY <1>1 DEF CallOK, CopyOK
<1>3. WorkOK(l, j) /\ ScanOK(l, j)
  BY <1>1 DEF WorkOK, ScanOK
<1> QED BY <1>1, <1>2, <1>3

\* At the start and after a restart nobody has a call.
Started ==
    /\ Shared /\ Agree /\ Once /\ bindMutex = None
    /\ pc \in [Thread -> {"idle", "garbage"}]
    /\ \E S \in SUBSET Account : job \in [Thread -> {NoJob, [NoJob EXCEPT !.todo = S]}]

LEMMA AllFresh == Started => IInv
<1> SUFFICES ASSUME Started PROVE IInv
  OBVIOUS
<1>1. PICK S \in SUBSET Account : job \in [Thread -> {NoJob, [NoJob EXCEPT !.todo = S]}]
  BY DEF Started
<1>0. NoJob \in Job /\ [NoJob EXCEPT !.todo = S] \in Job
  BY DEF NoJob, Job, Removed, Rec, Backs
<1>2. ASSUME NEW u \in Thread
      PROVE  /\ job[u] \in Job /\ ~InBind(pc[u], job[u])
             /\ \A a \in Account : ~Holds(pc[u], job[u], a)
             /\ CallOK(pc[u], job[u]) /\ CopyOK(pc[u], job[u])
             /\ WorkOK(pc[u], job[u]) /\ ScanOK(pc[u], job[u])
  <2>1. pc[u] \in {"idle", "garbage"}
    BY DEF Started
  <2>2. job[u] \in Job
    BY <1>0, <1>1
  <2>3. job[u].back = "none" /\ job[u].found = {}
    BY <1>1 DEF NoJob
  <2> QED BY <2>1, <2>2, <2>3, Fresh
<1>3. Threads
  BY <1>1, <1>2 DEF Started, Threads, Places, CleanPlaces
<1>4. Owner
  BY <1>2, DomainAssumption DEF Started, Owner, Thread
<1>5. Marks
  BY <1>2 DEF Marks
<1>6. Locals
  BY <1>2 DEF Locals
<1> QED BY <1>3, <1>4, <1>5, <1>6 DEF Started, IInv

LEMMA InitOK == Init => IInv
<1> SUFFICES ASSUME Init PROVE IInv
  OBVIOUS
<1>1. Shared
  BY DEF Init, Shared, Unbound, Rec
<1>2. \A a \in Account : record[a].domain = None
  BY DEF Init, Unbound
<1>3. Agree /\ Once
  BY <1>2, DomainAssumption DEF Init, Agree, AgreeAt, Once
<1>4. pc \in [Thread -> {"idle", "garbage"}] /\ bindMutex = None
  BY DEF Init
<1>5. \E S \in SUBSET Account : job \in [Thread -> {NoJob, [NoJob EXCEPT !.todo = S]}]
  BY DEF Init
<1> QED BY <1>1, <1>3, <1>4, <1>5, AllFresh DEF Started

LEMMA RestartStep == IInv /\ Restart => IInv'
<1> SUFFICES ASSUME IInv, Restart PROVE IInv'
  OBVIOUS
<1>1. UNCHANGED <<record, flag, plugin>> /\ unbinds' = {} /\ bindMutex' = None /\ operating' = {}
  BY DEF Restart, files
<1>2. Shared'
  BY <1>1 DEF IInv, Shared
<1>3. Agree' /\ Once'
  BY <1>1 DEF IInv, Agree, AgreeAt, Once, Live
<1>4. pc' \in [Thread -> {"idle", "garbage"}]
  BY DEF Restart
<1>5. \E S \in SUBSET Account : job' \in [Thread -> {NoJob, [NoJob EXCEPT !.todo = S]}]
  <2>1. GetOsAccountIdList \in SUBSET Account
    BY DEF GetOsAccountIdList
  <2> QED BY <2>1 DEF Restart
<1>6. Started'
  BY <1>1, <1>2, <1>3, <1>4, <1>5 DEF Started
<1> QED BY <1>6, AllFresh, PTL

\* Every step keeps the invariant.
LEMMA NextOK == IInv /\ [Next]_vars => IInv'
<1> SUFFICES ASSUME IInv, [Next]_vars PROVE IInv'
  OBVIOUS
<1>1. ASSUME NEW t \in Thread, BindStep(t) PROVE IInv'
  BY <1>1, BindSelectStep, BindMarkStep, GetOsAccountsByDomainInfoStep,
     CheckDomainAccountBoundStep, BindWorkFlagStep, BindDomainAccountSyncStep,
     BindWorkWriteStep, BindWorkDeleteFlagStep, BindUnmarkStep DEF BindStep
<1>2. ASSUME NEW t \in Thread, RecoverStep(t) PROVE IInv'
  BY <1>2, CheckAndRecoverStep, RecoverUnbindStep, RecoverDeleteStep DEF RecoverStep
<1>3. ASSUME NEW t \in Thread, RemoveStep(t) PROVE IInv'
  BY <1>3, RemoveReadStep, RemoveSetFlagStep, PrepareRemoveOsAccountStep, DelOsAccountStep,
     RemoveUnmarkStep DEF RemoveStep
<1>4. ASSUME NEW t \in Thread, CleanStep(t) PROVE IInv'
  BY <1>4, CleanGarbageMarkStep, CleanGarbageOsAccountsStep, CleanUnbindMarkStep,
     CleanUnbindDomainAccountStep, CleanUnbindUnmarkStep DEF CleanStep
<1>5. ASSUME NEW t \in Proc, NEW a \in Account, Call(t, a) PROVE IInv'
  BY <1>5, BindDomainAccountStep, RemoveOsAccountStep DEF Call, Thread
<1>6. ASSUME NEW b \in unbinds, StartPluginOnAccountUnBound(b) PROVE IInv'
  BY <1>6, StartPluginStep
<1>7. CASE UNCHANGED vars
  <2>1. UNCHANGED <<record, flag, plugin, unbinds, bindMutex, operating, pc, job>>
    BY <1>7 DEF vars
  <2>2. (Shared /\ Threads /\ Owner /\ Marks /\ Agree /\ Once)'
    BY <2>1 DEF IInv, Shared, Threads, Owner, Marks, Agree, AgreeAt, Once, Live
  <2>3. Locals'
    BY <2>1 DEF IInv, Locals, CopyOK, WorkOK, ScanOK, Live
  <2> QED BY <2>2, <2>3 DEF IInv
<1> QED BY <1>1, <1>2, <1>3, <1>4, <1>5, <1>6, <1>7, RestartStep DEF Next, Step

LEMMA Inductive == Spec => []IInv
BY InitOK, NextOK, PTL DEF Spec

-----------------------------------------------------------------------------
\* The plugin and the records never disagree beyond what the file of the
\* unfinished binding says, whatever BindDomainAccount, the recovery of
\* CheckAndRecoverBindDomainForUncomplete, the removal of accounts and the
\* collector of the next start do beside each other, and whichever of their
\* steps fails or is the last one before the service dies.
THEOREM RecordsFollowPlugin == Spec => []BindingsAgree
<1>1. IInv => BindingsAgree
  BY DEF IInv, Agree, AgreeAt, BindingsAgree, Live
<1> QED BY <1>1, Inductive, PTL

\* BindDomainAccount never binds a domain account to a second live account:
\* CheckDomainAccountBound looks at every account long before the plugin binds,
\* and what it found still holds then.  It must be able to read their records:
\* one that it cannot read is passed over.
THEOREM BoundOncePerDomain == ASSUME Seen PROVE Spec => []OneAccountPerDomain
<1>1. IInv => OneAccountPerDomain
  BY DEF IInv, Agree, AgreeAt, Once, OneAccountPerDomain, Live
<1> QED BY <1>1, Inductive, PTL

=============================================================================
