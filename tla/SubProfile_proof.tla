-------------------------- MODULE SubProfile_proof --------------------------
(***************************************************************************)
(* Theorems about SubProfile, for any threads, accounts, applications, ids *)
(* and indexes, whatever fails and however often the service crashes: the  *)
(* context stays consistent, and the bindings are those of                 *)
(* DistributedBinding.                                                     *)
(***************************************************************************)
EXTENDS SubProfile, FiniteSetTheorems, NaturalsInduction, WellFoundedInduction, TLAPS

Event == {"login", "logout", "logoff", "token_invalid"}

Pc == {"idle", "reclaim", "retry", "create", "undo", "undoctx", "cred", "rmdir",
       "forget", "enter", "resolve", "persist", "event", "eventsave", "package", "clear"}

\* Where a call holds subProfileOpMutex_, and where it holds mgrMutex_.
OpHeld == {"reclaim", "retry", "create", "undo", "undoctx", "cred", "rmdir", "forget"}
MgrHeld == {"eventsave", "package", "clear"}

Call == [pc : Pc, s : 0..MaxId, acct : Account \cup {None}, app : App \cup {None},
         ev : Event \cup {"none"}, from : -1..MaxId, info : Info \cup Context \cup {None},
         todo : SUBSET Id, ids : SUBSET Id]

\* A sub-profile has an account exactly while it is bound.
FileOK(f) == f # None => ((f.st = "UNBOUND") <=> (f.acct = None))

\* The context lists what has an index, and gives every index away once.
Consistent(c) ==
    /\ c.list = {c.index[i] : i \in Index} \ {0}
    /\ \A i, j \in Index : c.index[i] = c.index[j] /\ i # j => c.index[i] = 0

Types ==
    /\ ctx \in Context \cup {None}
    /\ files \in [Id -> Info \cup {None}]
    /\ \A s \in Id : FileOK(files[s])
    /\ fg \in Id \cup {-1} /\ rt \in Id \cup {-1, None}
    /\ switching \in BOOLEAN /\ cleanup \in BOOLEAN
    /\ op \in Thread \cup {None} /\ mgr \in Thread \cup {None}
    /\ call \in [Thread -> Call]

\* What is true of a call c wherever the other threads are: the context that
\* RollbackContext writes back is a consistent one.
Shape(c) ==
    /\ c.pc \in Pc \ {"idle", "reclaim", "retry", "package"} => c.s \in Id
    /\ c.pc \in {"create", "undo", "undoctx"} => c.info \in Context /\ Consistent(c.info)
    /\ c.pc \in {"enter", "resolve", "persist"} => c.from \in Id \cup {-1}
    /\ c.pc = "event" => c.ev \in Event /\ c.acct \in Account /\ c.app \in App
    /\ c.pc \in {"eventsave", "clear"} => c.info \in Info /\ FileOK(c.info)
    /\ c.pc = "eventsave" => c.info.acct \in Account
    /\ c.pc = "clear" => c.info.acct = None

\* The mutexes are held where the code holds them.
Holds(t) ==
    /\ call[t].pc \in OpHeld => op = t
    /\ call[t].pc \in MgrHeld => mgr = t

\* The scan for valid sub-profiles loads the file of every one.
Scanned == "scan" \notin Faults

\* Binding account a to sub-profile s keeps one sub-profile per account.
Free(s, a) ==
    /\ BoundAccount(s) \in {None, a}
    /\ Scanned => \A r \in Id \ {s} : BoundAccount(r) # a

\* What a call has seen in the files is still so when it writes them: what
\* RemoveGarbageSubProfiles deletes is garbage, the sub-profile to be marked is
\* valid, and VerifySpaceAccountBinding would still agree.
Sees(t) ==
    /\ call[t].pc = "reclaim" => call[t].todo \subseteq PendingRemoval
    /\ call[t].pc = "cred" => Valid(call[t].s)
    /\ call[t].pc = "eventsave" /\ ~call[t].info.rem => Free(call[t].s, call[t].info.acct)

\* An account is bound to one sub-profile.
Once == Scanned =>
    \A r, s \in Id : BoundAccount(r) = BoundAccount(s) /\ BoundAccount(r) # None => r = s

IInv ==
    /\ Types
    /\ ctx # None => Consistent(ctx)
    /\ Once
    /\ \A t \in Thread : Shape(call[t]) /\ Holds(t) /\ Sees(t)

-----------------------------------------------------------------------------
(* The operators on contexts.                                              *)

\* A set of natural numbers has a least one.
LEMMA LeastIn ==
    ASSUME NEW S \in SUBSET Nat, S # {}
    PROVE  (CHOOSE x \in S : \A y \in S : x <= y) \in S
<1>1. PICK d \in S : \A e \in S : ~(<<e, d>> \in OpToRel(<, Nat))
  BY WFMin, NatLessThanWellFounded
<1>2. \A e \in S : d <= e
  <2>. SUFFICES ASSUME NEW e \in S PROVE d <= e
    OBVIOUS
  <2>1. ~(<<e, d>> \in {p \in Nat \X Nat : p[1] < p[2]})
    BY <1>1 DEF OpToRel
  <2>. QED
    BY <2>1
<1>. QED
  BY <1>2

\* FirstFree finds a number that is not used, if there is one.
LEMMA FirstFreeIn ==
    ASSUME NEW start, NEW hi \in Nat, NEW used, (1..hi) \ used # {}
    PROVE  FirstFree(start, 1, hi, used) \in (1..hi) \ used
<1>. DEFINE free == (1..hi) \ used
            from == IF start \in 1..hi THEN start ELSE 1
            up == {x \in free : x >= from}
<1>1. free \in SUBSET Nat /\ up \in SUBSET free
  OBVIOUS
<1>2. (CHOOSE x \in free : \A y \in free : x <= y) \in free
  BY <1>1, LeastIn
<1>3. up # {} => (CHOOSE x \in up : \A y \in up : x <= y) \in up
  BY <1>1, LeastIn
<1>. QED
  BY <1>1, <1>2, <1>3 DEF FirstFree

\* A context that is not full has an id and an index to give away.
LEMMA RoomLeft ==
    ASSUME NEW c \in Context, Consistent(c), ~Full(c)
    PROVE  /\ (1..MaxId) \ c.list # {}
           /\ (1..MaxCount) \ {i \in Index : c.index[i] # 0} # {}
<1>. USE SubProfileConstants
<1>1. /\ MaxId \in Nat /\ MaxCount \in Nat /\ MaxCount <= MaxId
      /\ c.list \in SUBSET Id /\ c.index \in [Index -> 0..MaxId]
  BY DEF Context
<1>2. /\ IsFiniteSet(Id) /\ Cardinality(Id) = MaxId
      /\ IsFiniteSet(Index) /\ Cardinality(Index) = MaxCount
  BY <1>1, FS_Interval DEF Id, Index
<1>3. IsFiniteSet(c.list) /\ Cardinality(c.list) \in Nat
  BY <1>1, <1>2, FS_Subset, FS_CardinalityType
<1>4. Cardinality(c.list) < MaxCount
  BY <1>1, <1>3 DEF Full
<1>5. c.list # Id
  BY <1>1, <1>2, <1>3, <1>4
<1>6. \E i \in Index : c.index[i] = 0
  <2>1. SUFFICES ASSUME \A i \in Index : c.index[i] # 0 PROVE FALSE
    OBVIOUS
  <2>2. c.index \in [Index -> c.list]
    BY <1>1, <2>1 DEF Consistent
  <2>3. \E i, j \in Index : i # j /\ c.index[i] = c.index[j]
    BY <1>2, <1>3, <1>4, <2>2, FS_PigeonHole
  <2>. QED
    BY <2>1, <2>3 DEF Consistent
<1>. QED
  BY <1>1, <1>5, <1>6 DEF Id, Index

\* What CreateSubProfile persists is consistent.
LEMMA AllocatedOK ==
    ASSUME NEW c \in Context, Consistent(c), ~Full(c)
    PROVE  /\ AllocateOsAccountSubProfileId(c) \in Id
           /\ Allocated(c) \in Context /\ Consistent(Allocated(c))
<1>1. /\ MaxId \in Nat /\ MaxCount \in Nat
      /\ c.list \in SUBSET Id /\ c.index \in [Index -> 0..MaxId]
  BY SubProfileConstants DEF Context
<1>2. PICK s : s = AllocateOsAccountSubProfileId(c)
  OBVIOUS
<1>3. PICK i : i = AllocateSubProfileIndex(c)
  OBVIOUS
<1>4. s \in Id \ c.list
  BY <1>1, <1>2, RoomLeft, FirstFreeIn DEF AllocateOsAccountSubProfileId, Id
<1>5. i \in Index /\ c.index[i] = 0
  <2>. DEFINE used == {j \in Index : c.index[j] # 0}
  <2>1. (1..MaxCount) \ used # {}
    BY RoomLeft
  <2>2. i = FirstFree(c.nextIndex, 1, MaxCount, used)
    BY <1>3 DEF AllocateSubProfileIndex
  <2>3. i \in (1..MaxCount) \ used
    <3>. HIDE DEF used
    <3>. QED
      BY <1>1, <2>1, <2>2, FirstFreeIn
  <2>. QED
    BY <2>3 DEF Index
<1>6. Allocated(c) = [next |-> s + 1, list |-> c.list \cup {s},
                      nextIndex |-> i + 1, index |-> [c.index EXCEPT ![i] = s]]
  BY <1>2, <1>3 DEF Allocated
<1>7. Allocated(c) \in Context
  BY <1>1, <1>4, <1>5, <1>6 DEF Context, Id, Index
<1>8. s # 0 /\ s \in 0..MaxId /\ s \notin c.list
  BY <1>1, <1>4 DEF Id
<1>9. \A j \in Index : c.index[j] = 0 \/ c.index[j] \in c.list
  BY <1>1 DEF Consistent
<1>10. \A j \in Index : [c.index EXCEPT ![i] = s][j] = IF j = i THEN s ELSE c.index[j]
  BY <1>1, <1>5
<1>11. c.list \cup {s} = {[c.index EXCEPT ![i] = s][j] : j \in Index} \ {0}
  <2>1. ASSUME NEW x \in c.list PROVE \E j \in Index : [c.index EXCEPT ![i] = s][j] = x /\ x # 0
    <3>1. PICK j \in Index : c.index[j] = x /\ x # 0
      BY <2>1 DEF Consistent
    <3>. QED
      BY <1>5, <1>10, <3>1
  <2>2. ASSUME NEW j \in Index, [c.index EXCEPT ![i] = s][j] # 0
        PROVE  [c.index EXCEPT ![i] = s][j] \in c.list \cup {s}
    BY <1>9, <1>10, <2>2
  <2>3. [c.index EXCEPT ![i] = s][i] = s
    BY <1>5, <1>10
  <2>. QED
    BY <1>5, <1>8, <2>1, <2>2, <2>3
<1>12. \A j, k \in Index :
          [c.index EXCEPT ![i] = s][j] = [c.index EXCEPT ![i] = s][k] /\ j # k
            => [c.index EXCEPT ![i] = s][j] = 0
  BY <1>8, <1>9, <1>10 DEF Consistent
<1>. QED
  BY <1>2, <1>4, <1>6, <1>7, <1>11, <1>12 DEF Consistent

\* So is what is written after a removal.
LEMMA WithoutOK ==
    ASSUME NEW c \in Context, Consistent(c), NEW S \in SUBSET Id
    PROVE  Without(c, S) \in Context /\ Consistent(Without(c, S))
<1>1. /\ MaxId \in Nat /\ MaxCount \in Nat
      /\ c.list \in SUBSET Id /\ c.index \in [Index -> 0..MaxId]
  BY SubProfileConstants DEF Context
<1>2. PICK x : x = [i \in Index |-> IF c.index[i] \in S THEN 0 ELSE c.index[i]]
  OBVIOUS
<1>3. /\ x \in [Index -> 0..MaxId]
      /\ \A i \in Index : x[i] = IF c.index[i] \in S THEN 0 ELSE c.index[i]
  BY <1>1, <1>2
<1>4. Without(c, S) = [next |-> c.next, list |-> c.list \ S, nextIndex |-> c.nextIndex, index |-> x]
  <2>1. Without(c, S) = [c EXCEPT !.list = c.list \ S, !.index = x]
    BY <1>2, Zenon DEF Without
  <2>. QED
    BY <2>1 DEF Context
<1>5. Without(c, S) \in Context
  BY <1>1, <1>3, <1>4 DEF Context
<1>6. \A i \in Index : c.index[i] = 0 \/ c.index[i] \in c.list
  BY <1>1 DEF Consistent
<1>7. c.list \ S = {x[i] : i \in Index} \ {0}
  <2>1. ASSUME NEW y \in c.list \ S PROVE \E i \in Index : x[i] = y /\ y # 0
    <3>1. PICK i \in Index : c.index[i] = y /\ y # 0
      BY <2>1 DEF Consistent
    <3>. QED
      BY <1>3, <3>1
  <2>2. ASSUME NEW i \in Index, x[i] # 0 PROVE x[i] \in c.list \ S
    BY <1>3, <1>6, <2>2
  <2>. QED
    BY <2>1, <2>2
<1>8. \A i, j \in Index : x[i] = x[j] /\ i # j => x[i] = 0
  BY <1>3 DEF Consistent
<1>. QED
  BY <1>4, <1>5, <1>7, <1>8 DEF Consistent

LEMMA HeadlessOK == Headless \in Context /\ Consistent(Headless)
BY SubProfileConstants DEF Headless, Context, Consistent, Index, Id

\* What CreateSubProfile allocates from is consistent, though an unreadable
\* context is taken for a missing one.
LEMMA ReadOK ==
    ASSUME IInv, NEW r \in ReadSubProfileContext
    PROVE  /\ r # None => r \in Context /\ Consistent(r)
           /\ OrHeadless(r) \in Context /\ Consistent(OrHeadless(r))
BY HeadlessOK DEF ReadSubProfileContext, OrHeadless, IInv, Types

-----------------------------------------------------------------------------
(* One step of one thread.                                                 *)

Bound == [s \in Id |-> BoundAccount(s)]

\* Thread t writes at most one file, with the mutex it needs, and binds an
\* account only if it may.
FileStep(t) ==
    \/ files' = files
    \/ /\ op \in {t, None}
       /\ \E s \in Id : \E x \in Info \cup {None} :
            /\ FileOK(x) /\ files' = [files EXCEPT ![s] = x]
            /\ x # None /\ ~x.rem /\ x.acct # None => mgr = t /\ Free(s, x.acct)

\* The state that thread t leaves behind, with the call d.
StepOf(t, d) ==
    /\ d \in Call /\ Shape(d) /\ call' = [call EXCEPT ![t] = d]
    /\ FileStep(t)
    /\ ctx' \in Context \cup {None} /\ (ctx' # None => Consistent(ctx'))
    /\ fg' \in Id \cup {-1} /\ rt' \in Id \cup {-1, None}
    /\ switching' \in BOOLEAN /\ cleanup' \in BOOLEAN
    /\ op' = op \/ (op \in {t, None} /\ op' \in {t, None})
    /\ mgr' = mgr \/ (mgr \in {t, None} /\ mgr' \in {t, None})
    /\ d.pc \in OpHeld => op' = t
    /\ d.pc \in MgrHeld => mgr' = t

LEMMA FileTyped ==
    ASSUME IInv, NEW t \in Thread, FileStep(t)
    PROVE  files' \in [Id -> Info \cup {None}] /\ \A s \in Id : FileOK(files[s])'
BY DEF IInv, Types, FileStep, FileOK

\* A write to file s changes the binding of sub-profile s alone.
LEMMA WriteBinds ==
    ASSUME IInv, NEW s \in Id, NEW x \in Info \cup {None}, files' = [files EXCEPT ![s] = x]
    PROVE  /\ \A r \in Id \ {s} : BoundAccount(r)' = BoundAccount(r)
           /\ BoundAccount(s)' = IF x # None /\ ~x.rem THEN x.acct ELSE None
BY DEF IInv, Types, BoundAccount, Valid

\* The binding is that of DistributedBinding, before and after.
LEMMA FileRefines ==
    ASSUME IInv, NEW t \in Thread, FileStep(t)
    PROVE  Once' /\ (Scanned => Binding!Next \/ Bound' = Bound)
<1>1. CASE files' = files
  <2>1. \A s \in Id : BoundAccount(s)' = BoundAccount(s)
    BY <1>1 DEF BoundAccount, Valid
  <2>. QED
    BY <2>1 DEF Bound, Once, IInv
<1>2. ASSUME NEW s \in Id, NEW x \in Info \cup {None}, files' = [files EXCEPT ![s] = x],
             x # None /\ ~x.rem /\ x.acct # None => Free(s, x.acct)
      PROVE  Once' /\ (Scanned => Binding!Next \/ Bound' = Bound)
  <2>1. PICK a : a = IF x # None /\ ~x.rem THEN x.acct ELSE None
    OBVIOUS
  <2>2. /\ \A r \in Id \ {s} : BoundAccount(r)' = BoundAccount(r)
        /\ BoundAccount(s)' = a
    BY <1>2, <2>1, WriteBinds
  <2>3. a \in Account \cup {None} /\ (a # None => Free(s, a))
    BY <1>2, <2>1 DEF Info
  <2>4. Once'
    BY <2>2, <2>3 DEF Once, Free, IInv
  <2>5. Bound' = [Bound EXCEPT ![s] = a]
    BY <2>2 DEF Bound
  <2>6. Bound \in [Id -> UNION {{BoundAccount(r)} : r \in Id}] /\ Bound[s] = BoundAccount(s)
    BY DEF Bound
  <2>7. CASE a = BoundAccount(s)
    BY <2>4, <2>5, <2>6, <2>7
  <2>8. CASE a = None /\ BoundAccount(s) # None
    <3>1. Binding!Unbind(s)
      BY <2>5, <2>6, <2>8 DEF Binding!Unbind, Bound
    <3>. QED
      BY <2>4, <3>1 DEF Binding!Next
  <2>9. CASE Scanned /\ a # None /\ a # BoundAccount(s)
    <3>1. \A r \in Id : Bound[r] # a
      BY <2>3, <2>9 DEF Free, Bound
    <3>2. Binding!Bind(s, a)
      BY <2>3, <2>5, <2>6, <2>9, <3>1 DEF Binding!Bind, Bound, Free
    <3>. QED
      BY <2>3, <2>4, <2>9, <3>2 DEF Binding!Next
  <2>. QED
    BY <2>4, <2>7, <2>8, <2>9
<1>. QED
  BY <1>1, <1>2 DEF FileStep

\* Another thread sees what it saw: it holds the mutex of the file that it will
\* write, or the account that it logs in is still free.
LEMMA FileSeen ==
    ASSUME IInv, NEW t \in Thread, FileStep(t), NEW u \in Thread \ {t}, call'[u] = call[u]
    PROVE  Sees(u)'
<1>1. CASE files' = files
  <2>1. \A s \in Id : BoundAccount(s)' = BoundAccount(s) /\ Valid(s)' = Valid(s)
    BY <1>1 DEF BoundAccount, Valid
  <2>2. PendingRemoval' = PendingRemoval
    BY <1>1 DEF PendingRemoval
  <2>3. Sees(u) /\ Shape(call[u]) /\ call[u].pc \in {"cred", "eventsave"} => call[u].s \in Id
    BY DEF IInv, Shape, Pc
  <2>. QED
    BY <2>1, <2>2, <2>3 DEF Sees, Free, IInv
<1>2. ASSUME op \in {t, None}, NEW s \in Id, NEW x \in Info \cup {None},
             files' = [files EXCEPT ![s] = x],
             x # None /\ ~x.rem /\ x.acct # None => mgr = t /\ Free(s, x.acct)
      PROVE  Sees(u)'
  <2>1. call[u].pc \notin OpHeld
    BY <1>2, SubProfileConstants DEF IInv, Holds
  <2>2. SUFFICES ASSUME call[u].pc = "eventsave", ~call[u].info.rem
                 PROVE  Free(call[u].s, call[u].info.acct)'
    BY <2>1 DEF Sees, OpHeld
  <2>3. mgr = u /\ Free(call[u].s, call[u].info.acct)
    BY <2>2 DEF IInv, Holds, Sees, MgrHeld
  <2>4. /\ \A r \in Id \ {s} : BoundAccount(r)' = BoundAccount(r)
        /\ BoundAccount(s)' = None
    BY <1>2, <2>3, WriteBinds
  <2>5. call[u].s \in Id /\ call[u].info.acct # None
    BY <2>2, SubProfileConstants DEF IInv, Shape, Pc
  <2>. QED
    BY <2>3, <2>4, <2>5 DEF Free
<1>. QED
  BY <1>1, <1>2 DEF FileStep

\* The other threads are where they were.
LEMMA Compose ==
    ASSUME IInv, NEW t \in Thread, NEW d, StepOf(t, d), Sees(t)'
    PROVE  IInv' /\ (Scanned => Binding!Next \/ Bound' = Bound)
<1>1. Once' /\ (Scanned => Binding!Next \/ Bound' = Bound)
  BY FileRefines DEF StepOf
<1>2. /\ call' \in [Thread -> Call] /\ call'[t] = d
      /\ \A u \in Thread \ {t} : call'[u] = call[u]
  BY DEF StepOf, IInv, Types
<1>3. Types'
  BY <1>2, FileTyped DEF StepOf, IInv, Types
<1>4. ASSUME NEW u \in Thread PROVE Shape(call[u])' /\ Holds(u)' /\ Sees(u)'
  <2>1. CASE u = t
    <3>1. Shape(call[u])'
      BY <1>2, <2>1 DEF StepOf, Shape
    <3>2. Holds(u)'
      BY <1>2, <2>1 DEF StepOf, Holds
    <3>. QED
      BY <2>1, <3>1, <3>2
  <2>2. CASE u # t
    <3>1. Shape(call[u]) /\ Holds(u) /\ call'[u] = call[u]
      BY <1>2, <2>2 DEF IInv
    <3>2. Shape(call[u])'
      BY <3>1 DEF Shape
    <3>3. Holds(u)'
      BY <2>2, <3>1, SubProfileConstants DEF StepOf, Holds
    <3>4. Sees(u)'
      BY <2>2, <3>1, FileSeen DEF StepOf
    <3>. QED
      BY <3>2, <3>3, <3>4
  <2>. QED
    BY <2>1, <2>2
<1>5. (ctx # None => Consistent(ctx))'
  BY DEF StepOf
<1>. QED
  BY <1>1, <1>3, <1>4, <1>5 DEF IInv

\* What every step is shown to do.
Good == IInv' /\ (Scanned => Binding!Next \/ Bound' = Bound)

\* Most calls have seen nothing.
LEMMA Done ==
    ASSUME IInv, NEW t \in Thread, NEW d, StepOf(t, d),
           d.pc \notin {"reclaim", "cred", "eventsave"}
    PROVE  Good
<1>1. call'[t] = d
  BY DEF StepOf, IInv, Types
<1>2. Sees(t)'
  BY <1>1 DEF Sees
<1>. QED
  BY <1>2, Compose DEF Good

LEMMA IdleOK == Idle \in Call /\ Shape(Idle) /\ Idle.pc = "idle"
BY SubProfileConstants DEF Idle, Call, Shape, Pc, Id

LEMMA CallOK ==
    ASSUME IInv, NEW t \in Thread
    PROVE  /\ call[t] \in Call /\ Shape(call[t]) /\ Holds(t) /\ Sees(t)
           /\ call \in [Thread -> Call]
BY DEF IInv, Types

\* What a thread that writes no file and leaves leaves behind.
LEMMA Leave ==
    ASSUME IInv, NEW t \in Thread, Return(t), FileStep(t),
           ctx' \in Context \cup {None} /\ (ctx' # None => Consistent(ctx')),
           fg' \in Id \cup {-1}, rt' \in Id \cup {-1, None},
           switching' \in BOOLEAN, cleanup' \in BOOLEAN,
           op' = op \/ (op \in {t, None} /\ op' \in {t, None}),
           mgr' = mgr \/ (mgr \in {t, None} /\ mgr' \in {t, None})
    PROVE  Good
<1>1. StepOf(t, Idle)
  BY IdleOK DEF StepOf, Return, OpHeld, MgrHeld
<1>. QED
  BY <1>1, IdleOK, Done

-----------------------------------------------------------------------------
(* The creation of sub-profiles.                                           *)

LEMMA AllocateStep ==
    ASSUME IInv, NEW t \in Thread, op \in {t, None}, NEW c \in Context, Consistent(c), ~Full(c),
           Allocate(t, c), UNCHANGED <<files, fg, rt, switching, mgr, cleanup>>
    PROVE  Good
<1>1. PICK s \in Id : s = AllocateOsAccountSubProfileId(c)
  BY AllocatedOK
<1>2. Allocated(c) \in Context /\ Consistent(Allocated(c))
  BY AllocatedOK
<1>3. FileStep(t)
  BY DEF FileStep
<1>4. CASE /\ ctx' = Allocated(c) /\ op' = t
           /\ call' = [call EXCEPT ![t] = [Idle EXCEPT !.pc = "create", !.s = s, !.info = c]]
  <2>1. PICK d : d = [Idle EXCEPT !.pc = "create", !.s = s, !.info = c]
    OBVIOUS
  <2>2. d \in Call /\ d.pc = "create" /\ d.s = s /\ d.info = c
    <3>1. s \in 0..MaxId
      BY SubProfileConstants DEF Id
    <3>. QED
      BY <2>1, <3>1, IdleOK DEF Call, Pc
  <2>3. Shape(d)
    BY <2>2 DEF Shape
  <2>4. StepOf(t, d)
    BY <1>2, <1>3, <1>4, <2>1, <2>2, <2>3 DEF StepOf, IInv, Types, MgrHeld
  <2>. QED
    BY <2>2, <2>4, Done
<1>5. CASE Return(t) /\ op' = None /\ UNCHANGED ctx
  BY <1>3, <1>5, Leave DEF IInv, Types
<1>. QED
  BY <1>1, <1>4, <1>5 DEF Allocate

LEMMA CreateBeginStep == ASSUME IInv, NEW t \in Thread, CreateBegin(t) PROVE Good
<1>1. PICK r \in ReadSubProfileContext :
         \/ ~Full(OrHeadless(r)) /\ Allocate(t, OrHeadless(r))
         \/ /\ call' = [call EXCEPT ![t] = [Idle EXCEPT !.pc = "reclaim",
                          !.todo = PendingRemoval, !.ids = PendingRemoval]]
            /\ op' = t
            /\ UNCHANGED ctx
  BY DEF CreateBegin
<1>2. op = None /\ UNCHANGED <<files, fg, rt, switching, mgr, cleanup>>
  BY DEF CreateBegin
<1>3. CASE ~Full(OrHeadless(r)) /\ Allocate(t, OrHeadless(r))
  BY <1>2, <1>3, ReadOK, AllocateStep
<1>4. CASE /\ call' = [call EXCEPT ![t] = [Idle EXCEPT !.pc = "reclaim",
                         !.todo = PendingRemoval, !.ids = PendingRemoval]]
           /\ op' = t
           /\ UNCHANGED ctx
  <2>1. PICK d : d = [Idle EXCEPT !.pc = "reclaim", !.todo = PendingRemoval,
                        !.ids = PendingRemoval]
    OBVIOUS
  <2>2. d \in Call /\ d.pc = "reclaim" /\ d.todo = PendingRemoval
    BY <2>1, IdleOK DEF Call, Pc, PendingRemoval
  <2>3. StepOf(t, d)
    BY <1>2, <1>4, <2>1, <2>2 DEF StepOf, Shape, IInv, Types, MgrHeld, FileStep
  <2>4. PendingRemoval' = PendingRemoval /\ call'[t] = d
    BY <1>2, <1>4, <2>1 DEF PendingRemoval, IInv, Types
  <2>5. Sees(t)'
    BY <2>2, <2>4 DEF Sees
  <2>. QED
    BY <2>3, <2>5, Compose DEF Good
<1>. QED
  BY <1>1, <1>3, <1>4

LEMMA ReclaimDirStep == ASSUME IInv, NEW t \in Thread, ReclaimDir(t) PROVE Good
<1>1. /\ call[t] \in Call /\ Shape(call[t]) /\ Holds(t) /\ Sees(t)
      /\ call \in [Thread -> Call]
  BY CallOK
<1>2. call[t].pc = "reclaim" /\ op = t /\ call[t].todo \subseteq PendingRemoval
  BY <1>1 DEF ReclaimDir, At, Holds, Sees, OpHeld
<1>3. PICK s \in call[t].todo :
         \/ /\ files' = [files EXCEPT ![s] = None]
            /\ call' = [call EXCEPT ![t].todo = @ \ {s}, ![t].from = 0]
         \/ /\ call' = [call EXCEPT ![t].todo = @ \ {s}]
            /\ UNCHANGED files
  BY DEF ReclaimDir
<1>4. s \in Id /\ files \in [Id -> Info \cup {None}]
  BY <1>1 DEF Call, IInv, Types
<1>5. FileStep(t)
  BY <1>2, <1>3, <1>4 DEF FileStep, FileOK
<1>6. PICK d : d = call'[t]
  OBVIOUS
<1>7. /\ d \in Call /\ d.pc = "reclaim" /\ d.todo = call[t].todo \ {s}
      /\ call' = [call EXCEPT ![t] = d]
  <2>1. CASE call' = [call EXCEPT ![t].todo = @ \ {s}, ![t].from = 0]
    <3>1. call' = [call EXCEPT ![t] = [call[t] EXCEPT !.todo = @ \ {s}, !.from = 0]]
      BY <1>1, <2>1
    <3>2. 0 \in -1..MaxId
      BY SubProfileConstants
    <3>. QED
      BY <1>1, <1>2, <1>6, <3>1, <3>2 DEF Call
  <2>2. CASE call' = [call EXCEPT ![t].todo = @ \ {s}]
    BY <1>1, <1>2, <1>6, <2>2 DEF Call
  <2>. QED
    BY <1>3, <2>1, <2>2
<1>8. StepOf(t, d)
  BY <1>2, <1>5, <1>7 DEF StepOf, Shape, IInv, Types, MgrHeld, ReclaimDir
<1>9. \A x \in call[t].todo \ {s} : x \in Id /\ files'[x] = files[x]
  BY <1>1, <1>3, <1>4 DEF Call
<1>10. d.todo \subseteq PendingRemoval'
  BY <1>2, <1>7, <1>9 DEF PendingRemoval
<1>11. Sees(t)'
  BY <1>6, <1>7, <1>10 DEF Sees
<1>. QED
  BY <1>8, <1>11, Compose DEF Good

LEMMA PurgeStep == ASSUME IInv, NEW t \in Thread, Purge(t) PROVE Good
<1>1. /\ call[t] \in Call /\ Shape(call[t]) /\ Holds(t)
      /\ call \in [Thread -> Call]
  BY CallOK
<1>2. op = t /\ UNCHANGED <<files, fg, rt, switching, mgr, cleanup>> /\ FileStep(t)
  BY <1>1 DEF Purge, At, Holds, OpHeld, FileStep
<1>3. CASE Return(t) /\ op' = None /\ UNCHANGED ctx
  BY <1>2, <1>3, Leave DEF IInv, Types
<1>4. ASSUME NEW r \in ReadSubProfileContext,
             IF r = None THEN UNCHANGED ctx
               ELSE WriteSubProfileContext(Without(r, call[t].ids)),
             Goto(t, "retry"), UNCHANGED op
      PROVE  Good
  <2>1. ctx' \in Context \cup {None} /\ (ctx' # None => Consistent(ctx'))
    <3>1. call[t].ids \in SUBSET Id
      BY <1>1 DEF Call
    <3>2. r # None => /\ Without(r, call[t].ids) \in Context
                      /\ Consistent(Without(r, call[t].ids))
      BY <3>1, ReadOK, WithoutOK
    <3>. QED
      BY <1>4, <3>2 DEF WriteSubProfileContext, IInv, Types
  <2>2. PICK d : d = [call[t] EXCEPT !.pc = "retry"]
    OBVIOUS
  <2>3. d \in Call /\ d.pc = "retry" /\ call' = [call EXCEPT ![t] = d]
    BY <1>1, <1>4, <2>2 DEF Call, Pc, Goto
  <2>4. StepOf(t, d)
    BY <1>2, <1>4, <2>1, <2>3 DEF StepOf, Shape, IInv, Types, MgrHeld
  <2>. QED
    BY <2>3, <2>4, Done
<1>. QED
  BY <1>3, <1>4 DEF Purge

LEMMA CreateRetryStep == ASSUME IInv, NEW t \in Thread, CreateRetry(t) PROVE Good
<1>1. op = t /\ UNCHANGED <<files, fg, rt, switching, mgr, cleanup>> /\ FileStep(t)
  BY CallOK DEF CreateRetry, At, Holds, OpHeld, FileStep
<1>2. ASSUME NEW r \in ReadSubProfileContext, ~Full(OrHeadless(r)), Allocate(t, OrHeadless(r))
      PROVE  Good
  BY <1>1, <1>2, ReadOK, AllocateStep
<1>3. CASE Return(t) /\ op' = None /\ UNCHANGED ctx
  BY <1>1, <1>3, Leave DEF IInv, Types
<1>. QED
  BY <1>2, <1>3 DEF CreateRetry

LEMMA CreateSaveStep == ASSUME IInv, NEW t \in Thread, CreateSave(t) PROVE Good
<1>1. /\ call[t] \in Call /\ Shape(call[t]) /\ Holds(t)
      /\ call \in [Thread -> Call]
  BY CallOK
<1>2. call[t].pc = "create" /\ op = t /\ call[t].s \in Id
  BY <1>1 DEF CreateSave, At, Holds, OpHeld, Shape, Pc
<1>3. CASE files' = [files EXCEPT ![call[t].s] = Blank] /\ Return(t) /\ op' = None
  <2>1. Blank \in Info /\ FileOK(Blank) /\ Blank.acct = None
    BY DEF Blank, Info, FileOK, State
  <2>2. FileStep(t)
    BY <1>2, <1>3, <2>1 DEF FileStep
  <2>. QED
    BY <1>2, <1>3, <2>2, Leave DEF CreateSave, IInv, Types
<1>4. CASE Goto(t, "undo") /\ UNCHANGED <<files, op>>
  <2>1. PICK d : d = [call[t] EXCEPT !.pc = "undo"]
    OBVIOUS
  <2>2. /\ d \in Call /\ d.pc = "undo" /\ d.s = call[t].s /\ d.info = call[t].info
        /\ call' = [call EXCEPT ![t] = d]
    BY <1>1, <1>4, <2>1 DEF Call, Pc, Goto
  <2>3. Shape(d)
    BY <1>1, <1>2, <2>2 DEF Shape
  <2>4. StepOf(t, d)
    BY <1>2, <1>4, <2>2, <2>3 DEF StepOf, IInv, Types, MgrHeld, CreateSave, FileStep
  <2>. QED
    BY <2>2, <2>4, Done
<1>. QED
  BY <1>3, <1>4 DEF CreateSave

LEMMA RollbackDirStep == ASSUME IInv, NEW t \in Thread, RollbackDir(t) PROVE Good
<1>1. /\ call[t] \in Call /\ Shape(call[t]) /\ Holds(t)
      /\ call \in [Thread -> Call]
  BY CallOK
<1>2. call[t].pc = "undo" /\ op = t /\ call[t].s \in Id
  BY <1>1 DEF RollbackDir, At, Holds, OpHeld, Shape, Pc
<1>3. FileStep(t)
  BY <1>2 DEF FileStep, FileOK, RollbackDir
<1>4. PICK d : d = [call[t] EXCEPT !.pc = "undoctx"]
  OBVIOUS
<1>5. /\ d \in Call /\ d.pc = "undoctx" /\ d.s = call[t].s /\ d.info = call[t].info
      /\ call' = [call EXCEPT ![t] = d]
  BY <1>1, <1>4 DEF Call, Pc, Goto, RollbackDir
<1>6. Shape(d)
  BY <1>1, <1>2, <1>5 DEF Shape
<1>7. StepOf(t, d)
  BY <1>2, <1>3, <1>5, <1>6 DEF StepOf, IInv, Types, MgrHeld, RollbackDir
<1>. QED
  BY <1>5, <1>7, Done

LEMMA RollbackContextStep == ASSUME IInv, NEW t \in Thread, RollbackContext(t) PROVE Good
<1>1. call[t].pc = "undoctx" /\ op = t /\ call[t].info \in Context /\ Consistent(call[t].info)
  BY CallOK DEF RollbackContext, At, Holds, OpHeld, Shape
<1>2. ctx' \in Context \cup {None} /\ (ctx' # None => Consistent(ctx'))
  BY <1>1 DEF RollbackContext, WriteSubProfileContext, IInv, Types
<1>3. FileStep(t)
  BY DEF RollbackContext, FileStep
<1>. QED
  BY <1>1, <1>2, <1>3, Leave DEF RollbackContext, IInv, Types

-----------------------------------------------------------------------------
(* The removal of sub-profiles.                                            *)

LEMMA DeleteBeginStep == ASSUME IInv, NEW t \in Thread, NEW s \in Id, DeleteBegin(t, s) PROVE Good
<1>1. PICK d : d = [Idle EXCEPT !.pc = "cred", !.s = s]
  OBVIOUS
<1>2. d \in Call /\ d.pc = "cred" /\ d.s = s /\ call' = [call EXCEPT ![t] = d]
  <2>1. s \in 0..MaxId
    BY SubProfileConstants DEF Id
  <2>. QED
    BY <1>1, <2>1, IdleOK DEF Call, Pc, DeleteBegin
<1>3. StepOf(t, d)
  BY <1>2 DEF StepOf, Shape, IInv, Types, MgrHeld, FileStep, DeleteBegin
<1>4. Valid(s)' /\ call'[t] = d
  BY <1>2, CallOK DEF DeleteBegin, Valid
<1>5. Sees(t)'
  BY <1>2, <1>4 DEF Sees
<1>. QED
  BY <1>3, <1>5, Compose DEF Good

LEMMA DeleteMarkStep == ASSUME IInv, NEW t \in Thread, DeleteMark(t) PROVE Good
<1>1. /\ call[t] \in Call /\ Shape(call[t]) /\ Holds(t) /\ Sees(t)
      /\ call \in [Thread -> Call]
  BY CallOK
<1>2. call[t].pc = "cred" /\ op = t /\ Valid(call[t].s)
  BY <1>1 DEF DeleteMark, At, Holds, OpHeld, Sees
<1>3. CASE /\ files' = [files EXCEPT ![call[t].s].rem = TRUE]
           /\ Goto(t, "rmdir") /\ UNCHANGED op
  <2>1. PICK s \in Id : s = call[t].s
    BY <1>2 DEF Valid
  <2>2. files[s] \in Info /\ FileOK(files[s])
    BY <1>2, <2>1 DEF Valid, IInv, Types
  <2>3. PICK x : x = [files[s] EXCEPT !.rem = TRUE]
    OBVIOUS
  <2>4. x \in Info /\ x.rem /\ x.st = files[s].st /\ x.acct = files[s].acct
    BY <2>2, <2>3 DEF Info
  <2>5. files' = [files EXCEPT ![s] = x]
    BY <1>3, <2>1, <2>3
  <2>6. FileOK(x)
    BY <1>2, <2>1, <2>2, <2>4 DEF FileOK, Valid
  <2>7. FileStep(t)
    BY <1>2, <2>4, <2>5, <2>6 DEF FileStep
  <2>8. PICK d : d = [call[t] EXCEPT !.pc = "rmdir"]
    OBVIOUS
  <2>9. d \in Call /\ d.pc = "rmdir" /\ d.s = s /\ call' = [call EXCEPT ![t] = d]
    BY <1>1, <1>3, <2>1, <2>8 DEF Call, Pc, Goto
  <2>10. StepOf(t, d)
    BY <1>2, <1>3, <2>7, <2>9 DEF StepOf, Shape, IInv, Types, MgrHeld, DeleteMark
  <2>. QED
    BY <2>9, <2>10, Done
<1>4. CASE Return(t) /\ op' = None /\ UNCHANGED files
  <2>1. FileStep(t)
    BY <1>4 DEF FileStep
  <2>. QED
    BY <1>2, <1>4, <2>1, Leave DEF DeleteMark, IInv, Types
<1>. QED
  BY <1>3, <1>4 DEF DeleteMark

LEMMA DeleteDirStep == ASSUME IInv, NEW t \in Thread, DeleteDir(t) PROVE Good
<1>1. /\ call[t] \in Call /\ Shape(call[t]) /\ Holds(t)
      /\ call \in [Thread -> Call]
  BY CallOK
<1>2. call[t].pc = "rmdir" /\ op = t /\ call[t].s \in Id
  BY <1>1 DEF DeleteDir, At, Holds, OpHeld, Shape, Pc
<1>3. FileStep(t)
  BY <1>2 DEF FileStep, FileOK, DeleteDir
<1>4. CASE Goto(t, "forget") /\ UNCHANGED op
  <2>1. PICK d : d = [call[t] EXCEPT !.pc = "forget"]
    OBVIOUS
  <2>2. d \in Call /\ d.pc = "forget" /\ d.s = call[t].s /\ call' = [call EXCEPT ![t] = d]
    BY <1>1, <1>4, <2>1 DEF Call, Pc, Goto
  <2>3. StepOf(t, d)
    BY <1>2, <1>3, <1>4, <2>2 DEF StepOf, Shape, IInv, Types, MgrHeld, DeleteDir
  <2>. QED
    BY <2>2, <2>3, Done
<1>5. CASE Return(t) /\ op' = None
  BY <1>2, <1>3, <1>5, Leave DEF DeleteDir, IInv, Types
<1>. QED
  BY <1>4, <1>5 DEF DeleteDir

LEMMA DeleteForgetStep == ASSUME IInv, NEW t \in Thread, DeleteForget(t) PROVE Good
<1>1. call[t].pc = "forget" /\ op = t /\ call[t].s \in Id
  BY CallOK DEF DeleteForget, At, Holds, OpHeld, Shape, Pc
<1>2. PICK r \in ReadSubProfileContext :
         IF r = None \/ call[t].s \notin r.list THEN UNCHANGED ctx
         ELSE WriteSubProfileContext(Without(r, {call[t].s}))
  BY DEF DeleteForget
<1>3. r # None => /\ Without(r, {call[t].s}) \in Context
                  /\ Consistent(Without(r, {call[t].s}))
  BY <1>1, ReadOK, WithoutOK
<1>4. ctx' \in Context \cup {None} /\ (ctx' # None => Consistent(ctx'))
  BY <1>2, <1>3 DEF WriteSubProfileContext, IInv, Types
<1>5. FileStep(t)
  BY DEF DeleteForget, FileStep
<1>. QED
  BY <1>1, <1>4, <1>5, Leave DEF DeleteForget, IInv, Types

-----------------------------------------------------------------------------
(* Switching.                                                              *)

LEMMA RuntimeOK == ASSUME IInv PROVE RuntimeForeground \in Id \cup {-1}
BY DEF RuntimeForeground, IInv, Types

\* A call that writes no file and takes no mutex, with the call d after it.
LEMMA Moves ==
    ASSUME IInv, NEW t \in Thread, NEW d \in Call, Shape(d), call' = [call EXCEPT ![t] = d],
           d.pc \in {"idle", "enter", "resolve", "persist", "event"},
           UNCHANGED <<ctx, files, op, mgr, cleanup>>, fg' \in Id \cup {-1},
           rt' \in Id \cup {-1, None}, switching' \in BOOLEAN
    PROVE  Good
<1>1. StepOf(t, d)
  BY DEF StepOf, FileStep, IInv, Types, OpHeld, MgrHeld
<1>. QED
  BY <1>1, Done

LEMMA SwitchBeginStep ==
    ASSUME IInv, NEW t \in Thread, NEW s \in Id, NEW activate \in BOOLEAN,
           SwitchBegin(t, s, activate)
    PROVE  Good
<1>1. s \in 0..MaxId /\ RuntimeForeground \in -1..MaxId /\ RuntimeForeground \in Id \cup {-1}
  BY RuntimeOK, SubProfileConstants DEF Id
<1>2. /\ UNCHANGED <<ctx, files, op, mgr, cleanup>> /\ fg' \in Id \cup {-1}
      /\ rt' \in Id \cup {-1, None} /\ switching' \in BOOLEAN
  BY <1>1 DEF SwitchBegin, IInv, Types
<1>3. CASE call' = [call EXCEPT ![t] = [Idle EXCEPT !.pc = "enter", !.s = s]]
  <2>1. PICK d : d = [Idle EXCEPT !.pc = "enter", !.s = s]
    OBVIOUS
  <2>2. d \in Call /\ d.pc = "enter" /\ d.s = s /\ d.from = Idle.from
    BY <1>1, <2>1, IdleOK DEF Call, Pc
  <2>3. Shape(d)
    BY <2>2 DEF Shape, Idle
  <2>. QED
    BY <1>2, <1>3, <2>1, <2>2, <2>3, Moves
<1>4. CASE UNCHANGED call
  <2>1. PICK d : d = call[t]
    OBVIOUS
  <2>2. d \in Call /\ Shape(d) /\ d.pc = "idle" /\ call' = [call EXCEPT ![t] = d]
    BY <1>4, <2>1, CallOK DEF SwitchBegin, At
  <2>. QED
    BY <1>2, <2>2, Moves
<1>5. CASE call' = [call EXCEPT ![t] = [Idle EXCEPT !.pc = "enter", !.s = s,
                                          !.from = RuntimeForeground]]
  <2>1. PICK d : d = [Idle EXCEPT !.pc = "enter", !.s = s, !.from = RuntimeForeground]
    OBVIOUS
  <2>2. d \in Call /\ d.pc = "enter" /\ d.s = s /\ d.from = RuntimeForeground
    BY <1>1, <2>1, IdleOK DEF Call, Pc
  <2>3. Shape(d)
    BY <1>1, <2>2 DEF Shape
  <2>. QED
    BY <1>2, <1>5, <2>1, <2>2, <2>3, Moves
<1>. QED
  BY <1>3, <1>4, <1>5 DEF SwitchBegin

LEMMA SwitchEnterStep == ASSUME IInv, NEW t \in Thread, SwitchEnter(t) PROVE Good
<1>1. /\ UNCHANGED <<ctx, files, op, mgr, cleanup>> /\ fg' \in Id \cup {-1}
      /\ rt' \in Id \cup {-1, None} /\ switching' \in BOOLEAN
  BY DEF SwitchEnter, IInv, Types
<1>2. CASE Return(t)
  BY <1>1, <1>2, IdleOK, Moves DEF Return
<1>3. CASE Goto(t, "resolve")
  <2>1. PICK d : d = [call[t] EXCEPT !.pc = "resolve"]
    OBVIOUS
  <2>2. /\ d \in Call /\ d.pc = "resolve" /\ d.s = call[t].s /\ d.from = call[t].from
        /\ call' = [call EXCEPT ![t] = d]
    BY <1>3, <2>1, CallOK DEF Call, Pc, Goto
  <2>3. Shape(d)
    BY <2>2, CallOK DEF Shape, SwitchEnter, At, Pc
  <2>. QED
    BY <1>1, <2>2, <2>3, Moves
<1>. QED
  BY <1>2, <1>3 DEF SwitchEnter

LEMMA SwitchSyncStep == ASSUME IInv, NEW t \in Thread, SwitchSync(t) PROVE Good
<1>1. call[t].pc = "resolve" /\ call[t].s \in Id /\ call[t].from \in Id \cup {-1}
  BY CallOK DEF SwitchSync, At, Shape, Pc
<1>2. /\ UNCHANGED <<ctx, files, op, mgr, cleanup>> /\ fg' \in Id \cup {-1}
      /\ rt' \in Id \cup {-1, None} /\ switching' \in BOOLEAN
  BY <1>1 DEF SwitchSync, RollbackSubProfileSwitch, IInv, Types
<1>3. CASE Goto(t, "persist")
  <2>1. PICK d : d = [call[t] EXCEPT !.pc = "persist"]
    OBVIOUS
  <2>2. /\ d \in Call /\ d.pc = "persist" /\ d.s = call[t].s /\ d.from = call[t].from
        /\ call' = [call EXCEPT ![t] = d]
    BY <1>3, <2>1, CallOK DEF Call, Pc, Goto
  <2>3. Shape(d)
    BY <1>1, <2>2 DEF Shape
  <2>. QED
    BY <1>2, <2>2, <2>3, Moves
<1>4. CASE Return(t)
  BY <1>2, <1>4, IdleOK, Moves DEF Return
<1>. QED
  BY <1>3, <1>4 DEF SwitchSync

LEMMA SwitchPersistStep == ASSUME IInv, NEW t \in Thread, SwitchPersist(t) PROVE Good
<1>1. call[t].s \in Id
  BY CallOK DEF SwitchPersist, At, Shape, Pc
<1>2. /\ UNCHANGED <<ctx, files, op, mgr, cleanup>> /\ fg' \in Id \cup {-1}
      /\ rt' \in Id \cup {-1, None} /\ switching' \in BOOLEAN
  BY <1>1 DEF SwitchPersist, IInv, Types
<1>. QED
  BY <1>2, IdleOK, Moves DEF SwitchPersist, Return

-----------------------------------------------------------------------------
(* Logins and the removal of a package.                                    *)

LEMMA EventBeginStep ==
    ASSUME IInv, NEW t \in Thread, NEW ev \in Event, NEW a \in Account, NEW u \in App,
           EventBegin(t, ev, a, u)
    PROVE  Good
<1>1. fg \in Id /\ fg \in 0..MaxId
  BY SubProfileConstants DEF EventBegin, Id
<1>2. PICK d : d = [Idle EXCEPT !.pc = "event", !.s = fg, !.ev = ev, !.acct = a, !.app = u]
  OBVIOUS
<1>3. /\ d \in Call /\ d.pc = "event" /\ d.s = fg /\ d.ev = ev /\ d.acct = a /\ d.app = u
      /\ call' = [call EXCEPT ![t] = d]
  BY <1>1, <1>2, IdleOK DEF Call, Pc, EventBegin
<1>4. Shape(d)
  BY <1>1, <1>3 DEF Shape
<1>. QED
  BY <1>3, <1>4, Moves DEF EventBegin, IInv, Types

\* The file that an event leads to is well-formed, and binds its account if the
\* account is free.
LEMMA ChangedOK ==
    ASSUME IInv, NEW c \in Call, c.pc = "event", Shape(c), files[c.s] # None,
           NEW S \in ScanOsAccountSubProfileIds, MayChange(c.s, c.acct, c.ev, S)
    PROVE  /\ Changed(c) \in Info /\ FileOK(Changed(c)) /\ Changed(c).acct \in Account
           /\ ~Changed(c).rem => Free(c.s, Changed(c).acct)
<1>1. c.s \in Id /\ c.ev \in Event /\ c.acct \in Account /\ c.app \in App
  BY DEF Shape, Pc
<1>2. PICK f \in Info : f = files[c.s]
  BY <1>1 DEF IInv, Types
<1>3. f # None /\ ((f.st = "UNBOUND") <=> (f.acct = None)) /\ None \notin Account
  BY <1>1, <1>2, SubProfileConstants DEF IInv, Types, FileOK
<1>4. StateChange(c.ev) \in State \ {"UNBOUND"}
  BY <1>1 DEF StateChange, Event, State
<1>5. PICK x : x = Changed(c)
  OBVIOUS
<1>6. x \in Info /\ x.acct = c.acct /\ x.st # "UNBOUND" /\ x.rem = f.rem
  <2>1. CASE c.ev = "login"
    <3>1. x = [f EXCEPT !.st = "LOGIN", !.acct = c.acct, !.app = c.app]
      BY <1>2, <1>5, <2>1 DEF Changed
    <3>. QED
      BY <1>1, <3>1 DEF Info, State
  <2>2. CASE c.ev # "login"
    <3>1. x = [f EXCEPT !.st = StateChange(c.ev)]
      BY <1>2, <1>5, <2>2 DEF Changed
    <3>2. f.acct = c.acct
      BY <1>2, <2>2 DEF MayChange, CheckSameDistributedAccount
    <3>. QED
      BY <1>4, <3>1, <3>2 DEF Info
  <2>. QED
    BY <2>1, <2>2
<1>7. FileOK(x)
  BY <1>1, <1>3, <1>6 DEF FileOK
<1>8. ASSUME ~f.rem PROVE Free(c.s, c.acct)
  <2>1. BoundAccount(c.s) = f.acct
    BY <1>1, <1>2, <1>3, <1>8 DEF BoundAccount, Valid
  <2>2. CASE f.acct = c.acct
    BY <1>1, <1>3, <2>1, <2>2 DEF Free, IInv, Once
  <2>3. CASE f.acct # c.acct
    <3>1. f.acct = None /\ \A r \in S \ {c.s} : files[r].acct # c.acct
      BY <1>2, <1>3, <2>3 DEF MayChange, VerifySpaceAccountBinding, CheckSameDistributedAccount
    <3>2. Scanned => \A r \in Id : Valid(r) => r \in S
      BY DEF Scanned, ScanOsAccountSubProfileIds
    <3>. QED
      BY <1>1, <1>3, <2>1, <3>1, <3>2 DEF Free, BoundAccount
  <2>. QED
    BY <2>2, <2>3
<1>. QED
  BY <1>1, <1>5, <1>6, <1>7, <1>8

LEMMA EventLoadStep == ASSUME IInv, NEW t \in Thread, EventLoad(t) PROVE Good
<1>1. /\ call[t] \in Call /\ Shape(call[t]) /\ Holds(t)
      /\ call \in [Thread -> Call] /\ call[t].pc = "event" /\ call[t].s \in Id
  BY CallOK DEF EventLoad, At, Shape, Pc
<1>2. /\ mgr = None /\ UNCHANGED <<ctx, files, fg, rt, switching, op, cleanup>>
      /\ FileStep(t)
  BY DEF EventLoad, FileStep
<1>3. ASSUME files[call[t].s] # None,
             NEW S \in ScanOsAccountSubProfileIds,
             MayChange(call[t].s, call[t].acct, call[t].ev, S),
             call' = [call EXCEPT ![t].pc = "eventsave", ![t].info = Changed(call[t])],
             mgr' = t
      PROVE  Good
  <2>1. PICK x : x = Changed(call[t])
    OBVIOUS
  <2>2. x \in Info /\ FileOK(x) /\ x.acct \in Account /\ (~x.rem => Free(call[t].s, x.acct))
    BY <1>1, <1>3, <2>1, ChangedOK
  <2>3. PICK d : d = [call[t] EXCEPT !.pc = "eventsave", !.info = x]
    OBVIOUS
  <2>4. /\ d \in Call /\ d.pc = "eventsave" /\ d.s = call[t].s /\ d.info = x
        /\ call' = [call EXCEPT ![t] = d]
    BY <1>1, <1>3, <2>1, <2>2, <2>3 DEF Call, Pc
  <2>5. Shape(d)
    BY <1>1, <2>2, <2>4 DEF Shape
  <2>6. StepOf(t, d)
    BY <1>2, <1>3, <2>4, <2>5 DEF StepOf, IInv, Types, OpHeld
  <2>7. \A r \in Id : BoundAccount(r)' = BoundAccount(r)
    BY <1>2 DEF BoundAccount, Valid
  <2>8. Sees(t)'
    BY <1>1, <2>2, <2>4, <2>7 DEF Sees, Free
  <2>. QED
    BY <2>6, <2>8, Compose DEF Good
<1>4. CASE Return(t) /\ UNCHANGED mgr
  BY <1>2, <1>4, Leave DEF IInv, Types
<1>. QED
  BY <1>3, <1>4 DEF EventLoad

LEMMA EventSaveStep == ASSUME IInv, NEW t \in Thread, EventSave(t) PROVE Good
<1>1. /\ call[t].pc = "eventsave" /\ mgr = t /\ call[t].s \in Id
      /\ call[t].info \in Info /\ FileOK(call[t].info)
      /\ ~call[t].info.rem => Free(call[t].s, call[t].info.acct)
  BY CallOK DEF EventSave, At, Holds, MgrHeld, Shape, Sees, Pc
<1>2. FileStep(t)
  BY <1>1 DEF FileStep, EventSave
<1>. QED
  BY <1>1, <1>2, Leave DEF EventSave, IInv, Types

LEMMA PackageBeginStep ==
    ASSUME IInv, NEW t \in Thread, NEW u \in App, PackageBegin(t, u)
    PROVE  Good
<1>0. PICK S \in ScanOsAccountSubProfileIds :
         call' = [call EXCEPT ![t] = [Idle EXCEPT !.pc = "package", !.app = u, !.todo = S]]
  BY DEF PackageBegin
<1>1. PICK d : d = [Idle EXCEPT !.pc = "package", !.app = u, !.todo = S]
  OBVIOUS
<1>2. d \in Call /\ d.pc = "package" /\ call' = [call EXCEPT ![t] = d]
  <2>1. S \subseteq Id
    BY DEF ScanOsAccountSubProfileIds
  <2>. QED
    BY <1>0, <1>1, <2>1, IdleOK DEF Call, Pc
<1>3. StepOf(t, d)
  BY <1>2 DEF StepOf, Shape, IInv, Types, OpHeld, FileStep, PackageBegin
<1>. QED
  BY <1>2, <1>3, Done

LEMMA PackageLoadStep == ASSUME IInv, NEW t \in Thread, PackageLoad(t) PROVE Good
<1>1. /\ call[t] \in Call /\ call \in [Thread -> Call] /\ call[t].pc = "package" /\ mgr = t
  BY CallOK DEF PackageLoad, At, Holds, MgrHeld
<1>2. UNCHANGED <<ctx, files, fg, rt, switching, op, mgr, cleanup>> /\ FileStep(t)
  BY DEF PackageLoad, FileStep
<1>3. PICK s \in call[t].todo :
         call' = [call EXCEPT ![t].todo = @ \ {s},
                    ![t].pc = IF Matches(s, call[t].app) THEN "clear" ELSE @,
                    ![t].s = IF Matches(s, call[t].app) THEN s ELSE 0,
                    ![t].info = IF Matches(s, call[t].app)
                                  THEN [files[s] EXCEPT !.st = "UNBOUND",
                                          !.acct = None, !.app = None]
                                  ELSE None]
  BY DEF PackageLoad
<1>4. s \in Id /\ s \in 0..MaxId /\ 0 \in 0..MaxId
  BY <1>1, SubProfileConstants DEF Call, Id
<1>5. CASE Matches(s, call[t].app)
  <2>1. PICK x : x = [files[s] EXCEPT !.st = "UNBOUND", !.acct = None, !.app = None]
    OBVIOUS
  <2>2. x \in Info /\ FileOK(x) /\ x.acct = None
    <3>1. files[s] \in Info
      BY <1>4, <1>5 DEF Matches, IInv, Types
    <3>. QED
      BY <2>1, <3>1 DEF Info, State, FileOK
  <2>3. PICK d : d = [call[t] EXCEPT !.todo = @ \ {s}, !.pc = "clear", !.s = s, !.info = x]
    OBVIOUS
  <2>4. call' = [call EXCEPT ![t] = d]
    BY <1>1, <1>3, <1>5, <2>1, <2>3
  <2>5. d \in Call /\ d.pc = "clear" /\ d.s = s /\ d.info = x
    BY <1>1, <1>4, <2>2, <2>3 DEF Call, Pc
  <2>6. Shape(d)
    BY <1>4, <2>2, <2>5 DEF Shape
  <2>7. StepOf(t, d)
    BY <1>1, <1>2, <2>4, <2>5, <2>6 DEF StepOf, IInv, Types, OpHeld
  <2>. QED
    BY <2>5, <2>7, Done
<1>6. CASE ~Matches(s, call[t].app)
  <2>1. PICK d : d = [call[t] EXCEPT !.todo = @ \ {s}, !.s = 0, !.info = None]
    OBVIOUS
  <2>2. call' = [call EXCEPT ![t] = d]
    BY <1>1, <1>3, <1>6, <2>1 DEF Call
  <2>3. d \in Call /\ d.pc = "package"
    BY <1>1, <1>4, <2>1 DEF Call, Pc
  <2>4. StepOf(t, d)
    BY <1>1, <1>2, <2>2, <2>3 DEF StepOf, Shape, IInv, Types, OpHeld
  <2>. QED
    BY <2>3, <2>4, Done
<1>. QED
  BY <1>5, <1>6

LEMMA PackageClearStep == ASSUME IInv, NEW t \in Thread, PackageClear(t) PROVE Good
<1>1. /\ call[t] \in Call /\ call \in [Thread -> Call] /\ call[t].pc = "clear" /\ mgr = t
      /\ call[t].s \in Id /\ call[t].info \in Info /\ FileOK(call[t].info)
      /\ call[t].info.acct = None
  BY CallOK DEF PackageClear, At, Holds, MgrHeld, Shape, Pc
<1>2. FileStep(t)
  BY <1>1 DEF FileStep, PackageClear
<1>3. PICK d : d = [call[t] EXCEPT !.pc = "package", !.s = 0, !.info = None]
  OBVIOUS
<1>4. d \in Call /\ d.pc = "package" /\ call' = [call EXCEPT ![t] = d]
  <2>1. 0 \in 0..MaxId
    BY SubProfileConstants
  <2>2. call' = [call EXCEPT ![t] = d]
    BY <1>1, <1>3 DEF PackageClear
  <2>3. call[t] \in Call
    BY <1>1
  <2>4. d \in Call /\ d.pc = "package"
    BY <1>3, <2>1, <2>3 DEF Call, Pc
  <2>. QED
    BY <2>2, <2>4
<1>5. StepOf(t, d)
  BY <1>1, <1>2, <1>4 DEF StepOf, Shape, IInv, Types, OpHeld, PackageClear
<1>. QED
  BY <1>4, <1>5, Done

LEMMA PackageEndStep == ASSUME IInv, NEW t \in Thread, PackageEnd(t) PROVE Good
<1>1. mgr = t /\ FileStep(t)
  BY CallOK DEF PackageEnd, At, Holds, MgrHeld, FileStep
<1>. QED
  BY <1>1, Leave DEF PackageEnd, IInv, Types

-----------------------------------------------------------------------------
(* The service itself.                                                     *)

LEMMA CrashStep == ASSUME IInv, Crash PROVE Good
<1>1. \A s \in Id : BoundAccount(s)' = BoundAccount(s)
  BY DEF Crash, BoundAccount, Valid
<1>2. Once' /\ Bound' = Bound
  BY <1>1 DEF Once, Bound, IInv
<1>3. \A t \in Thread : call'[t] = Idle
  BY DEF Crash
<1>4. Types'
  BY IdleOK DEF Crash, IInv, Types, FileOK
<1>5. \A t \in Thread : Shape(call[t])' /\ Holds(t)' /\ Sees(t)'
  BY <1>3, IdleOK DEF Shape, Holds, Sees, OpHeld, MgrHeld, Pc
<1>6. (ctx # None => Consistent(ctx))'
  BY DEF Crash, IInv, Consistent
<1>. QED
  BY <1>2, <1>4, <1>5, <1>6 DEF Good, IInv

\* What CleanupOrphanedSubProfiles deletes is bound to nothing.
LEMMA CleanupStep == ASSUME IInv, CleanupOrphanedSubProfiles PROVE Good
<1>1. PICK S \in SUBSET PendingRemoval :
         files' = [s \in Id |-> IF s \in S THEN None ELSE files[s]]
  BY DEF CleanupOrphanedSubProfiles
<1>2. op = None /\ UNCHANGED <<ctx, fg, rt, switching, op, mgr, call>> /\ cleanup' = FALSE
  BY DEF CleanupOrphanedSubProfiles
<1>3. \A s \in Id : BoundAccount(s)' = BoundAccount(s)
  BY <1>1 DEF BoundAccount, Valid, PendingRemoval
<1>4. Once' /\ Bound' = Bound
  BY <1>3 DEF Once, Bound, IInv
<1>5. Types'
  <2>1. files' \in [Id -> Info \cup {None}]
    BY <1>1 DEF IInv, Types
  <2>2. \A s \in Id : FileOK(files[s])'
    BY <1>1 DEF IInv, Types, FileOK
  <2>. QED
    BY <1>2, <2>1, <2>2 DEF IInv, Types
<1>6. ASSUME NEW t \in Thread PROVE Shape(call[t])' /\ Holds(t)' /\ Sees(t)'
  <2>1. Shape(call[t]) /\ Holds(t) /\ Sees(t) /\ call'[t] = call[t]
    BY <1>2 DEF IInv
  <2>2. call[t].pc \notin OpHeld
    BY <1>2, <2>1, SubProfileConstants DEF Holds
  <2>3. Shape(call[t])' /\ Holds(t)'
    BY <1>2, <2>1 DEF Shape, Holds
  <2>4. call[t].pc = "eventsave" => call[t].s \in Id
    BY <2>1 DEF Shape, Pc
  <2>5. Sees(t)'
    BY <1>3, <2>1, <2>2, <2>4 DEF Sees, Free, OpHeld
  <2>. QED
    BY <2>3, <2>5
<1>7. (ctx # None => Consistent(ctx))'
  BY <1>2 DEF IInv, Consistent
<1>. QED
  BY <1>4, <1>5, <1>6, <1>7 DEF Good, IInv

LEMMA InitOK == Init => IInv /\ Binding!Init
<1>. SUFFICES ASSUME Init PROVE IInv /\ Binding!Init
  OBVIOUS
<1>1. \A t \in Thread : call[t] = Idle
  BY DEF Init
<1>2. \A t \in Thread : Shape(call[t]) /\ Holds(t) /\ Sees(t)
  BY <1>1, IdleOK DEF Holds, Sees, OpHeld, MgrHeld
<1>3. Blank \in Info /\ FileOK(Blank) /\ Blank.acct = None
  BY DEF Blank, Info, FileOK, State
<1>4. \A s \in Id : BoundAccount(s) = None
  BY <1>3 DEF Init, BoundAccount, Valid
<1>5. Once /\ Binding!Init
  BY <1>4 DEF Once, Binding!Init
<1>6. ctx \in Context \cup {None} /\ (ctx # None => Consistent(ctx))
  <2>1. CASE ctx = [next |-> 2, list |-> {1}, nextIndex |-> 2,
                    index |-> [i \in Index |-> IF i = 1 THEN 1 ELSE 0]]
    <3>1. ctx \in Context
      BY <2>1, SubProfileConstants DEF Context, Id, Index
    <3>2. Consistent(ctx)
      BY <2>1, SubProfileConstants DEF Consistent, Index
    <3>. QED
      BY <3>1, <3>2
  <2>. QED
    BY <2>1 DEF Init
<1>7. files \in [Id -> Info \cup {None}] /\ \A s \in Id : FileOK(files[s])
  BY <1>3 DEF Init, FileOK
<1>8. fg \in Id \cup {-1}
  BY SubProfileConstants DEF Init, Id
<1>9. Types
  BY <1>6, <1>7, <1>8, IdleOK DEF Types, Init
<1>. QED
  BY <1>2, <1>5, <1>6, <1>9 DEF IInv

\* Every step keeps the invariant, and is a step of DistributedBinding or none.
LEMMA NextOK == ASSUME IInv, [Next]_vars PROVE Good
<1>1. ASSUME NEW t \in Thread, Begin(t) PROVE Good
  BY <1>1, CreateBeginStep, DeleteBeginStep, SwitchBeginStep, EventBeginStep, PackageBeginStep
     DEF Begin, Event
<1>2. ASSUME NEW t \in Thread, Step(t) PROVE Good
  BY <1>2, ReclaimDirStep, PurgeStep, CreateRetryStep, CreateSaveStep, RollbackDirStep,
     RollbackContextStep, DeleteMarkStep, DeleteDirStep, DeleteForgetStep, SwitchEnterStep,
     SwitchSyncStep, SwitchPersistStep, EventLoadStep, EventSaveStep, PackageLoadStep,
     PackageClearStep, PackageEndStep
     DEF Step
<1>3. CASE UNCHANGED vars
  <2>1. \A s \in Id : BoundAccount(s)' = BoundAccount(s)
    BY <1>3 DEF vars, BoundAccount, Valid
  <2>2. Once' /\ Bound' = Bound
    BY <2>1 DEF Once, Bound, IInv
  <2>3. PendingRemoval' = PendingRemoval /\ \A s \in Id : Valid(s)' = Valid(s)
    BY <1>3 DEF vars, PendingRemoval, Valid
  <2>4. Types' /\ (ctx # None => Consistent(ctx))'
    BY <1>3 DEF vars, IInv, Types, FileOK, Consistent
  <2>5. ASSUME NEW t \in Thread PROVE Shape(call[t])' /\ Holds(t)' /\ Sees(t)'
    <3>1. Shape(call[t]) /\ Holds(t) /\ Sees(t) /\ call'[t] = call[t] /\ op' = op /\ mgr' = mgr
      BY <1>3 DEF vars, IInv
    <3>2. call[t].pc \in {"cred", "eventsave"} => call[t].s \in Id
      BY <3>1 DEF Shape, Pc
    <3>3. Shape(call[t])' /\ Holds(t)'
      BY <3>1 DEF Shape, Holds
    <3>4. Sees(t)'
      BY <2>1, <2>3, <3>1, <3>2 DEF Sees, Free
    <3>. QED
      BY <3>3, <3>4
  <2>. QED
    BY <2>2, <2>4, <2>5 DEF Good, IInv
<1>. QED
  BY <1>1, <1>2, <1>3, CrashStep, CleanupStep DEF Next

LEMMA Inductive == Spec => []IInv
BY InitOK, NextOK, PTL DEF Spec, Good

-----------------------------------------------------------------------------
\* The types are kept, and a sub-profile has an account exactly while it is
\* bound: no event and no removal of a package leaves a file in between.
THEOREM TypeCorrect == Spec => []TypeOK
<1>1. IInv => TypeOK
  <2>. SUFFICES ASSUME IInv PROVE TypeOK
    OBVIOUS
  <2>1. \A s \in Id : files[s] # None => (files[s].st = "UNBOUND") = (files[s].acct = None)
    BY DEF IInv, Types, FileOK
  <2>. QED
    BY <2>1 DEF IInv, Types, TypeOK
<1>. QED
  BY <1>1, Inductive, PTL

\* subprofile_info.json stays consistent, though it may not be read or written,
\* the service may crash at any step, and RollbackContext writes back a context
\* that was read long before.
THEOREM ContextStaysConsistent == Spec => []ContextConsistent
<1>1. IInv => ContextConsistent
  BY DEF IInv, ContextConsistent, Consistent
<1>. QED
  BY <1>1, Inductive, PTL

\* Logins, package removals, creations, removals and crashes implement the
\* binding that DistributedBinding promises, whatever else fails, if the scan
\* leaves out no valid sub-profile.
THEOREM BindingImplemented == ASSUME Scanned PROVE Spec => BindingRefined
<1>1. IInv /\ [Next]_vars => [Binding!Next]_Bound
  BY NextOK DEF Good
<1>. QED
  BY <1>1, InitOK, Inductive, PTL DEF Spec, BindingRefined, Binding!Spec, Bound

\* The abstract specification keeps its promise for any sub-profiles and
\* accounts; whatever implements it, such as the logins of
\* OhosAccountManager, inherits the promise.
THEOREM BoundOnce == Binding!Spec => []Binding!OneProfile
<1>1. Binding!Init => Binding!TypeOK /\ Binding!OneProfile
  BY DEF Binding!Init, Binding!TypeOK, Binding!OneProfile
<1>2. ASSUME Binding!TypeOK, Binding!OneProfile, [Binding!Next]_Bound
      PROVE  Binding!TypeOK' /\ Binding!OneProfile'
  <2>1. ASSUME NEW s \in Id, Binding!Unbind(s)
        PROVE  Binding!TypeOK' /\ Binding!OneProfile'
    BY <1>2, <2>1 DEF Binding!Unbind, Binding!TypeOK, Binding!OneProfile
  <2>2. ASSUME NEW s \in Id, NEW a \in Account, Binding!Bind(s, a)
        PROVE  Binding!TypeOK' /\ Binding!OneProfile'
    BY <1>2, <2>2 DEF Binding!Bind, Binding!TypeOK, Binding!OneProfile
  <2>3. CASE UNCHANGED Bound
    BY <1>2, <2>3 DEF Binding!TypeOK, Binding!OneProfile, Bound
  <2>. QED
    BY <1>2, <2>1, <2>2, <2>3 DEF Binding!Next
<1>. QED
  BY <1>1, <1>2, PTL DEF Binding!Spec, Bound

\* So a distributed account is bound to one sub-profile at most.
THEOREM OneSubProfilePerAccount == ASSUME Scanned PROVE Spec => []Binding!OneProfile
BY BindingImplemented, BoundOnce, PTL DEF BindingRefined
===============================================================================
