---------------------- MODULE OsAccountLifecycle_proof ----------------------
(***************************************************************************)
(* Theorems about OsAccountLifecycle, for any number of threads and ids,   *)
(* any quota and any set of faults.                                        *)
(***************************************************************************)
EXTENDS OsAccountLifecycle, TLAPS, WellFoundedInduction, FiniteSetTheorems

Wait == {"capWait", "assignWait", "teeWait", "stoWait"}
Upd == {"updCheck", "updWrite", "updEnd"}

\* The two program counters of a thread: removal and cleaning run alone or
\* below a creation that waits for them.
Nesting ==
    \A p \in Proc :
        /\ cpc[p] \notin Wait \cup {"idle"} => rpc[p] = "idle"
        /\ cpc[p] \in Wait /\ rpc[p] # "idle" => mode[p] = "clean"
        /\ rpc[p] \in {"flag", "flagWrite"} => mode[p] = "remove"

\* A thread that works on an id has one, and has read what it will write.
Bound ==
    \A p \in Proc :
        /\ cpc[p] \in CreateWork \cup Upd \cup {"check", "mark"} => cid[p] \in Ids
        /\ cpc[p] = "assignWait" => want[p] \in Ids
        /\ rpc[p] \notin {"idle", "next"} => rid[p] \in Ids
        /\ cpc[p] \in {"updCheck", "updWrite"} => snap[p] # None
        /\ rpc[p] \in {"flag", "flagWrite"} => snap[p] # None

TypeInv == TypeOK /\ Nesting /\ Bound

LEMMA NextLocalIdType ==
    ASSUME NEW list \in SUBSET Ids, NEW s \in 1 .. MaxId + 1
    PROVE  /\ GetNextLocalId(list, s) \in 1 .. MaxId + 1
           /\ GetNextLocalId(list, s) <= MaxId => GetNextLocalId(list, s) \in Ids \ list
<1> DEFINE s0 == IF s \in Ids THEN s ELSE 1
           T == {Distance(s0, i) : i \in Ids \ list}
<1>1. CASE Ids \subseteq list
  BY <1>1, LifecycleConstants DEF GetNextLocalId, Ids
<1>2. CASE ~(Ids \subseteq list)
  <2>1. s0 \in Ids
    BY LifecycleConstants DEF Ids
  <2>2. T \in SUBSET Nat /\ T # {}
    BY <1>2, <2>1, LifecycleConstants DEF Ids, Distance
  <2>3. PICK d \in T : \A e \in T : ~(<<e, d>> \in OpToRel(<, Nat))
    <3> HIDE DEF T
    <3> QED BY <2>2, WFMin, NatLessThanWellFounded
  <2>4. \A e \in T : d <= e
    <3> SUFFICES ASSUME NEW e \in T PROVE d <= e
      OBVIOUS
    <3>1. d \in Nat /\ e \in Nat
      BY <2>2
    <3>2. ~(<<e, d>> \in {ss \in Nat \X Nat : ss[1] < ss[2]})
      BY <2>3 DEF OpToRel
    <3> HIDE DEF T
    <3> QED BY <3>1, <3>2
  <2>5. PICK i \in Ids \ list : \A j \in Ids \ list : Distance(s0, i) <= Distance(s0, j)
    BY <2>4
  <2>6. GetNextLocalId(list, s) \in Ids \ list
    BY <1>2, <2>5 DEF GetNextLocalId
  <2> QED BY <2>6, LifecycleConstants DEF Ids
<1> QED BY <1>1, <1>2

LEMMA TypeInit == Init => TypeInv
BY LifecycleConstants DEF Init, TypeInv, TypeOK, Nesting, Bound, Ids, Types, CreatePc,
    RemovePc, CreateWork, Wait, Upd

LEMMA TypeStep == TypeInv /\ [Next]_vars => TypeInv'
<1> SUFFICES ASSUME TypeInv, [Next]_vars PROVE TypeInv'
  OBVIOUS
<1> USE LifecycleConstants, NoneIsNoInfo
     DEF TypeInv, TypeOK, Nesting, Bound, disk, services, locks, create, remove, CreatePc,
         RemovePc, CreateWork, Wait, Upd, GoC, GoR
<1>u. CASE UNCHANGED vars
  BY <1>u DEF vars
<1>c. CASE Crash
  BY <1>c DEF Crash, Ids, Types
<1>1. ASSUME NEW p \in Proc, CheckAndCleanOsAccounts(p) PROVE TypeInv'
  <2>1. CASE UNCHANGED <<rpc, remove>>
    BY <1>1, <2>1 DEF CheckAndCleanOsAccounts
  <2>2. CASE GoC(p, "capWait") /\ StartClean(p, 0)
    BY <1>1, <2>2 DEF CheckAndCleanOsAccounts, StartClean
  <2> QED BY <1>1, <2>1, <2>2 DEF CheckAndCleanOsAccounts
<1>2. ASSUME NEW p \in Proc, CheckAndCleanDone(p) PROVE TypeInv'
  BY <1>2 DEF CheckAndCleanDone
<1>3. ASSUME NEW p \in Proc, GetAllowCreateId(p) PROVE TypeInv'
  BY <1>3, NextLocalIdType DEF GetAllowCreateId
<1>4. ASSUME NEW p \in Proc, AssignSpecifiedLocalId(p) PROVE TypeInv'
  <2>1. CASE UNCHANGED <<rpc, remove>>
    BY <1>4, <2>1 DEF AssignSpecifiedLocalId
  <2>2. CASE GoC(p, "assignWait") /\ StartClean(p, 0)
    BY <1>4, <2>2 DEF AssignSpecifiedLocalId, StartClean
  <2> QED BY <1>4, <2>1, <2>2 DEF AssignSpecifiedLocalId
<1>5. ASSUME NEW p \in Proc, AssignSpecifiedLocalIdDone(p) PROVE TypeInv'
  <2>1. nextLocalId' \in 1 .. MaxId + 1
    BY <1>5 DEF AssignSpecifiedLocalIdDone, Ids
  <2> QED BY <1>5, <2>1 DEF AssignSpecifiedLocalIdDone
<1>6. ASSUME NEW p \in Proc, ValidateOsAccount(p) PROVE TypeInv'
  BY <1>6 DEF ValidateOsAccount
<1>7. ASSUME NEW p \in Proc, MarkCreating(p) PROVE TypeInv'
  BY <1>7 DEF MarkCreating
<1>8. ASSUME NEW p \in Proc, InsertOsAccount(p) PROVE TypeInv'
  BY <1>8 DEF InsertOsAccount
<1>9. ASSUME NEW p \in Proc, InsertOsAccountInfo(p) PROVE TypeInv'
  <2>1. NewInfo(ctyp[p]) \in Info
    BY DEF Info, NewInfo
  <2> QED BY <1>9, <2>1 DEF InsertOsAccountInfo
<1>10. ASSUME NEW p \in Proc, UpdateBaseOAConstraints(p) PROVE TypeInv'
  BY <1>10 DEF UpdateBaseOAConstraints
<1>11. ASSUME NEW p \in Proc, BindDomainAccountUnmark(p) PROVE TypeInv'
  BY <1>11 DEF BindDomainAccountUnmark
<1>47. ASSUME NEW p \in Proc, BindDomainAccountUpdate(p) PROVE TypeInv'
  BY <1>47 DEF BindDomainAccountUpdate
<1>48. ASSUME NEW p \in Proc, BindDomainAccountReturn(p) PROVE TypeInv'
  <2>1. NewInfo(ctyp[p]) \in Info
    BY DEF Info, NewInfo
  <2> QED BY <1>48, <2>1 DEF BindDomainAccountReturn
<1>12. ASSUME NEW p \in Proc, HandleCreateOsAccountToken(p) PROVE TypeInv'
  <2>1. CASE UNCHANGED <<rpc, remove>>
    BY <1>12, <2>1 DEF HandleCreateOsAccountToken
  <2>2. CASE GoC(p, "teeWait") /\ StartClean(p, 0) /\ UNCHANGED tee
    BY <1>12, <2>2 DEF HandleCreateOsAccountToken, StartClean
  <2> QED BY <1>12, <2>1, <2>2 DEF HandleCreateOsAccountToken
<1>13. ASSUME NEW p \in Proc, InsertOsAccountTypeRetry(p) PROVE TypeInv'
  BY <1>13 DEF InsertOsAccountTypeRetry
<1>14. ASSUME NEW p \in Proc, SendToStorageAccountCreate(p) PROVE TypeInv'
  <2>1. CASE UNCHANGED <<rpc, remove>>
    BY <1>14, <2>1 DEF SendToStorageAccountCreate, Refused
  <2>2. CASE GoC(p, "stoWait") /\ StartClean(p, cid[p]) /\ UNCHANGED <<sto, lvl>>
    BY <1>14, <2>2 DEF SendToStorageAccountCreate, Refused, StartClean
  <2> QED BY <1>14, <2>1, <2>2 DEF SendToStorageAccountCreate, Refused
<1>49. ASSUME NEW p \in Proc, PrepareAddUserRetry(p) PROVE TypeInv'
  BY <1>49 DEF PrepareAddUserRetry, Refused
<1>15. ASSUME NEW p \in Proc, SendToBMSAccountCreate(p) PROVE TypeInv'
  BY <1>15 DEF SendToBMSAccountCreate, Refused
<1>16. ASSUME NEW p \in Proc, FinalizeAccountCreate(p) PROVE TypeInv'
  BY <1>16 DEF FinalizeAccountCreate
<1>17. ASSUME NEW p \in Proc, FinalizeAccountCreateWrite(p) PROVE TypeInv'
  <2>1. Completed(NewInfo(ctyp[p])) \in Info
    BY DEF Info, NewInfo, Completed
  <2> QED BY <1>17, <2>1 DEF FinalizeAccountCreateWrite
<1>18. ASSUME NEW p \in Proc, RollbackTee(p) PROVE TypeInv'
  BY <1>18 DEF RollbackTee, RollbackNext, RollbackFails
<1>19. ASSUME NEW p \in Proc, RollbackBms(p) PROVE TypeInv'
  BY <1>19 DEF RollbackBms, RollbackNext, RollbackFails
<1>20. ASSUME NEW p \in Proc, RollbackStorage(p) PROVE TypeInv'
  BY <1>20 DEF RollbackStorage, RollbackNext, RollbackFails
<1>21. ASSUME NEW p \in Proc, HandleUnbindDomainAccountFailed(p) PROVE TypeInv'
  BY <1>21 DEF HandleUnbindDomainAccountFailed
<1>22. ASSUME NEW p \in Proc, RollbackDelInfo(p) PROVE TypeInv'
  BY <1>22 DEF RollbackDelInfo
<1>23. ASSUME NEW p \in Proc, RollbackDelList(p) PROVE TypeInv'
  BY <1>23 DEF RollbackDelList
<1>24. ASSUME NEW p \in Proc, CreateReturn(p) PROVE TypeInv'
  BY <1>24 DEF CreateReturn, Types
<1>25. ASSUME NEW p \in Proc, CleanNext(p) PROVE TypeInv'
  BY <1>25 DEF CleanNext
<1>26. ASSUME NEW p \in Proc, ReadForRemove(p) PROVE TypeInv'
  BY <1>26 DEF ReadForRemove, Live
<1>27. ASSUME NEW p \in Proc, SetRemoveFlag(p) PROVE TypeInv'
  BY <1>27 DEF SetRemoveFlag
<1>28. ASSUME NEW p \in Proc, SetRemoveFlagWrite(p) PROVE TypeInv'
  <2>1. snap[p] \in Info
    BY <1>28 DEF SetRemoveFlagWrite
  <2>2. PICK r \in Info : info' = info \/ info' = [info EXCEPT ![rid[p]] = r]
    BY <1>28, <2>1 DEF Info, Flagged, SetRemoveFlagWrite
  <2>3. /\ \E c \in {"opTee", "opEnd"} : rpc' = [rpc EXCEPT ![p] = c]
        /\ rpc[p] = "flagWrite"
        /\ UNCHANGED <<acctList, nextLocalId, cons, services, operating,
                       locks, cpc, create, remove, crashes>>
    BY <1>28 DEF SetRemoveFlagWrite
  <2>4. TypeOK'
    BY <2>2, <2>3
  <2>5. Nesting' /\ Bound'
    BY <2>3
  <2> QED BY <2>4, <2>5
<1>29. ASSUME NEW p \in Proc, OperateTee(p) PROVE TypeInv'
  BY <1>29 DEF OperateTee
<1>30. ASSUME NEW p \in Proc, PrepareRemoveOsAccount(p) PROVE TypeInv'
  BY <1>30 DEF PrepareRemoveOsAccount
<1>31. ASSUME NEW p \in Proc, OperateBms(p) PROVE TypeInv'
  BY <1>31 DEF OperateBms
<1>32. ASSUME NEW p \in Proc, OperateStorage(p) PROVE TypeInv'
  BY <1>32 DEF OperateStorage
<1>33. ASSUME NEW p \in Proc, OperateDelInfo(p) PROVE TypeInv'
  BY <1>33 DEF OperateDelInfo
<1>34. ASSUME NEW p \in Proc, OperateDelList(p) PROVE TypeInv'
  BY <1>34 DEF OperateDelList
<1>35. ASSUME NEW p \in Proc, OperateConstraints(p) PROVE TypeInv'
  <2>1. \/ cleaned' = [cleaned EXCEPT ![p] = TRUE]
        \/ cleaned' = cleaned
    BY <1>35 DEF OperateConstraints
  <2>2. cleaned' \in [Proc -> BOOLEAN]
    BY <2>1
  <2>3. cons' \subseteq Ids
    BY <1>35 DEF OperateConstraints
  <2>4. /\ rpc' = [rpc EXCEPT ![p] = "opEnd"]
        /\ rpc[p] = "opCons"
        /\ UNCHANGED <<acctList, nextLocalId, info, services, operating,
                       locks, cpc, create, rid, todo, mode, crashes>>
    BY <1>35 DEF OperateConstraints
  <2>5. TypeOK'
    BY <2>2, <2>3, <2>4
  <2>6. Nesting' /\ Bound'
    BY <2>4
  <2> QED BY <2>5, <2>6
<1>36. ASSUME NEW p \in Proc, RemoveReturn(p) PROVE TypeInv'
  BY <1>36 DEF RemoveReturn
<1>37. ASSUME NEW p \in Proc, UpdateOsAccount(p) PROVE TypeInv'
  BY <1>37 DEF UpdateOsAccount
<1>38. ASSUME NEW p \in Proc, UpdateOsAccountWrite(p) PROVE TypeInv'
  BY <1>38 DEF UpdateOsAccountWrite
<1>39. ASSUME NEW p \in Proc, UpdateReturn(p) PROVE TypeInv'
  BY <1>39 DEF UpdateReturn
<1>40. ASSUME NEW p \in Proc, NEW t \in Types, NEW w \in Ids \cup {0}, CreateOsAccount(p, t, w) PROVE TypeInv'
  BY <1>40 DEF CreateOsAccount, Idle
<1>41. ASSUME NEW p \in Proc, NEW t \in Types,
       NEW w \in Ids \cup {0}, BindDomainAccount(p, t, w) PROVE TypeInv'
  BY <1>41 DEF BindDomainAccount, Idle
<1>42. ASSUME NEW p \in Proc, NEW i \in Ids, RemoveOsAccount(p, i) PROVE TypeInv'
  BY <1>42 DEF RemoveOsAccount, Idle
<1>43. ASSUME NEW p \in Proc, NEW i \in Ids, SetOsAccountInfo(p, i) PROVE TypeInv'
  BY <1>43 DEF SetOsAccountInfo, Idle
<1>44. ASSUME NEW p \in Proc, NEW i \in Ids, ActivateOsAccount(p, i) PROVE TypeInv'
  BY <1>44 DEF ActivateOsAccount, Idle
<1>45. ASSUME NEW p \in Proc, NEW i \in Ids, NEW b \in BOOLEAN, SetOsAccountToBeRemoved(p, i, b) PROVE TypeInv'
  BY <1>45 DEF SetOsAccountToBeRemoved, Idle, Info, Flagged
<1>46. ASSUME NEW p \in Proc, CleanGarbageOsAccounts(p) PROVE TypeInv'
  BY <1>46 DEF CleanGarbageOsAccounts, StartClean, Idle
<1>s. ASSUME NEW p \in Proc, Step(p) PROVE TypeInv'
  <2>1. CASE CreateStep(p)
    BY <2>1, <1>1, <1>2, <1>3, <1>4, <1>5, <1>6, <1>7, <1>8, <1>9, <1>10, <1>11, <1>12, <1>13, <1>14, <1>15, <1>16, <1>17, <1>18, <1>19, <1>20, <1>21, <1>22, <1>23, <1>24, <1>47, <1>48, <1>49 DEF CreateStep
  <2>2. CASE RemoveStep(p)
    BY <2>2, <1>25, <1>26, <1>27, <1>28, <1>29, <1>30, <1>31, <1>32, <1>33, <1>34, <1>35, <1>36 DEF RemoveStep
  <2>3. CASE UpdateStep(p)
    BY <2>3, <1>37, <1>38, <1>39 DEF UpdateStep
  <2> QED BY <1>s, <2>1, <2>2, <2>3 DEF Step
<1>k. ASSUME NEW p \in Proc, Call(p) PROVE TypeInv'
  BY <1>k, <1>40, <1>41, <1>42, <1>43, <1>44, <1>45, <1>46 DEF Call
<1> QED
  BY <1>u, <1>c, <1>s, <1>k DEF Next

\* TypeOK is an invariant for every value of the constants: ids stay in range
\* through the allocator, no record is ever written from a copy that was not
\* read, and every handler has an id before it uses it.
THEOREM TypeCorrect == Spec => []TypeOK
<1>1. Init => TypeInv
  BY TypeInit
<1>2. TypeInv /\ [Next]_vars => TypeInv'
  BY TypeStep
<1>3. TypeInv => TypeOK
  BY DEF TypeInv
<1> QED BY <1>1, <1>2, <1>3, PTL DEF Spec

-----------------------------------------------------------------------------
(***************************************************************************)
(* The inductive invariant behind NoOrphanData and ExclusiveOperation.     *)
(***************************************************************************)

\* The hypothesis of the theorems: no creation picks an id that may have been
\* used before, and all of them hold createOsAccountMutex_ and the mark.
NoReuse == ~IdReuse /\ Ops \cap {"createWithId", "bind"} = {}

\* The hypothesis of DataNeverOrphaned: no service does what it is asked for
\* and answers with an error.
Answered == "lost" \notin Faults

Creating == (CreateWork \ {"bound", "bindUpd", "bindWrite", "unbind"})
            \cup {"cap", "capWait", "fill", "check", "mark", "end"}
Claiming == CreateWork \cup {"check", "mark", "end"}

Claims(p, x) == cpc[p] \in Claiming /\ cid[p] = x
Updates(p, x) == cpc[p] \in Upd /\ cid[p] = x
Flags(p, x) == Updates(p, x) /\ call[p] = "setToBeRemoved"
Active(q, x) == rpc[q] \notin {"idle", "next"} /\ rid[q] = x

\* A removal that has seen the record, or a collector that has the id from
\* the list, cannot be stopped by a missing record any more.
Strong(q) == \/ rpc[q] \in RemoveWork \cup {"opCons"}
             \/ rpc[q] = "read" /\ mode[q] = "clean"

\* Nothing of id x exists, and nobody is about to bring a record of it back.
Unborn(x) == /\ info[x] = None
             /\ x \notin acctList
             /\ \A p \in Proc : x \notin todo[p] /\ ~Updates(p, x)

\* ... and nobody will: the id has been given away and its creator is gone.
Dead(x) == /\ x < nextLocalId
           /\ Unborn(x)
           /\ \A p \in Proc : cpc[p] # "idle" => cid[p] # x

\* createOsAccountMutex_ admits one creator; ids are given out upwards.
OneCreator ==
    \A p \in Proc :
        /\ cpc[p] \in Creating =>
              createMutex = p /\ call[p] = "create" /\ want[p] = 0
        /\ cpc[p] \in {"cap", "capWait", "fill"} =>
              nextLocalId \in Ids /\ cid[p] = 0
        /\ cpc[p] \notin {"assignWait", "bound", "bindUpd", "bindWrite", "unbind"}

Fresh ==
    \A x \in Ids : x >= nextLocalId =>
        /\ info[x] = None
        /\ x \notin acctList
        /\ \A p \in Proc : /\ x \notin todo[p]
                           /\ cid[p] # x
                           /\ ~(Strong(p) /\ rid[p] = x)

\* What a creator knows of its id before it owns the mark, and after.
CreatorId ==
    \A p \in Proc :
        /\ cpc[p] \in {"check", "mark", "insert"} => Unborn(cid[p])
        /\ cpc[p] = "insInfo" =>
              /\ info[cid[p]] = None
              /\ \A q \in Proc : ~Updates(q, cid[p])
        /\ cpc[p] \in CreateWork => cid[p] \in operating
        /\ cpc[p] = "end" /\ cid[p] # 0 =>
              cid[p] \in operating \/ Unborn(cid[p])

\* A mark is lost only on an id that is dead, or held by nobody who matters.
MarkHeld ==
    \A q \in Proc :
        /\ Strong(q) => rid[q] \in operating
        /\ rpc[q] \notin {"idle", "next"} =>
              rid[q] \in operating \/ Dead(rid[q])
        /\ cpc[q] \in Upd /\ call[q] = "setToBeRemoved" => cid[q] \in operating

RemoverExclusion ==
    \A p, q \in Proc : \A x \in Ids :
        p # q /\ Active(p, x) /\ Active(q, x) =>
              Dead(x) /\ ~Strong(p) /\ ~Strong(q)

CreatorExclusion ==
    \A p, q \in Proc : \A x \in Ids :
        Claims(p, x) /\ Active(q, x) =>
              cpc[p] \in {"check", "mark", "end"} /\ Unborn(x) /\ ~Strong(q)

FlagExclusion ==
    \A p, q \in Proc : \A x \in Ids :
        Flags(p, x) => /\ ~Active(q, x)
                       /\ ~Claims(q, x)
                       /\ p # q => ~Flags(q, x)

\* Which services still know the id, at every step of creation and removal.
CreateData ==
    \A p \in Proc :
        /\ cpc[p] \in CreateWork \ {"insert", "insInfo", "rbDelList"} =>
              info[cid[p]] # None
        /\ cpc[p] = "rbBms" => lvl[p] = 2
        /\ Answered =>
              /\ cpc[p] \in {"cons", "tee", "teeWait", "rbDel"} =>
                    cid[p] \notin tee \cup sto \cup bms
              /\ cpc[p] \in {"sto", "stoWait"} => cid[p] \notin sto \cup bms
              /\ cpc[p] = "bms" => cid[p] \notin bms
              /\ cpc[p] = "rbTee" /\ lvl[p] = 0 => cid[p] \notin sto \cup bms
              /\ cpc[p] = "rbTee" /\ lvl[p] = 1 => cid[p] \notin bms
              /\ cpc[p] = "rbBms" => cid[p] \notin tee
              /\ cpc[p] = "rbSto" => cid[p] \notin tee \cup bms

RemoveData ==
    \A p \in Proc :
        /\ rpc[p] \in {"opPrep", "opBms"} => rid[p] \notin tee
        /\ rpc[p] = "opSto" => rid[p] \notin tee \cup bms
        /\ rpc[p] = "opDel" => rid[p] \notin tee \cup sto \cup bms

NoOrphan == Answered => NoOrphanData

IInv == /\ TypeInv
        /\ OneCreator /\ Fresh
        /\ CreatorId /\ MarkHeld
        /\ RemoverExclusion /\ CreatorExclusion /\ FlagExclusion
        /\ CreateData /\ RemoveData /\ NoOrphan

-----------------------------------------------------------------------------
\* With an unused id to give out, the allocator returns exactly that id.
LEMMA NextLocalIdFresh ==
    ASSUME NEW list \in SUBSET Ids, NEW s \in Ids, s \notin list
    PROVE  GetNextLocalId(list, s) = s
<1>1. \A j \in Ids : Distance(s, j) >= 0 /\ (Distance(s, j) <= 0 => j = s)
  BY LifecycleConstants DEF Distance, Ids
<1>2. Distance(s, s) = 0
  BY LifecycleConstants DEF Distance, Ids
<1>3. \A i \in Ids \ list :
        (\A j \in Ids \ list : Distance(s, i) <= Distance(s, j)) <=> i = s
  BY <1>1, <1>2, LifecycleConstants DEF Distance, Ids
<1> QED BY <1>3 DEF GetNextLocalId

LEMMA NewInfoIsInfo ==
    ASSUME NEW t \in Types
    PROVE  NewInfo(t) \in Info /\ Completed(NewInfo(t)) \in Info
BY DEF NewInfo, Completed, Info

LEMMA ZeroIsNoId == 0 \notin Ids
BY DEF Ids

LEMMA IInvInit == Init => IInv
<1> SUFFICES ASSUME Init PROVE IInv
  OBVIOUS
<1>1. TypeInv
  BY TypeInit
<1>2. OneCreator /\ Fresh /\ CreatorId /\ MarkHeld /\ RemoverExclusion
       /\ CreatorExclusion /\ FlagExclusion /\ CreateData /\ RemoveData /\ NoOrphan
  BY LifecycleConstants DEF Init, OneCreator, Fresh, CreatorId, MarkHeld, RemoverExclusion,
     CreatorExclusion, FlagExclusion, CreateData, RemoveData, NoOrphan, NoOrphanData, Creating, Claiming, CreateWork, RemoveWork, Upd, Strong, Active, Claims, Flags,
     Updates, Ids
<1> QED BY <1>1, <1>2 DEF IInv


LEMMA IInv_CheckAndCleanOsAccounts ==
    ASSUME NoReuse, IInv, TypeInv', NEW p \in Proc, CheckAndCleanOsAccounts(p)
    PROVE  IInv'
<1> USE LifecycleConstants, NoneIsNoInfo, ZeroIsNoId, NoReuse
     DEF IInv, CheckAndCleanOsAccounts, StartClean, NoReuse, TypeInv, TypeOK, Nesting, Bound, disk, services, locks, create, remove, GoC, GoR, CreatePc, RemovePc, CreateWork, RemoveWork, Wait, Upd, Creating, Claiming
<1>1. OneCreator'
  BY DEF OneCreator
<1>2. Fresh'
  BY DEF Fresh, Strong
<1>3. CreatorId'
  BY DEF CreatorId, Unborn, Updates
<1>4. MarkHeld'
  <2>1. \A x \in Ids : Dead(x) => Dead(x)'
    BY DEF OneCreator, Dead, Unborn, Updates
  <2>2. \A q \in Proc : \A x \in Ids : Active(q, x)' => x \in operating' \/ Dead(x)'
    BY <2>1 DEF MarkHeld, Active
  <2>3. \A q \in Proc : Strong(q)' => rid'[q] \in operating'
    BY DEF MarkHeld, Strong
  <2>4. \A q \in Proc : cpc'[q] \in Upd /\ call'[q] = "setToBeRemoved" => cid'[q] \in operating'
    BY DEF MarkHeld
  <2> QED BY <2>2, <2>3, <2>4 DEF MarkHeld, Active
<1>5. RemoverExclusion'
  <2>1. \A x \in Ids : Dead(x) => Dead(x)'
    BY DEF OneCreator, Dead, Unborn, Updates
  <2> QED BY <2>1 DEF RemoverExclusion, Active, Strong
<1>6. CreatorExclusion'
  BY DEF CreatorExclusion, Claims, Active, Strong, Unborn, Updates
<1>7. FlagExclusion'
  BY DEF FlagExclusion, Flags, Updates, Active, Claims
<1>8. CreateData'
  BY DEF CreateData
<1>9. RemoveData'
  BY DEF RemoveData
<1>10. NoOrphan'
  BY DEF NoOrphan, NoOrphanData
<1> QED BY <1>1, <1>2, <1>3, <1>4, <1>5, <1>6, <1>7, <1>8, <1>9, <1>10

LEMMA IInv_CheckAndCleanDone ==
    ASSUME NoReuse, IInv, TypeInv', NEW p \in Proc, CheckAndCleanDone(p)
    PROVE  IInv'
<1> USE LifecycleConstants, NoneIsNoInfo, ZeroIsNoId, NoReuse
     DEF IInv, CheckAndCleanDone, NoReuse, TypeInv, TypeOK, Nesting, Bound, disk, services, locks, create, remove, GoC, GoR, CreatePc, RemovePc, CreateWork, RemoveWork, Wait, Upd, Creating, Claiming
<1>1. OneCreator'
  BY DEF OneCreator
<1>2. Fresh'
  BY DEF Fresh, Strong
<1>3. CreatorId'
  BY DEF OneCreator, CreatorId, Unborn, Updates
<1>4. MarkHeld'
  BY DEF MarkHeld, Strong, Dead, Unborn, Updates
<1>5. RemoverExclusion'
  BY DEF RemoverExclusion, Active, Strong, Dead, Unborn, Updates
<1>6. CreatorExclusion'
  BY DEF OneCreator, CreatorId, MarkHeld, CreatorExclusion, Claims, Active, Strong, Unborn, Updates
<1>7. FlagExclusion'
  BY DEF OneCreator, CreatorId, MarkHeld, FlagExclusion, Flags, Updates, Active, Claims
<1>8. CreateData'
  BY DEF CreateData
<1>9. RemoveData'
  BY DEF RemoveData
<1>10. NoOrphan'
  BY DEF NoOrphan, NoOrphanData
<1> QED BY <1>1, <1>2, <1>3, <1>4, <1>5, <1>6, <1>7, <1>8, <1>9, <1>10

LEMMA IInv_GetAllowCreateId ==
    ASSUME NoReuse, IInv, TypeInv', NEW p \in Proc, GetAllowCreateId(p)
    PROVE  IInv'
<1> USE LifecycleConstants, NoneIsNoInfo, ZeroIsNoId, NoReuse
     DEF IInv, NoReuse, TypeInv, TypeOK, Nesting, Bound, disk, services, locks, create, remove, GoC, GoR, CreatePc, RemovePc, CreateWork, RemoveWork, Wait, Upd, Creating, Claiming
<1>a. /\ nextLocalId \in Ids /\ nextLocalId \notin acctList
      /\ cpc[p] = "fill" /\ rpc[p] = "idle" /\ createMutex = p
  BY DEF GetAllowCreateId, OneCreator, Fresh, Ids
<1>b. /\ cpc' = [cpc EXCEPT ![p] = "check"]
      /\ nextLocalId' = nextLocalId + 1
      /\ cid' = [cid EXCEPT ![p] = nextLocalId]
      /\ UNCHANGED <<acctList, info, cons, services, operating, locks, call, ctyp,
                     want, lvl, snap, rpc, remove, crashes>>
  <2>1. GetNextLocalId(acctList, nextLocalId) = nextLocalId
    BY <1>a, NextLocalIdFresh
  <2>2. ~(nextLocalId > MaxId)
    BY <1>a DEF Ids
  <2> QED BY <2>1, <2>2 DEF GetAllowCreateId
<1>c. \A x \in Ids : /\ x >= nextLocalId' <=> (x >= nextLocalId /\ x # nextLocalId)
                     /\ x < nextLocalId' <=> (x < nextLocalId \/ x = nextLocalId)
                     /\ x < nextLocalId <=> ~(x >= nextLocalId)
  BY <1>a, <1>b DEF Ids
<1>1. OneCreator'
  BY <1>a, <1>b, <1>c DEF OneCreator, OneCreator
<1>2. Fresh'
  BY <1>a, <1>b, <1>c DEF OneCreator, Fresh, Strong
<1>3. CreatorId'
  BY <1>a, <1>b, <1>c DEF OneCreator, CreatorId, Fresh, Unborn, Updates
<1>4. MarkHeld'
  <2>1. \A x \in Ids : Dead(x) => Dead(x)'
    BY <1>a, <1>b, <1>c DEF Dead, Unborn, Updates
  <2>2. \A q \in Proc : \A x \in Ids : Active(q, x)' => x \in operating' \/ Dead(x)'
    BY <1>b, <2>1 DEF MarkHeld, Active
  <2>3. \A q \in Proc : Strong(q)' => rid'[q] \in operating'
    BY <1>b DEF MarkHeld, Strong
  <2>4. \A q \in Proc : cpc'[q] \in Upd /\ call'[q] = "setToBeRemoved" => cid'[q] \in operating'
    BY <1>a, <1>b DEF MarkHeld
  <2> QED BY <2>2, <2>3, <2>4 DEF MarkHeld, Active
<1>5. RemoverExclusion'
  BY <1>a, <1>b, <1>c DEF OneCreator, RemoverExclusion, Fresh, Dead, Unborn, Updates, Strong, Active
<1>6. CreatorExclusion'
  BY <1>a, <1>b, <1>c DEF OneCreator, CreatorExclusion, Fresh, Unborn, Updates, Strong, Active, Claims
<1>7. FlagExclusion'
  BY <1>a, <1>b, <1>c DEF OneCreator, FlagExclusion, Fresh, Flags, Updates, Active, Claims
<1>8. CreateData'
  BY <1>a, <1>b, <1>c DEF OneCreator, CreateData
<1>9. RemoveData'
  BY <1>a, <1>b, <1>c DEF OneCreator, RemoveData
<1>10. NoOrphan'
  BY <1>a, <1>b, <1>c DEF OneCreator, NoOrphan, NoOrphanData
<1> QED BY <1>1, <1>2, <1>3, <1>4, <1>5, <1>6, <1>7, <1>8, <1>9, <1>10

LEMMA IInv_AssignSpecifiedLocalId ==
    ASSUME NoReuse, IInv, TypeInv', NEW p \in Proc, AssignSpecifiedLocalId(p)
    PROVE  IInv'
<1> USE LifecycleConstants, NoneIsNoInfo, ZeroIsNoId, NoReuse
     DEF IInv, AssignSpecifiedLocalId, StartClean, Live, NoReuse, TypeInv, TypeOK, Nesting, Bound, disk, services, locks, create, remove, GoC, GoR, CreatePc, RemovePc, CreateWork, RemoveWork, Wait, Upd, Creating, Claiming
<1>1. OneCreator'
  BY DEF OneCreator
<1>2. Fresh'
  BY DEF Fresh, Strong
<1>3. CreatorId'
  BY DEF OneCreator, CreatorId, Unborn, Updates
<1>4. MarkHeld'
  BY DEF MarkHeld, Strong, Dead, Unborn, Updates
<1>5. RemoverExclusion'
  BY DEF RemoverExclusion, Active, Strong, Dead, Unborn, Updates
<1>6. CreatorExclusion'
  BY DEF OneCreator, CreatorId, MarkHeld, CreatorExclusion, Claims, Active, Strong, Unborn, Updates
<1>7. FlagExclusion'
  BY DEF OneCreator, CreatorId, MarkHeld, FlagExclusion, Flags, Updates, Active, Claims
<1>8. CreateData'
  BY DEF CreateData
<1>9. RemoveData'
  BY DEF RemoveData
<1>10. NoOrphan'
  BY DEF NoOrphan, NoOrphanData
<1> QED BY <1>1, <1>2, <1>3, <1>4, <1>5, <1>6, <1>7, <1>8, <1>9, <1>10

LEMMA IInv_AssignSpecifiedLocalIdDone ==
    ASSUME NoReuse, IInv, TypeInv', NEW p \in Proc, AssignSpecifiedLocalIdDone(p)
    PROVE  IInv'
<1> USE LifecycleConstants, NoneIsNoInfo, ZeroIsNoId, NoReuse
     DEF IInv, AssignSpecifiedLocalIdDone, NoReuse, TypeInv, TypeOK, Nesting, Bound, disk, services, locks, create, remove, GoC, GoR, CreatePc, RemovePc, CreateWork, RemoveWork, Wait, Upd, Creating, Claiming
<1>1. OneCreator'
  BY DEF OneCreator
<1>2. Fresh'
  BY DEF OneCreator, Fresh, Strong
<1>3. CreatorId'
  BY DEF OneCreator, CreatorId, Unborn, Updates
<1>4. MarkHeld'
  BY DEF OneCreator, MarkHeld, Strong, Dead, Unborn, Updates
<1>5. RemoverExclusion'
  BY DEF OneCreator, MarkHeld, RemoverExclusion, Active, Strong, Dead, Unborn, Updates
<1>6. CreatorExclusion'
  BY DEF OneCreator, CreatorId, MarkHeld, CreatorExclusion, Claims, Active, Strong, Unborn, Updates
<1>7. FlagExclusion'
  BY DEF OneCreator, CreatorId, MarkHeld, FlagExclusion, Flags, Updates, Active, Claims
<1>8. CreateData'
  BY DEF CreateData
<1>9. RemoveData'
  BY DEF RemoveData
<1>10. NoOrphan'
  BY DEF NoOrphan, NoOrphanData
<1> QED BY <1>1, <1>2, <1>3, <1>4, <1>5, <1>6, <1>7, <1>8, <1>9, <1>10

LEMMA IInv_ValidateOsAccount ==
    ASSUME NoReuse, IInv, TypeInv', NEW p \in Proc, ValidateOsAccount(p)
    PROVE  IInv'
<1> USE LifecycleConstants, NoneIsNoInfo, ZeroIsNoId, NoReuse
     DEF IInv, ValidateOsAccount, NoReuse, TypeInv, TypeOK, Nesting, Bound, disk, services, locks, create, remove, GoC, GoR, CreatePc, RemovePc, CreateWork, RemoveWork, Wait, Upd, Creating, Claiming
<1>1. OneCreator'
  BY DEF OneCreator
<1>2. Fresh'
  BY DEF Fresh, Strong
<1>3. CreatorId'
  BY DEF CreatorId, Unborn, Updates
<1>4. MarkHeld'
  BY DEF MarkHeld, Strong, Dead, Unborn, Updates
<1>5. RemoverExclusion'
  BY DEF RemoverExclusion, Active, Strong, Dead, Unborn, Updates
<1>6. CreatorExclusion'
  BY DEF CreatorExclusion, Claims, Active, Strong, Unborn, Updates
<1>7. FlagExclusion'
  BY DEF FlagExclusion, Flags, Updates, Active, Claims
<1>8. CreateData'
  BY DEF CreateData
<1>9. RemoveData'
  BY DEF RemoveData
<1>10. NoOrphan'
  BY DEF NoOrphan, NoOrphanData
<1> QED BY <1>1, <1>2, <1>3, <1>4, <1>5, <1>6, <1>7, <1>8, <1>9, <1>10

LEMMA IInv_MarkCreating ==
    ASSUME NoReuse, IInv, TypeInv', NEW p \in Proc, MarkCreating(p)
    PROVE  IInv'
<1> USE LifecycleConstants, NoneIsNoInfo, ZeroIsNoId, NoReuse
     DEF IInv, MarkCreating, NoReuse, TypeInv, TypeOK, Nesting, Bound, disk, services, locks, create, remove, GoC, GoR, CreatePc, RemovePc, CreateWork, RemoveWork, Wait, Upd, Creating, Claiming
<1>1. OneCreator'
  BY DEF OneCreator
<1>2. Fresh'
  BY DEF Fresh, Strong
<1>3. CreatorId'
  BY DEF CreatorId, Unborn, Updates
<1>4. MarkHeld'
  BY DEF MarkHeld, Strong, Dead, Unborn, Updates
<1>5. RemoverExclusion'
  BY DEF RemoverExclusion, Active, Strong, Dead, Unborn, Updates
<1>6. CreatorExclusion'
  BY DEF OneCreator, Fresh, CreatorId, MarkHeld, RemoverExclusion, CreatorExclusion, FlagExclusion, Strong, Unborn, Updates, Flags, Active, Claims, Dead
<1>7. FlagExclusion'
  BY DEF FlagExclusion, Flags, Updates, Active, Claims
<1>8. CreateData'
  BY DEF CreateData
<1>9. RemoveData'
  BY DEF RemoveData
<1>10. NoOrphan'
  BY DEF NoOrphan, NoOrphanData
<1> QED BY <1>1, <1>2, <1>3, <1>4, <1>5, <1>6, <1>7, <1>8, <1>9, <1>10

LEMMA IInv_InsertOsAccount ==
    ASSUME NoReuse, IInv, TypeInv', NEW p \in Proc, InsertOsAccount(p)
    PROVE  IInv'
<1> USE LifecycleConstants, NoneIsNoInfo, ZeroIsNoId, NoReuse
     DEF IInv, InsertOsAccount, NoReuse, TypeInv, TypeOK, Nesting, Bound, disk, services, locks, create, remove, GoC, GoR, CreatePc, RemovePc, CreateWork, RemoveWork, Wait, Upd, Creating, Claiming
<1>1. OneCreator'
  BY DEF OneCreator
<1>2. Fresh'
  BY DEF Fresh, Strong
<1>3. CreatorId'
  BY DEF OneCreator, CreatorId, Unborn, Updates
<1>4. MarkHeld'
  BY DEF MarkHeld, Strong, Dead, Unborn, Updates
<1>5. RemoverExclusion'
  BY DEF RemoverExclusion, Active, Strong, Dead, Unborn, Updates
<1>6. CreatorExclusion'
  BY DEF CreatorExclusion, Claims, Active, Strong, Unborn, Updates
<1>7. FlagExclusion'
  BY DEF FlagExclusion, Flags, Updates, Active, Claims
<1>8. CreateData'
  BY DEF CreateData
<1>9. RemoveData'
  BY DEF RemoveData
<1>10. NoOrphan'
  BY DEF NoOrphan, NoOrphanData
<1> QED BY <1>1, <1>2, <1>3, <1>4, <1>5, <1>6, <1>7, <1>8, <1>9, <1>10

LEMMA IInv_InsertOsAccountInfo ==
    ASSUME NoReuse, IInv, TypeInv', NEW p \in Proc, InsertOsAccountInfo(p)
    PROVE  IInv'
<1> USE LifecycleConstants, NoneIsNoInfo, ZeroIsNoId, NoReuse
     DEF IInv, InsertOsAccountInfo, NewInfo, NoReuse, TypeInv, TypeOK, Nesting, Bound, disk, services, locks, create, remove, GoC, GoR, CreatePc, RemovePc, CreateWork, RemoveWork, Wait, Upd, Creating, Claiming
<1>1. OneCreator'
  BY DEF OneCreator
<1>2. Fresh'
  BY DEF Fresh, Strong
<1>3. CreatorId'
  BY DEF OneCreator, CreatorId, Unborn, Updates
<1>4. MarkHeld'
  BY DEF MarkHeld, Strong, Dead, Unborn, Updates
<1>5. RemoverExclusion'
  BY DEF RemoverExclusion, Active, Strong, Dead, Unborn, Updates
<1>6. CreatorExclusion'
  BY DEF CreatorExclusion, Claims, Active, Strong, Unborn, Updates
<1>7. FlagExclusion'
  BY DEF FlagExclusion, Flags, Updates, Active, Claims
<1>8. CreateData'
  <2>1. NewInfo(ctyp[p]) # None
    BY NewInfoIsInfo
  <2> QED BY <2>1 DEF OneCreator, CreatorId, CreatorExclusion, CreateData, NoOrphan, NoOrphanData, Claims
<1>9. RemoveData'
  BY DEF RemoveData
<1>10. NoOrphan'
  BY DEF OneCreator, CreatorId, CreatorExclusion, RemoverExclusion, CreateData, RemoveData, NoOrphan, NoOrphanData, Strong, Active, Claims
<1> QED BY <1>1, <1>2, <1>3, <1>4, <1>5, <1>6, <1>7, <1>8, <1>9, <1>10

LEMMA IInv_UpdateBaseOAConstraints ==
    ASSUME NoReuse, IInv, TypeInv', NEW p \in Proc, UpdateBaseOAConstraints(p)
    PROVE  IInv'
<1> USE LifecycleConstants, NoneIsNoInfo, ZeroIsNoId, NoReuse
     DEF IInv, UpdateBaseOAConstraints, NoReuse, TypeInv, TypeOK, Nesting, Bound, disk, services, locks, create, remove, GoC, GoR, CreatePc, RemovePc, CreateWork, RemoveWork, Wait, Upd, Creating, Claiming
<1>1. OneCreator'
  BY DEF OneCreator
<1>2. Fresh'
  BY DEF Fresh, Strong
<1>3. CreatorId'
  BY DEF CreatorId, Unborn, Updates
<1>4. MarkHeld'
  BY DEF MarkHeld, Strong, Dead, Unborn, Updates
<1>5. RemoverExclusion'
  BY DEF RemoverExclusion, Active, Strong, Dead, Unborn, Updates
<1>6. CreatorExclusion'
  BY DEF CreatorExclusion, Claims, Active, Strong, Unborn, Updates
<1>7. FlagExclusion'
  BY DEF FlagExclusion, Flags, Updates, Active, Claims
<1>8. CreateData'
  BY DEF CreateData
<1>9. RemoveData'
  BY DEF RemoveData
<1>10. NoOrphan'
  BY DEF NoOrphan, NoOrphanData
<1> QED BY <1>1, <1>2, <1>3, <1>4, <1>5, <1>6, <1>7, <1>8, <1>9, <1>10

\* Without domain accounts no thread is inside BindDomainAccount.
LEMMA IInv_BindDomainAccountReturn ==
    ASSUME NoReuse, IInv, NEW p \in Proc,
           \/ BindDomainAccountUnmark(p) \/ BindDomainAccountUpdate(p)
           \/ BindDomainAccountReturn(p)
    PROVE  IInv'
BY DEF IInv, OneCreator, BindDomainAccountUnmark, BindDomainAccountUpdate, BindDomainAccountReturn

LEMMA IInv_HandleCreateOsAccountToken ==
    ASSUME NoReuse, IInv, TypeInv', NEW p \in Proc, HandleCreateOsAccountToken(p)
    PROVE  IInv'
<1> USE LifecycleConstants, NoneIsNoInfo, ZeroIsNoId, NoReuse
     DEF IInv, HandleCreateOsAccountToken, StartClean, NoReuse, TypeInv, TypeOK, Nesting, Bound, disk, services, locks, create, remove, GoC, GoR, CreatePc, RemovePc, CreateWork, RemoveWork, Wait, Upd, Creating, Claiming
<1>1. OneCreator'
  BY DEF OneCreator
<1>2. Fresh'
  BY DEF Fresh, Strong
<1>3. CreatorId'
  BY DEF CreatorId, Unborn, Updates
<1>4. MarkHeld'
  BY DEF MarkHeld, Strong, Dead, Unborn, Updates
<1>5. RemoverExclusion'
  BY DEF RemoverExclusion, Active, Strong, Dead, Unborn, Updates
<1>6. CreatorExclusion'
  BY DEF OneCreator, CreatorId, MarkHeld, CreatorExclusion, Claims, Active, Strong, Unborn, Updates
<1>7. FlagExclusion'
  BY DEF FlagExclusion, Flags, Updates, Active, Claims
<1>8. CreateData'
  BY DEF OneCreator, CreateData
<1>9. RemoveData'
  BY DEF RemoveData, CreatorExclusion, RemoverExclusion, Claims, Active, Strong
<1>10. NoOrphan'
  BY DEF CreateData, RemoveData, NoOrphan, NoOrphanData
<1> QED BY <1>1, <1>2, <1>3, <1>4, <1>5, <1>6, <1>7, <1>8, <1>9, <1>10

LEMMA IInv_InsertOsAccountTypeRetry ==
    ASSUME NoReuse, IInv, TypeInv', NEW p \in Proc, InsertOsAccountTypeRetry(p)
    PROVE  IInv'
<1> USE LifecycleConstants, NoneIsNoInfo, ZeroIsNoId, NoReuse
     DEF IInv, InsertOsAccountTypeRetry, NoReuse, TypeInv, TypeOK, Nesting, Bound, disk, services, locks, create, remove, GoC, GoR, CreatePc, RemovePc, CreateWork, RemoveWork, Wait, Upd, Creating, Claiming
<1>1. OneCreator'
  BY DEF OneCreator
<1>2. Fresh'
  BY DEF Fresh, Strong
<1>3. CreatorId'
  BY DEF CreatorId, Unborn, Updates
<1>4. MarkHeld'
  BY DEF MarkHeld, Strong, Dead, Unborn, Updates
<1>5. RemoverExclusion'
  BY DEF RemoverExclusion, Active, Strong, Dead, Unborn, Updates
<1>6. CreatorExclusion'
  BY DEF CreatorExclusion, Claims, Active, Strong, Unborn, Updates
<1>7. FlagExclusion'
  BY DEF FlagExclusion, Flags, Updates, Active, Claims
<1>8. CreateData'
  BY DEF OneCreator, CreateData
<1>9. RemoveData'
  BY DEF RemoveData, CreatorExclusion, RemoverExclusion, Claims, Active, Strong
<1>10. NoOrphan'
  BY DEF CreateData, RemoveData, NoOrphan, NoOrphanData
<1> QED BY <1>1, <1>2, <1>3, <1>4, <1>5, <1>6, <1>7, <1>8, <1>9, <1>10

LEMMA IInv_SendToStorageAccountCreate ==
    ASSUME NoReuse, IInv, TypeInv', NEW p \in Proc, SendToStorageAccountCreate(p)
    PROVE  IInv'
<1> USE LifecycleConstants, NoneIsNoInfo, ZeroIsNoId, NoReuse
     DEF IInv, SendToStorageAccountCreate, Refused, Answered, StartClean, NoReuse, TypeInv, TypeOK, Nesting, Bound, disk, services, locks, create, remove, GoC, GoR, CreatePc, RemovePc, CreateWork, RemoveWork, Wait, Upd, Creating, Claiming
<1>1. OneCreator'
  BY DEF OneCreator
<1>2. Fresh'
  BY DEF Fresh, Strong
<1>3. CreatorId'
  BY SMTT(30) DEF CreatorId, Unborn, Updates
<1>4. MarkHeld'
  BY DEF MarkHeld, Strong, Dead, Unborn, Updates
<1>5. RemoverExclusion'
  BY SMTT(30) DEF RemoverExclusion, Active, Strong, Dead, Unborn, Updates
<1>6. CreatorExclusion'
  BY DEF OneCreator, CreatorId, MarkHeld, CreatorExclusion, Claims, Active, Strong, Unborn, Updates
<1>7. FlagExclusion'
  BY DEF FlagExclusion, Flags, Updates, Active, Claims
<1>8. CreateData'
  BY DEF OneCreator, CreateData
<1>9. RemoveData'
  BY DEF RemoveData, CreatorExclusion, RemoverExclusion, Claims, Active, Strong
<1>10. NoOrphan'
  BY DEF CreateData, RemoveData, NoOrphan, NoOrphanData
<1> QED BY <1>1, <1>2, <1>3, <1>4, <1>5, <1>6, <1>7, <1>8, <1>9, <1>10

LEMMA IInv_PrepareAddUserRetry ==
    ASSUME NoReuse, IInv, TypeInv', NEW p \in Proc, PrepareAddUserRetry(p)
    PROVE  IInv'
<1> USE LifecycleConstants, NoneIsNoInfo, ZeroIsNoId, NoReuse
     DEF IInv, PrepareAddUserRetry, Refused, Answered, NoReuse, TypeInv, TypeOK, Nesting, Bound, disk, services, locks, create, remove, GoC, GoR, CreatePc, RemovePc, CreateWork, RemoveWork, Wait, Upd, Creating, Claiming
<1>1. OneCreator'
  BY DEF OneCreator
<1>2. Fresh'
  BY DEF Fresh, Strong
<1>3. CreatorId'
  BY DEF CreatorId, Unborn, Updates
<1>4. MarkHeld'
  BY DEF MarkHeld, Strong, Dead, Unborn, Updates
<1>5. RemoverExclusion'
  BY DEF RemoverExclusion, Active, Strong, Dead, Unborn, Updates
<1>6. CreatorExclusion'
  BY DEF CreatorExclusion, Claims, Active, Strong, Unborn, Updates
<1>7. FlagExclusion'
  BY DEF FlagExclusion, Flags, Updates, Active, Claims
<1>8. CreateData'
  BY DEF OneCreator, CreateData
<1>9. RemoveData'
  BY DEF RemoveData, CreatorExclusion, RemoverExclusion, Claims, Active, Strong
<1>10. NoOrphan'
  BY DEF CreateData, RemoveData, NoOrphan, NoOrphanData
<1> QED BY <1>1, <1>2, <1>3, <1>4, <1>5, <1>6, <1>7, <1>8, <1>9, <1>10

LEMMA IInv_SendToBMSAccountCreate ==
    ASSUME NoReuse, IInv, TypeInv', NEW p \in Proc, SendToBMSAccountCreate(p)
    PROVE  IInv'
<1> USE LifecycleConstants, NoneIsNoInfo, ZeroIsNoId, NoReuse
     DEF IInv, SendToBMSAccountCreate, Refused, Answered, NoReuse, TypeInv, TypeOK, Nesting, Bound, disk, services, locks, create, remove, GoC, GoR, CreatePc, RemovePc, CreateWork, RemoveWork, Wait, Upd, Creating, Claiming
<1>1. OneCreator'
  BY DEF OneCreator
<1>2. Fresh'
  BY DEF Fresh, Strong
<1>3. CreatorId'
  BY DEF CreatorId, Unborn, Updates
<1>4. MarkHeld'
  BY DEF MarkHeld, Strong, Dead, Unborn, Updates
<1>5. RemoverExclusion'
  BY DEF RemoverExclusion, Active, Strong, Dead, Unborn, Updates
<1>6. CreatorExclusion'
  BY DEF CreatorExclusion, Claims, Active, Strong, Unborn, Updates
<1>7. FlagExclusion'
  BY DEF FlagExclusion, Flags, Updates, Active, Claims
<1>8. CreateData'
  BY DEF OneCreator, CreateData
<1>9. RemoveData'
  BY DEF RemoveData, CreatorExclusion, RemoverExclusion, Claims, Active, Strong
<1>10. NoOrphan'
  BY DEF CreateData, RemoveData, NoOrphan, NoOrphanData
<1> QED BY <1>1, <1>2, <1>3, <1>4, <1>5, <1>6, <1>7, <1>8, <1>9, <1>10

LEMMA IInv_FinalizeAccountCreate ==
    ASSUME NoReuse, IInv, TypeInv', NEW p \in Proc, FinalizeAccountCreate(p)
    PROVE  IInv'
<1> USE LifecycleConstants, NoneIsNoInfo, ZeroIsNoId, NoReuse
     DEF IInv, FinalizeAccountCreate, NoReuse, TypeInv, TypeOK, Nesting, Bound, disk, services, locks, create, remove, GoC, GoR, CreatePc, RemovePc, CreateWork, RemoveWork, Wait, Upd, Creating, Claiming
<1>1. OneCreator'
  BY DEF OneCreator
<1>2. Fresh'
  BY DEF Fresh, Strong
<1>3. CreatorId'
  BY DEF CreatorId, Unborn, Updates
<1>4. MarkHeld'
  BY DEF MarkHeld, Strong, Dead, Unborn, Updates
<1>5. RemoverExclusion'
  BY DEF RemoverExclusion, Active, Strong, Dead, Unborn, Updates
<1>6. CreatorExclusion'
  BY DEF CreatorExclusion, Claims, Active, Strong, Unborn, Updates
<1>7. FlagExclusion'
  BY DEF FlagExclusion, Flags, Updates, Active, Claims
<1>8. CreateData'
  BY DEF CreateData
<1>9. RemoveData'
  BY DEF RemoveData
<1>10. NoOrphan'
  BY DEF NoOrphan, NoOrphanData
<1> QED BY <1>1, <1>2, <1>3, <1>4, <1>5, <1>6, <1>7, <1>8, <1>9, <1>10

LEMMA IInv_FinalizeAccountCreateWrite ==
    ASSUME NoReuse, IInv, TypeInv', NEW p \in Proc, FinalizeAccountCreateWrite(p)
    PROVE  IInv'
<1> USE LifecycleConstants, NoneIsNoInfo, ZeroIsNoId, NoReuse
     DEF IInv, FinalizeAccountCreateWrite, NewInfo, NoReuse, TypeInv, TypeOK, Nesting, Bound, disk, services, locks, create, remove, GoC, GoR, CreatePc, RemovePc, CreateWork, RemoveWork, Wait, Upd, Creating, Claiming
<1>1. OneCreator'
  BY DEF OneCreator
<1>2. Fresh'
  BY DEF Fresh, Strong
<1>3. CreatorId'
  BY DEF OneCreator, CreatorId, Unborn, Updates
<1>4. MarkHeld'
  BY DEF MarkHeld, Strong, Dead, Unborn, Updates
<1>5. RemoverExclusion'
  BY DEF RemoverExclusion, Active, Strong, Dead, Unborn, Updates
<1>6. CreatorExclusion'
  BY DEF CreatorExclusion, Claims, Active, Strong, Unborn, Updates
<1>7. FlagExclusion'
  BY DEF FlagExclusion, Flags, Updates, Active, Claims
<1>8. CreateData'
  BY DEF OneCreator, CreateData
<1>9. RemoveData'
  BY DEF RemoveData
<1>10. NoOrphan'
  <2>1. Completed(NewInfo(ctyp[p])) # None
    BY NewInfoIsInfo
  <2> QED BY <2>1 DEF NoOrphan, NoOrphanData
<1> QED BY <1>1, <1>2, <1>3, <1>4, <1>5, <1>6, <1>7, <1>8, <1>9, <1>10

LEMMA IInv_RollbackTee ==
    ASSUME NoReuse, IInv, TypeInv', NEW p \in Proc, RollbackTee(p)
    PROVE  IInv'
<1> USE LifecycleConstants, NoneIsNoInfo, ZeroIsNoId, NoReuse
     DEF IInv, RollbackTee, RollbackNext, RollbackFails, NoReuse, TypeInv, TypeOK, Nesting, Bound, disk, services, locks, create, remove, GoC, GoR, CreatePc, RemovePc, CreateWork, RemoveWork, Wait, Upd, Creating, Claiming
<1>1. OneCreator'
  BY DEF OneCreator
<1>2. Fresh'
  BY DEF Fresh, Strong
<1>3. CreatorId'
  BY DEF CreatorId, Unborn, Updates
<1>4. MarkHeld'
  BY DEF MarkHeld, Strong, Dead, Unborn, Updates
<1>5. RemoverExclusion'
  BY DEF RemoverExclusion, Active, Strong, Dead, Unborn, Updates
<1>6. CreatorExclusion'
  BY DEF CreatorExclusion, Claims, Active, Strong, Unborn, Updates
<1>7. FlagExclusion'
  BY DEF FlagExclusion, Flags, Updates, Active, Claims
<1>8. CreateData'
  <2>1. \A q \in Proc : q # p /\ cpc[q] \in CreateWork => FALSE
    BY DEF OneCreator
  <2>2. /\ cpc[p] = "rbTee" /\ call[p] = "create"
        /\ info[cid[p]] # None /\ UNCHANGED <<info, cid, lvl>>
    BY DEF OneCreator, CreateData
  <2>3. CASE cpc' = [cpc EXCEPT ![p] = "end"]
    BY <2>1, <2>2, <2>3 DEF CreateData
  <2>4. CASE tee' = tee \ {cid[p]} /\ GoC(p, RollbackNext(p, "tee"))
    <3>0. CASE lvl[p] = 0
      <4>1. cpc' = [cpc EXCEPT ![p] = "rbDel"]
        BY <2>2, <2>4, <3>0
      <4> QED BY <2>1, <2>2, <2>4, <3>0, <4>1 DEF CreateData
    <3>1. CASE lvl[p] = 1
      <4>1. cpc' = [cpc EXCEPT ![p] = "rbSto"]
        BY <2>2, <2>4, <3>1
      <4> QED BY <2>1, <2>2, <2>4, <3>1, <4>1 DEF CreateData
    <3>2. CASE lvl[p] = 2
      <4>1. cpc' = [cpc EXCEPT ![p] = "rbBms"]
        BY <2>2, <2>4, <3>2
      <4> QED BY <2>1, <2>2, <2>4, <3>2, <4>1 DEF CreateData
    <3> QED BY <3>0, <3>1, <3>2
  <2> QED BY <2>2, <2>3, <2>4
<1>9. RemoveData'
  BY DEF RemoveData
<1>10. NoOrphan'
  BY DEF NoOrphan, NoOrphanData
<1> QED BY <1>1, <1>2, <1>3, <1>4, <1>5, <1>6, <1>7, <1>8, <1>9, <1>10

LEMMA IInv_RollbackBms ==
    ASSUME NoReuse, IInv, TypeInv', NEW p \in Proc, RollbackBms(p)
    PROVE  IInv'
<1> USE LifecycleConstants, NoneIsNoInfo, ZeroIsNoId, NoReuse
     DEF IInv, RollbackBms, RollbackNext, RollbackFails, NoReuse, TypeInv, TypeOK, Nesting, Bound, disk, services, locks, create, remove, GoC, GoR, CreatePc, RemovePc, CreateWork, RemoveWork, Wait, Upd, Creating, Claiming
<1>1. OneCreator'
  BY DEF OneCreator
<1>2. Fresh'
  BY DEF Fresh, Strong
<1>3. CreatorId'
  BY DEF CreatorId, Unborn, Updates
<1>4. MarkHeld'
  BY DEF MarkHeld, Strong, Dead, Unborn, Updates
<1>5. RemoverExclusion'
  BY DEF RemoverExclusion, Active, Strong, Dead, Unborn, Updates
<1>6. CreatorExclusion'
  BY DEF CreatorExclusion, Claims, Active, Strong, Unborn, Updates
<1>7. FlagExclusion'
  BY DEF FlagExclusion, Flags, Updates, Active, Claims
<1>8. CreateData'
  <2>1. \A q \in Proc : q # p /\ cpc[q] \in CreateWork => FALSE
    BY DEF OneCreator
  <2>2. /\ cpc[p] = "rbBms" /\ call[p] = "create"
        /\ info[cid[p]] # None /\ UNCHANGED <<info, cid, lvl>>
    BY DEF OneCreator, CreateData
  <2>3. CASE cpc' = [cpc EXCEPT ![p] = "end"]
    BY <2>1, <2>2, <2>3 DEF CreateData
  <2>4. CASE bms' = bms \ {cid[p]} /\ GoC(p, RollbackNext(p, "bms"))
    <3>0. lvl[p] = 2
      BY <2>2 DEF CreateData
    <3>1. cpc' = [cpc EXCEPT ![p] = "rbSto"]
      BY <2>2, <2>4, <3>0
    <3> QED BY <2>1, <2>2, <2>4, <3>1 DEF CreateData
  <2> QED BY <2>2, <2>3, <2>4
<1>9. RemoveData'
  BY DEF RemoveData
<1>10. NoOrphan'
  BY DEF NoOrphan, NoOrphanData
<1> QED BY <1>1, <1>2, <1>3, <1>4, <1>5, <1>6, <1>7, <1>8, <1>9, <1>10

LEMMA IInv_RollbackStorage ==
    ASSUME NoReuse, IInv, TypeInv', NEW p \in Proc, RollbackStorage(p)
    PROVE  IInv'
<1> USE LifecycleConstants, NoneIsNoInfo, ZeroIsNoId, NoReuse
     DEF IInv, RollbackStorage, RollbackNext, RollbackFails, NoReuse, TypeInv, TypeOK, Nesting, Bound, disk, services, locks, create, remove, GoC, GoR, CreatePc, RemovePc, CreateWork, RemoveWork, Wait, Upd, Creating, Claiming
<1>1. OneCreator'
  BY DEF OneCreator
<1>2. Fresh'
  BY DEF Fresh, Strong
<1>3. CreatorId'
  BY DEF CreatorId, Unborn, Updates
<1>4. MarkHeld'
  BY DEF MarkHeld, Strong, Dead, Unborn, Updates
<1>5. RemoverExclusion'
  BY DEF RemoverExclusion, Active, Strong, Dead, Unborn, Updates
<1>6. CreatorExclusion'
  BY DEF CreatorExclusion, Claims, Active, Strong, Unborn, Updates
<1>7. FlagExclusion'
  BY DEF FlagExclusion, Flags, Updates, Active, Claims
<1>8. CreateData'
  BY DEF CreateData
<1>9. RemoveData'
  BY DEF RemoveData
<1>10. NoOrphan'
  BY DEF NoOrphan, NoOrphanData
<1> QED BY <1>1, <1>2, <1>3, <1>4, <1>5, <1>6, <1>7, <1>8, <1>9, <1>10

LEMMA IInv_HandleUnbindDomainAccountFailed ==
    ASSUME NoReuse, IInv, TypeInv', NEW p \in Proc, HandleUnbindDomainAccountFailed(p)
    PROVE  IInv'
<1> USE LifecycleConstants, NoneIsNoInfo, ZeroIsNoId, NoReuse
     DEF IInv, HandleUnbindDomainAccountFailed, NoReuse, TypeInv, TypeOK, Nesting, Bound, disk, services, locks, create, remove, GoC, GoR, CreatePc, RemovePc, CreateWork, RemoveWork, Wait, Upd, Creating, Claiming
<1>1. OneCreator'
  BY DEF OneCreator
<1>2. Fresh'
  BY DEF Fresh, Strong
<1>3. CreatorId'
  BY DEF CreatorId, Unborn, Updates
<1>4. MarkHeld'
  BY DEF MarkHeld, Strong, Dead, Unborn, Updates
<1>5. RemoverExclusion'
  BY DEF RemoverExclusion, Active, Strong, Dead, Unborn, Updates
<1>6. CreatorExclusion'
  BY DEF CreatorExclusion, Claims, Active, Strong, Unborn, Updates
<1>7. FlagExclusion'
  BY DEF FlagExclusion, Flags, Updates, Active, Claims
<1>8. CreateData'
  BY DEF OneCreator, CreateData
<1>9. RemoveData'
  BY DEF RemoveData
<1>10. NoOrphan'
  BY DEF NoOrphan, NoOrphanData
<1> QED BY <1>1, <1>2, <1>3, <1>4, <1>5, <1>6, <1>7, <1>8, <1>9, <1>10

LEMMA IInv_RollbackDelInfo ==
    ASSUME NoReuse, IInv, TypeInv', NEW p \in Proc, RollbackDelInfo(p)
    PROVE  IInv'
<1> USE LifecycleConstants, NoneIsNoInfo, ZeroIsNoId, NoReuse
     DEF IInv, RollbackDelInfo, NoReuse, TypeInv, TypeOK, Nesting, Bound, disk, services, locks, create, remove, GoC, GoR, CreatePc, RemovePc, CreateWork, RemoveWork, Wait, Upd, Creating, Claiming
<1>1. OneCreator'
  BY DEF OneCreator
<1>2. Fresh'
  BY DEF Fresh, Strong
<1>3. CreatorId'
  BY DEF CreatorId, Unborn, Updates
<1>4. MarkHeld'
  BY DEF MarkHeld, Strong, Dead, Unborn, Updates
<1>5. RemoverExclusion'
  BY DEF RemoverExclusion, Active, Strong, Dead, Unborn, Updates
<1>6. CreatorExclusion'
  BY DEF CreatorExclusion, Claims, Active, Strong, Unborn, Updates
<1>7. FlagExclusion'
  BY DEF FlagExclusion, Flags, Updates, Active, Claims
<1>8. CreateData'
  BY DEF OneCreator, CreateData
<1>9. RemoveData'
  BY DEF RemoveData
<1>10. NoOrphan'
  BY DEF CreateData, RemoveData, NoOrphan, NoOrphanData
<1> QED BY <1>1, <1>2, <1>3, <1>4, <1>5, <1>6, <1>7, <1>8, <1>9, <1>10

LEMMA IInv_RollbackDelList ==
    ASSUME NoReuse, IInv, TypeInv', NEW p \in Proc, RollbackDelList(p)
    PROVE  IInv'
<1> USE LifecycleConstants, NoneIsNoInfo, ZeroIsNoId, NoReuse
     DEF IInv, RollbackDelList, NoReuse, TypeInv, TypeOK, Nesting, Bound, disk, services, locks, create, remove, GoC, GoR, CreatePc, RemovePc, CreateWork, RemoveWork, Wait, Upd, Creating, Claiming
<1>1. OneCreator'
  BY DEF OneCreator
<1>2. Fresh'
  BY DEF Fresh, Strong
<1>3. CreatorId'
  BY DEF CreatorId, Unborn, Updates
<1>4. MarkHeld'
  BY DEF MarkHeld, Strong, Dead, Unborn, Updates
<1>5. RemoverExclusion'
  BY DEF RemoverExclusion, Active, Strong, Dead, Unborn, Updates
<1>6. CreatorExclusion'
  BY DEF CreatorExclusion, Claims, Active, Strong, Unborn, Updates
<1>7. FlagExclusion'
  BY DEF FlagExclusion, Flags, Updates, Active, Claims
<1>8. CreateData'
  BY DEF CreateData
<1>9. RemoveData'
  BY DEF RemoveData
<1>10. NoOrphan'
  BY DEF NoOrphan, NoOrphanData
<1> QED BY <1>1, <1>2, <1>3, <1>4, <1>5, <1>6, <1>7, <1>8, <1>9, <1>10

LEMMA IInv_CreateReturn ==
    ASSUME NoReuse, IInv, TypeInv', NEW p \in Proc, CreateReturn(p)
    PROVE  IInv'
<1> USE LifecycleConstants, NoneIsNoInfo, ZeroIsNoId, NoReuse
     DEF IInv, CreateReturn, NoReuse, TypeInv, TypeOK, Nesting, Bound, disk, services, locks, create, remove, GoC, GoR, CreatePc, RemovePc, CreateWork, RemoveWork, Wait, Upd, Creating, Claiming
<1>1. OneCreator'
  BY DEF OneCreator
<1>2. Fresh'
  BY DEF Fresh, Strong
<1>3. CreatorId'
  BY DEF OneCreator, CreatorId, Unborn, Updates
<1>4. MarkHeld'
  <2>1. \A x \in Ids : Dead(x) => Dead(x)'
    BY DEF OneCreator, Dead, Unborn, Updates
  <2>2. \A q \in Proc : \A x \in Ids : x = cid[p] /\ Active(q, x) =>
           ~Strong(q) /\ Dead(x)'
    <3> SUFFICES ASSUME NEW q \in Proc, NEW x \in Ids, x = cid[p], Active(q, x)
                 PROVE  ~Strong(q) /\ Dead(x)'
      OBVIOUS
    <3>1. Unborn(x) /\ ~Strong(q)
      BY DEF CreatorExclusion, Claims
    <3>2. x < nextLocalId
      BY DEF Fresh, Ids
    <3>3. \A r \in Proc : r # p /\ cpc[r] # "idle" => cid[r] # x
      BY <3>1 DEF OneCreator, Unborn, Updates
    <3> QED BY <3>1, <3>2, <3>3 DEF Dead, Unborn, Updates
  <2>3. \A q \in Proc : cpc[q] \in Upd /\ call[q] = "setToBeRemoved" => cid[q] # cid[p]
    BY DEF FlagExclusion, Flags, Updates, Claims
  <2>4. /\ operating' = operating \ {cid[p]}
        /\ cpc' = [cpc EXCEPT ![p] = "idle"] /\ cid' = [cid EXCEPT ![p] = 0]
        /\ call' = [call EXCEPT ![p] = "create"]
        /\ UNCHANGED <<rpc, rid, mode>>
    BY DEF OneCreator
  <2>5. \A q \in Proc : Strong(q)' => Strong(q)
    BY <2>4 DEF Strong
  <2>6. ASSUME NEW q \in Proc, Strong(q) PROVE rid[q] \in operating'
    BY <2>2, <2>4, <2>6 DEF MarkHeld, Active, Strong
  <2>7. ASSUME NEW q \in Proc, NEW x \in Ids, Active(q, x)
        PROVE  x \in operating' \/ Dead(x)'
    BY <2>1, <2>2, <2>4, <2>7 DEF MarkHeld, Active
  <2>8. ASSUME NEW q \in Proc, cpc'[q] \in Upd, call'[q] = "setToBeRemoved"
        PROVE  cid'[q] \in operating'
    BY <2>3, <2>4, <2>8 DEF MarkHeld
  <2>9. UNCHANGED <<rpc, rid>>
    BY <2>4
  <2> HIDE DEF CreateReturn
  <2> QED BY <2>5, <2>6, <2>7, <2>8, <2>9 DEF MarkHeld, Active
<1>5. RemoverExclusion'
  BY DEF RemoverExclusion, Active, Strong, Dead, Unborn, Updates
<1>6. CreatorExclusion'
  BY DEF CreatorExclusion, Claims, Active, Strong, Unborn, Updates
<1>7. FlagExclusion'
  BY DEF FlagExclusion, Flags, Updates, Active, Claims
<1>8. CreateData'
  BY DEF CreateData
<1>9. RemoveData'
  BY DEF RemoveData
<1>10. NoOrphan'
  BY DEF NoOrphan, NoOrphanData
<1> QED BY <1>1, <1>2, <1>3, <1>4, <1>5, <1>6, <1>7, <1>8, <1>9, <1>10

LEMMA IInv_CleanNext ==
    ASSUME NoReuse, IInv, TypeInv', NEW p \in Proc, CleanNext(p)
    PROVE  IInv'
<1> USE LifecycleConstants, NoneIsNoInfo, ZeroIsNoId, NoReuse
     DEF IInv, CleanNext, NoReuse, TypeInv, TypeOK, Nesting, Bound, disk, services, locks, create, remove, GoC, GoR, CreatePc, RemovePc, CreateWork, RemoveWork, Wait, Upd, Creating, Claiming
<1>1. OneCreator'
  BY DEF OneCreator
<1>2. Fresh'
  BY DEF Fresh, Strong
<1>3. CreatorId'
  <2>1. CASE todo[p] = {}
    <3>1. rpc' = [rpc EXCEPT ![p] = "idle"] /\ UNCHANGED <<todo, rid, operating, mode>>
      BY <2>1
    <3> QED BY <3>1 DEF CreatorId, OneCreator, Unborn, Updates
  <2>2. CASE todo[p] # {}
    <3>1. PICK i \in todo[p] :
            /\ todo' = [todo EXCEPT ![p] = @ \ {i}]
            /\ IF i \in operating
               THEN UNCHANGED <<rpc, rid, operating>>
               ELSE /\ operating' = operating \cup {i}
                    /\ rid' = [rid EXCEPT ![p] = i]
                    /\ rpc' = [rpc EXCEPT ![p] = "read"]
      BY <2>2
    <3>2. CASE i \in operating
      BY <3>1, <3>2 DEF CreatorId, OneCreator, Unborn, Updates
    <3>3. CASE i \notin operating
      BY <3>1, <3>3 DEF CreatorId, OneCreator, Unborn, Updates
    <3> QED BY <3>2, <3>3
  <2> QED BY <2>1, <2>2
<1>4. MarkHeld'
  <2>1. \A x \in Ids : Dead(x) => Dead(x)'
    BY DEF OneCreator, Dead, Unborn, Updates
  <2> QED BY <2>1 DEF MarkHeld, Strong
<1>5. RemoverExclusion'
  <2>1. CASE todo[p] = {}
    <3>1. rpc' = [rpc EXCEPT ![p] = "idle"] /\ UNCHANGED <<todo, rid, operating, mode>>
      BY <2>1
    <3> QED BY <3>1 DEF RemoverExclusion, MarkHeld, Active, Strong, Dead, Unborn, Updates
  <2>2. CASE todo[p] # {}
    <3>1. PICK i \in todo[p] :
            /\ todo' = [todo EXCEPT ![p] = @ \ {i}]
            /\ IF i \in operating
               THEN UNCHANGED <<rpc, rid, operating>>
               ELSE /\ operating' = operating \cup {i}
                    /\ rid' = [rid EXCEPT ![p] = i]
                    /\ rpc' = [rpc EXCEPT ![p] = "read"]
      BY <2>2
    <3>2. CASE i \in operating
      BY <3>1, <3>2 DEF RemoverExclusion, MarkHeld, Active, Strong, Dead, Unborn, Updates
    <3>3. CASE i \notin operating
      BY <3>1, <3>3 DEF RemoverExclusion, MarkHeld, Active, Strong, Dead, Unborn, Updates
    <3> QED BY <3>2, <3>3
  <2> QED BY <2>1, <2>2
<1>6. CreatorExclusion'
  <2>1. CASE todo[p] = {}
    <3>1. rpc' = [rpc EXCEPT ![p] = "idle"] /\ UNCHANGED <<todo, rid, operating, mode>>
      BY <2>1
    <3> QED BY <3>1 DEF CreatorExclusion, CreatorId, Claims, Active, Strong, Unborn, Updates
  <2>2. CASE todo[p] # {}
    <3>1. PICK i \in todo[p] :
            /\ todo' = [todo EXCEPT ![p] = @ \ {i}]
            /\ IF i \in operating
               THEN UNCHANGED <<rpc, rid, operating>>
               ELSE /\ operating' = operating \cup {i}
                    /\ rid' = [rid EXCEPT ![p] = i]
                    /\ rpc' = [rpc EXCEPT ![p] = "read"]
      BY <2>2
    <3>2. CASE i \in operating
      BY <3>1, <3>2 DEF CreatorExclusion, CreatorId, Claims, Active, Strong, Unborn, Updates
    <3>3. CASE i \notin operating
      BY <3>1, <3>3 DEF CreatorExclusion, CreatorId, Claims, Active, Strong, Unborn, Updates
    <3> QED BY <3>2, <3>3
  <2> QED BY <2>1, <2>2
<1>7. FlagExclusion'
  BY DEF OneCreator, CreatorId, MarkHeld, FlagExclusion, Flags, Updates, Active, Claims
<1>8. CreateData'
  BY DEF CreateData
<1>9. RemoveData'
  BY DEF RemoveData
<1>10. NoOrphan'
  BY DEF NoOrphan, NoOrphanData
<1> QED BY <1>1, <1>2, <1>3, <1>4, <1>5, <1>6, <1>7, <1>8, <1>9, <1>10

LEMMA IInv_ReadForRemove ==
    ASSUME NoReuse, IInv, TypeInv', NEW p \in Proc, ReadForRemove(p)
    PROVE  IInv'
<1> USE LifecycleConstants, NoneIsNoInfo, ZeroIsNoId, NoReuse
     DEF IInv, ReadForRemove, Live, NoReuse, TypeInv, TypeOK, Nesting, Bound, disk, services, locks, create, remove, GoC, GoR, CreatePc, RemovePc, CreateWork, RemoveWork, Wait, Upd, Creating, Claiming
<1>1. OneCreator'
  BY DEF OneCreator
<1>2. Fresh'
  BY DEF Fresh, Strong
<1>3. CreatorId'
  BY DEF CreatorId, Unborn, Updates
<1>4. MarkHeld'
  BY DEF MarkHeld, Strong, Dead, Unborn, Updates
<1>5. RemoverExclusion'
  BY DEF RemoverExclusion, Active, Strong, Dead, Unborn, Updates
<1>6. CreatorExclusion'
  BY DEF CreatorExclusion, Claims, Active, Strong, Unborn, Updates
<1>7. FlagExclusion'
  BY DEF FlagExclusion, Flags, Updates, Active, Claims
<1>8. CreateData'
  BY DEF CreateData
<1>9. RemoveData'
  BY DEF RemoveData
<1>10. NoOrphan'
  BY DEF NoOrphan, NoOrphanData
<1> QED BY <1>1, <1>2, <1>3, <1>4, <1>5, <1>6, <1>7, <1>8, <1>9, <1>10

LEMMA IInv_SetRemoveFlag ==
    ASSUME NoReuse, IInv, TypeInv', NEW p \in Proc, SetRemoveFlag(p)
    PROVE  IInv'
<1> USE LifecycleConstants, NoneIsNoInfo, ZeroIsNoId, NoReuse
     DEF IInv, SetRemoveFlag, NoReuse, TypeInv, TypeOK, Nesting, Bound, disk, services, locks, create, remove, GoC, GoR, CreatePc, RemovePc, CreateWork, RemoveWork, Wait, Upd, Creating, Claiming
<1>1. OneCreator'
  BY DEF OneCreator
<1>2. Fresh'
  BY DEF Fresh, Strong
<1>3. CreatorId'
  BY DEF CreatorId, Unborn, Updates
<1>4. MarkHeld'
  BY DEF MarkHeld, Strong, Dead, Unborn, Updates
<1>5. RemoverExclusion'
  BY DEF RemoverExclusion, Active, Strong, Dead, Unborn, Updates
<1>6. CreatorExclusion'
  BY DEF CreatorExclusion, Claims, Active, Strong, Unborn, Updates
<1>7. FlagExclusion'
  BY DEF FlagExclusion, Flags, Updates, Active, Claims
<1>8. CreateData'
  BY DEF CreateData
<1>9. RemoveData'
  BY DEF RemoveData
<1>10. NoOrphan'
  BY DEF NoOrphan, NoOrphanData
<1> QED BY <1>1, <1>2, <1>3, <1>4, <1>5, <1>6, <1>7, <1>8, <1>9, <1>10

LEMMA IInv_SetRemoveFlagWrite ==
    ASSUME NoReuse, IInv, TypeInv', NEW p \in Proc, SetRemoveFlagWrite(p)
    PROVE  IInv'
<1> USE LifecycleConstants, NoneIsNoInfo, ZeroIsNoId, NoReuse
     DEF IInv, NoReuse, TypeInv, TypeOK, Nesting, Bound, disk, services, locks, create, remove, GoC, GoR, CreatePc, RemovePc, CreateWork, RemoveWork, Wait, Upd, Creating, Claiming
<1>a. /\ snap[p] \in Info /\ rid[p] \in Ids /\ rpc[p] = "flagWrite"
      /\ UNCHANGED <<acctList, nextLocalId, cons, services, operating, locks, cpc,
                     create, remove, crashes>>
  BY DEF SetRemoveFlagWrite
<1>b. PICK r \in Info : info' = info \/ info' = [info EXCEPT ![rid[p]] = r]
  BY <1>a DEF Info, Flagged, SetRemoveFlagWrite
<1>c. PICK c \in {"opTee", "opEnd"} : rpc' = [rpc EXCEPT ![p] = c]
  BY DEF SetRemoveFlagWrite
<1>1. OneCreator'
  BY <1>a, <1>b, <1>c DEF OneCreator
<1>2. Fresh'
  BY <1>a, <1>b, <1>c DEF OneCreator, Fresh, Strong
<1>3. CreatorId'
  BY <1>a, <1>b, <1>c DEF OneCreator, Fresh, CreatorId, MarkHeld, RemoverExclusion, CreatorExclusion, FlagExclusion, Strong, Unborn, Updates, Flags, Active, Claims, Dead
<1>4. MarkHeld'
  BY <1>a, <1>b, <1>c DEF OneCreator, Fresh, CreatorId, MarkHeld, RemoverExclusion, CreatorExclusion, FlagExclusion, Strong, Unborn, Updates, Flags, Active, Claims, Dead
<1>5. RemoverExclusion'
  <2>1. \A q \in Proc : q # p => ~Active(q, rid[p])
    BY <1>a DEF RemoverExclusion, Active, Strong
  <2>2. \A q \in Proc, x \in Ids : Active(q, x)' => Active(q, x)
    BY <1>a, <1>c DEF Active
  <2>3. \A x \in Ids : x # rid[p] /\ Dead(x) => Dead(x)'
    BY <1>a, <1>b DEF Dead, Unborn, Updates
  <2>4. \A q \in Proc : q # p /\ ~Strong(q) => ~Strong(q)'
    BY <1>a, <1>c DEF Strong
  <2>5. \A q \in Proc, x \in Ids : q # p /\ Active(p, x)' => ~Active(q, x)
    BY <1>a, <1>c, <2>1 DEF Active
  <2>6. SUFFICES ASSUME NEW q \in Proc, NEW s \in Proc, NEW x \in Ids,
                        q # s, Active(q, x)', Active(s, x)'
                 PROVE  (Dead(x) /\ ~Strong(q) /\ ~Strong(s))'
    BY DEF RemoverExclusion
  <2>7. q # p /\ s # p
    BY <2>2, <2>5, <2>6
  <2>8. Dead(x) /\ ~Strong(q) /\ ~Strong(s)
    BY <2>2, <2>6 DEF RemoverExclusion
  <2>9. x # rid[p]
    BY <1>a, <2>1, <2>2, <2>6, <2>7
  <2> QED BY <2>3, <2>4, <2>7, <2>8, <2>9
<1>6. CreatorExclusion'
  BY <1>a, <1>b, <1>c DEF OneCreator, Fresh, CreatorId, MarkHeld, RemoverExclusion, CreatorExclusion, FlagExclusion, Strong, Unborn, Updates, Flags, Active, Claims, Dead
<1>7. FlagExclusion'
  BY <1>a, <1>b, <1>c DEF OneCreator, Fresh, CreatorId, MarkHeld, RemoverExclusion, CreatorExclusion, FlagExclusion, Strong, Unborn, Updates, Flags, Active, Claims, Dead
<1>8. CreateData'
  BY <1>a, <1>b, <1>c DEF OneCreator, CreatorId, CreatorExclusion, RemoverExclusion, CreateData, RemoveData, NoOrphan, NoOrphanData, Strong, Active, Claims
<1>9. RemoveData'
  BY <1>a, <1>b, <1>c DEF OneCreator, CreatorId, CreatorExclusion, RemoverExclusion, CreateData, RemoveData, NoOrphan, NoOrphanData, Strong, Active, Claims
<1>10. NoOrphan'
  BY <1>a, <1>b, <1>c DEF OneCreator, CreatorId, CreatorExclusion, RemoverExclusion, CreateData, RemoveData, NoOrphan, NoOrphanData, Strong, Active, Claims
<1> QED BY <1>1, <1>2, <1>3, <1>4, <1>5, <1>6, <1>7, <1>8, <1>9, <1>10

LEMMA IInv_OperateTee ==
    ASSUME NoReuse, IInv, TypeInv', NEW p \in Proc, OperateTee(p)
    PROVE  IInv'
<1> USE LifecycleConstants, NoneIsNoInfo, ZeroIsNoId, NoReuse
     DEF IInv, OperateTee, NoReuse, TypeInv, TypeOK, Nesting, Bound, disk, services, locks, create, remove, GoC, GoR, CreatePc, RemovePc, CreateWork, RemoveWork, Wait, Upd, Creating, Claiming
<1>1. OneCreator'
  BY DEF OneCreator
<1>2. Fresh'
  BY DEF Fresh, Strong
<1>3. CreatorId'
  BY DEF CreatorId, Unborn, Updates
<1>4. MarkHeld'
  BY DEF MarkHeld, Strong, Dead, Unborn, Updates
<1>5. RemoverExclusion'
  BY DEF RemoverExclusion, Active, Strong, Dead, Unborn, Updates
<1>6. CreatorExclusion'
  BY DEF CreatorExclusion, Claims, Active, Strong, Unborn, Updates
<1>7. FlagExclusion'
  BY DEF FlagExclusion, Flags, Updates, Active, Claims
<1>8. CreateData'
  BY DEF CreateData
<1>9. RemoveData'
  BY DEF RemoveData
<1>10. NoOrphan'
  BY DEF NoOrphan, NoOrphanData
<1> QED BY <1>1, <1>2, <1>3, <1>4, <1>5, <1>6, <1>7, <1>8, <1>9, <1>10

LEMMA IInv_PrepareRemoveOsAccount ==
    ASSUME NoReuse, IInv, TypeInv', NEW p \in Proc, PrepareRemoveOsAccount(p)
    PROVE  IInv'
<1> USE LifecycleConstants, NoneIsNoInfo, ZeroIsNoId, NoReuse
     DEF IInv, PrepareRemoveOsAccount, NoReuse, TypeInv, TypeOK, Nesting, Bound, disk, services, locks, create, remove, GoC, GoR, CreatePc, RemovePc, CreateWork, RemoveWork, Wait, Upd, Creating, Claiming
<1>1. OneCreator'
  BY DEF OneCreator
<1>2. Fresh'
  BY DEF Fresh, Strong
<1>3. CreatorId'
  BY DEF CreatorId, Unborn, Updates
<1>4. MarkHeld'
  BY DEF MarkHeld, Strong, Dead, Unborn, Updates
<1>5. RemoverExclusion'
  <2>1. \A x \in Ids : Dead(x) => Dead(x)'
    BY DEF OneCreator, Dead, Unborn, Updates
  <2> QED BY <2>1 DEF RemoverExclusion, Active, Strong
<1>6. CreatorExclusion'
  BY DEF CreatorExclusion, Claims, Active, Strong, Unborn, Updates
<1>7. FlagExclusion'
  BY DEF FlagExclusion, Flags, Updates, Active, Claims
<1>8. CreateData'
  BY DEF CreateData
<1>9. RemoveData'
  BY DEF RemoveData
<1>10. NoOrphan'
  BY DEF NoOrphan, NoOrphanData
<1> QED BY <1>1, <1>2, <1>3, <1>4, <1>5, <1>6, <1>7, <1>8, <1>9, <1>10

LEMMA IInv_OperateBms ==
    ASSUME NoReuse, IInv, TypeInv', NEW p \in Proc, OperateBms(p)
    PROVE  IInv'
<1> USE LifecycleConstants, NoneIsNoInfo, ZeroIsNoId, NoReuse
     DEF IInv, OperateBms, NoReuse, TypeInv, TypeOK, Nesting, Bound, disk, services, locks, create, remove, GoC, GoR, CreatePc, RemovePc, CreateWork, RemoveWork, Wait, Upd, Creating, Claiming
<1>1. OneCreator'
  BY DEF OneCreator
<1>2. Fresh'
  BY DEF Fresh, Strong
<1>3. CreatorId'
  BY DEF CreatorId, Unborn, Updates
<1>4. MarkHeld'
  BY DEF MarkHeld, Strong, Dead, Unborn, Updates
<1>5. RemoverExclusion'
  BY DEF RemoverExclusion, Active, Strong, Dead, Unborn, Updates
<1>6. CreatorExclusion'
  BY DEF CreatorExclusion, Claims, Active, Strong, Unborn, Updates
<1>7. FlagExclusion'
  BY DEF FlagExclusion, Flags, Updates, Active, Claims
<1>8. CreateData'
  BY DEF CreateData
<1>9. RemoveData'
  BY DEF RemoveData
<1>10. NoOrphan'
  BY DEF NoOrphan, NoOrphanData
<1> QED BY <1>1, <1>2, <1>3, <1>4, <1>5, <1>6, <1>7, <1>8, <1>9, <1>10

LEMMA IInv_OperateStorage ==
    ASSUME NoReuse, IInv, TypeInv', NEW p \in Proc, OperateStorage(p)
    PROVE  IInv'
<1> USE LifecycleConstants, NoneIsNoInfo, ZeroIsNoId, NoReuse
     DEF IInv, OperateStorage, NoReuse, TypeInv, TypeOK, Nesting, Bound, disk, services, locks, create, remove, GoC, GoR, CreatePc, RemovePc, CreateWork, RemoveWork, Wait, Upd, Creating, Claiming
<1>1. OneCreator'
  BY DEF OneCreator
<1>2. Fresh'
  BY DEF Fresh, Strong
<1>3. CreatorId'
  BY DEF CreatorId, Unborn, Updates
<1>4. MarkHeld'
  BY DEF MarkHeld, Strong, Dead, Unborn, Updates
<1>5. RemoverExclusion'
  BY DEF RemoverExclusion, Active, Strong, Dead, Unborn, Updates
<1>6. CreatorExclusion'
  BY DEF CreatorExclusion, Claims, Active, Strong, Unborn, Updates
<1>7. FlagExclusion'
  BY DEF FlagExclusion, Flags, Updates, Active, Claims
<1>8. CreateData'
  BY DEF CreateData
<1>9. RemoveData'
  BY DEF RemoveData
<1>10. NoOrphan'
  BY DEF NoOrphan, NoOrphanData
<1> QED BY <1>1, <1>2, <1>3, <1>4, <1>5, <1>6, <1>7, <1>8, <1>9, <1>10

LEMMA IInv_OperateDelInfo ==
    ASSUME NoReuse, IInv, TypeInv', NEW p \in Proc, OperateDelInfo(p)
    PROVE  IInv'
<1> USE LifecycleConstants, NoneIsNoInfo, ZeroIsNoId, NoReuse
     DEF IInv, OperateDelInfo, NoReuse, TypeInv, TypeOK, Nesting, Bound, disk, services, locks, create, remove, GoC, GoR, CreatePc, RemovePc, CreateWork, RemoveWork, Wait, Upd, Creating, Claiming
<1>1. OneCreator'
  BY DEF OneCreator
<1>2. Fresh'
  BY DEF Fresh, Strong
<1>3. CreatorId'
  BY DEF CreatorId, Unborn, Updates
<1>4. MarkHeld'
  BY DEF MarkHeld, Strong, Dead, Unborn, Updates
<1>5. RemoverExclusion'
  BY DEF RemoverExclusion, Active, Strong, Dead, Unborn, Updates
<1>6. CreatorExclusion'
  BY DEF CreatorExclusion, Claims, Active, Strong, Unborn, Updates
<1>7. FlagExclusion'
  BY DEF FlagExclusion, Flags, Updates, Active, Claims
<1>8. CreateData'
  BY DEF CreateData, CreatorExclusion, Claims, Active, Strong
<1>9. RemoveData'
  BY DEF RemoveData
<1>10. NoOrphan'
  BY DEF CreateData, RemoveData, NoOrphan, NoOrphanData
<1> QED BY <1>1, <1>2, <1>3, <1>4, <1>5, <1>6, <1>7, <1>8, <1>9, <1>10

LEMMA IInv_OperateDelList ==
    ASSUME NoReuse, IInv, TypeInv', NEW p \in Proc, OperateDelList(p)
    PROVE  IInv'
<1> USE LifecycleConstants, NoneIsNoInfo, ZeroIsNoId, NoReuse
     DEF IInv, OperateDelList, NoReuse, TypeInv, TypeOK, Nesting, Bound, disk, services, locks, create, remove, GoC, GoR, CreatePc, RemovePc, CreateWork, RemoveWork, Wait, Upd, Creating, Claiming
<1>1. OneCreator'
  BY DEF OneCreator
<1>2. Fresh'
  BY DEF Fresh, Strong
<1>3. CreatorId'
  BY DEF CreatorId, Unborn, Updates
<1>4. MarkHeld'
  BY DEF MarkHeld, Strong, Dead, Unborn, Updates
<1>5. RemoverExclusion'
  BY DEF RemoverExclusion, Active, Strong, Dead, Unborn, Updates
<1>6. CreatorExclusion'
  BY DEF CreatorExclusion, Claims, Active, Strong, Unborn, Updates
<1>7. FlagExclusion'
  BY DEF FlagExclusion, Flags, Updates, Active, Claims
<1>8. CreateData'
  BY DEF CreateData
<1>9. RemoveData'
  BY DEF RemoveData
<1>10. NoOrphan'
  BY DEF NoOrphan, NoOrphanData
<1> QED BY <1>1, <1>2, <1>3, <1>4, <1>5, <1>6, <1>7, <1>8, <1>9, <1>10

LEMMA IInv_OperateConstraints ==
    ASSUME NoReuse, IInv, TypeInv', NEW p \in Proc, OperateConstraints(p)
    PROVE  IInv'
<1> USE LifecycleConstants, NoneIsNoInfo, ZeroIsNoId, NoReuse
     DEF IInv, OperateConstraints, NoReuse, TypeInv, TypeOK, Nesting, Bound, disk, services, locks, create, remove, GoC, GoR, CreatePc, RemovePc, CreateWork, RemoveWork, Wait, Upd, Creating, Claiming
<1>1. OneCreator'
  BY DEF OneCreator
<1>2. Fresh'
  BY DEF Fresh, Strong
<1>3. CreatorId'
  BY DEF CreatorId, Unborn, Updates
<1>4. MarkHeld'
  BY DEF MarkHeld, Strong, Dead, Unborn, Updates
<1>5. RemoverExclusion'
  BY DEF RemoverExclusion, Active, Strong, Dead, Unborn, Updates
<1>6. CreatorExclusion'
  BY DEF CreatorExclusion, Claims, Active, Strong, Unborn, Updates
<1>7. FlagExclusion'
  BY DEF FlagExclusion, Flags, Updates, Active, Claims
<1>8. CreateData'
  BY DEF CreateData
<1>9. RemoveData'
  BY DEF RemoveData
<1>10. NoOrphan'
  BY DEF NoOrphan, NoOrphanData
<1> QED BY <1>1, <1>2, <1>3, <1>4, <1>5, <1>6, <1>7, <1>8, <1>9, <1>10

LEMMA IInv_RemoveReturn ==
    ASSUME NoReuse, IInv, TypeInv', NEW p \in Proc, RemoveReturn(p)
    PROVE  IInv'
<1> USE LifecycleConstants, NoneIsNoInfo, ZeroIsNoId, NoReuse
     DEF IInv, RemoveReturn, NoReuse, TypeInv, TypeOK, Nesting, Bound, disk, services, locks, create, remove, GoC, GoR, CreatePc, RemovePc, CreateWork, RemoveWork, Wait, Upd, Creating, Claiming
<1>1. OneCreator'
  BY DEF OneCreator
<1>2. Fresh'
  BY DEF Fresh, Strong
<1>3. CreatorId'
  BY DEF OneCreator, Fresh, CreatorId, MarkHeld, RemoverExclusion, CreatorExclusion, FlagExclusion, Strong, Unborn, Updates, Flags, Active, Claims, Dead
<1>4. MarkHeld'
  BY DEF OneCreator, Fresh, CreatorId, MarkHeld, RemoverExclusion, CreatorExclusion, FlagExclusion, Strong, Unborn, Updates, Flags, Active, Claims, Dead
<1>5. RemoverExclusion'
  BY DEF RemoverExclusion, Active, Strong, Dead, Unborn, Updates
<1>6. CreatorExclusion'
  BY DEF CreatorExclusion, Claims, Active, Strong, Unborn, Updates
<1>7. FlagExclusion'
  BY DEF FlagExclusion, Flags, Updates, Active, Claims
<1>8. CreateData'
  BY DEF CreateData
<1>9. RemoveData'
  BY DEF RemoveData
<1>10. NoOrphan'
  BY DEF NoOrphan, NoOrphanData
<1> QED BY <1>1, <1>2, <1>3, <1>4, <1>5, <1>6, <1>7, <1>8, <1>9, <1>10

LEMMA IInv_UpdateOsAccount ==
    ASSUME NoReuse, IInv, TypeInv', NEW p \in Proc, UpdateOsAccount(p)
    PROVE  IInv'
<1> USE LifecycleConstants, NoneIsNoInfo, ZeroIsNoId, NoReuse
     DEF IInv, UpdateOsAccount, NoReuse, TypeInv, TypeOK, Nesting, Bound, disk, services, locks, create, remove, GoC, GoR, CreatePc, RemovePc, CreateWork, RemoveWork, Wait, Upd, Creating, Claiming
<1>1. OneCreator'
  BY DEF OneCreator
<1>2. Fresh'
  BY DEF Fresh, Strong
<1>3. CreatorId'
  BY DEF CreatorId, Unborn, Updates
<1>4. MarkHeld'
  BY DEF MarkHeld, Strong, Dead, Unborn, Updates
<1>5. RemoverExclusion'
  BY DEF RemoverExclusion, Active, Strong, Dead, Unborn, Updates
<1>6. CreatorExclusion'
  BY DEF CreatorExclusion, Claims, Active, Strong, Unborn, Updates
<1>7. FlagExclusion'
  BY DEF FlagExclusion, Flags, Updates, Active, Claims
<1>8. CreateData'
  BY DEF CreateData
<1>9. RemoveData'
  BY DEF RemoveData
<1>10. NoOrphan'
  BY DEF NoOrphan, NoOrphanData
<1> QED BY <1>1, <1>2, <1>3, <1>4, <1>5, <1>6, <1>7, <1>8, <1>9, <1>10

LEMMA IInv_UpdateOsAccountWrite ==
    ASSUME NoReuse, IInv, TypeInv', NEW p \in Proc, UpdateOsAccountWrite(p)
    PROVE  IInv'
<1> USE LifecycleConstants, NoneIsNoInfo, ZeroIsNoId, NoReuse
     DEF IInv, UpdateOsAccountWrite, NoReuse, TypeInv, TypeOK, Nesting, Bound, disk, services, locks, create, remove, GoC, GoR, CreatePc, RemovePc, CreateWork, RemoveWork, Wait, Upd, Creating, Claiming
<1>1. OneCreator'
  BY DEF OneCreator
<1>2. Fresh'
  BY DEF Fresh, Strong
<1>3. CreatorId'
  BY DEF CreatorId, Unborn, Updates
<1>4. MarkHeld'
  BY DEF MarkHeld, Strong, Dead, Unborn, Updates
<1>5. RemoverExclusion'
  BY DEF RemoverExclusion, Active, Strong, Dead, Unborn, Updates
<1>6. CreatorExclusion'
  BY DEF CreatorExclusion, Claims, Active, Strong, Unborn, Updates
<1>7. FlagExclusion'
  BY DEF FlagExclusion, Flags, Updates, Active, Claims
<1>8. CreateData'
  BY DEF CreateData
<1>9. RemoveData'
  BY DEF RemoveData
<1>10. NoOrphan'
  BY DEF NoOrphan, NoOrphanData
<1> QED BY <1>1, <1>2, <1>3, <1>4, <1>5, <1>6, <1>7, <1>8, <1>9, <1>10

LEMMA IInv_UpdateReturn ==
    ASSUME NoReuse, IInv, TypeInv', NEW p \in Proc, UpdateReturn(p)
    PROVE  IInv'
<1> USE LifecycleConstants, NoneIsNoInfo, ZeroIsNoId, NoReuse
     DEF IInv, UpdateReturn, NoReuse, TypeInv, TypeOK, Nesting, Bound, disk, services, locks, create, remove, GoC, GoR, CreatePc, RemovePc, CreateWork, RemoveWork, Wait, Upd, Creating, Claiming
<1>1. OneCreator'
  BY DEF OneCreator
<1>2. Fresh'
  BY DEF Fresh, Strong
<1>3. CreatorId'
  BY DEF OneCreator, Fresh, CreatorId, MarkHeld, RemoverExclusion, CreatorExclusion, FlagExclusion, Strong, Unborn, Updates, Flags, Active, Claims, Dead
<1>4. MarkHeld'
  BY DEF OneCreator, Fresh, CreatorId, MarkHeld, RemoverExclusion, CreatorExclusion, FlagExclusion, Strong, Unborn, Updates, Flags, Active, Claims, Dead
<1>5. RemoverExclusion'
  BY DEF RemoverExclusion, Active, Strong, Dead, Unborn, Updates
<1>6. CreatorExclusion'
  BY DEF CreatorExclusion, Claims, Active, Strong, Unborn, Updates
<1>7. FlagExclusion'
  BY DEF FlagExclusion, Flags, Updates, Active, Claims
<1>8. CreateData'
  BY DEF CreateData
<1>9. RemoveData'
  BY DEF RemoveData
<1>10. NoOrphan'
  BY DEF NoOrphan, NoOrphanData
<1> QED BY <1>1, <1>2, <1>3, <1>4, <1>5, <1>6, <1>7, <1>8, <1>9, <1>10

LEMMA IInv_CreateOsAccount ==
    ASSUME NoReuse, IInv, TypeInv', NEW p \in Proc, NEW t \in Types, NEW w \in Ids \cup {0}, CreateOsAccount(p, t, w)
    PROVE  IInv'
<1> USE LifecycleConstants, NoneIsNoInfo, ZeroIsNoId, NoReuse
     DEF IInv, CreateOsAccount, Idle, NoReuse, TypeInv, TypeOK, Nesting, Bound, disk, services, locks, create, remove, GoC, GoR, CreatePc, RemovePc, CreateWork, RemoveWork, Wait, Upd, Creating, Claiming
<1>1. OneCreator'
  BY DEF OneCreator
<1>2. Fresh'
  BY DEF Fresh, Strong
<1>3. CreatorId'
  BY DEF CreatorId, Unborn, Updates
<1>4. MarkHeld'
  BY DEF MarkHeld, Strong, Dead, Unborn, Updates
<1>5. RemoverExclusion'
  BY DEF RemoverExclusion, Active, Strong, Dead, Unborn, Updates
<1>6. CreatorExclusion'
  BY DEF CreatorExclusion, Claims, Active, Strong, Unborn, Updates
<1>7. FlagExclusion'
  BY DEF FlagExclusion, Flags, Updates, Active, Claims
<1>8. CreateData'
  BY DEF CreateData
<1>9. RemoveData'
  BY DEF RemoveData
<1>10. NoOrphan'
  BY DEF NoOrphan, NoOrphanData
<1> QED BY <1>1, <1>2, <1>3, <1>4, <1>5, <1>6, <1>7, <1>8, <1>9, <1>10

LEMMA IInv_BindDomainAccount ==
    ASSUME NoReuse, IInv, TypeInv', NEW p \in Proc, NEW t \in Types,
       NEW w \in Ids \cup {0}, BindDomainAccount(p, t, w)
    PROVE  IInv'
<1> USE LifecycleConstants, NoneIsNoInfo, ZeroIsNoId, NoReuse
     DEF IInv, BindDomainAccount, Idle, NoReuse, TypeInv, TypeOK, Nesting, Bound, disk, services, locks, create, remove, GoC, GoR, CreatePc, RemovePc, CreateWork, RemoveWork, Wait, Upd, Creating, Claiming
<1>1. OneCreator'
  BY DEF OneCreator
<1>2. Fresh'
  BY DEF Fresh, Strong
<1>3. CreatorId'
  BY DEF CreatorId, Unborn, Updates
<1>4. MarkHeld'
  BY DEF MarkHeld, Strong, Dead, Unborn, Updates
<1>5. RemoverExclusion'
  BY DEF RemoverExclusion, Active, Strong, Dead, Unborn, Updates
<1>6. CreatorExclusion'
  BY DEF CreatorExclusion, Claims, Active, Strong, Unborn, Updates
<1>7. FlagExclusion'
  BY DEF FlagExclusion, Flags, Updates, Active, Claims
<1>8. CreateData'
  BY DEF CreateData
<1>9. RemoveData'
  BY DEF RemoveData
<1>10. NoOrphan'
  BY DEF NoOrphan, NoOrphanData
<1> QED BY <1>1, <1>2, <1>3, <1>4, <1>5, <1>6, <1>7, <1>8, <1>9, <1>10

LEMMA IInv_RemoveOsAccount ==
    ASSUME NoReuse, IInv, TypeInv', NEW p \in Proc, NEW i \in Ids, RemoveOsAccount(p, i)
    PROVE  IInv'
<1> USE LifecycleConstants, NoneIsNoInfo, ZeroIsNoId, NoReuse
     DEF IInv, RemoveOsAccount, Idle, NoReuse, TypeInv, TypeOK, Nesting, Bound, disk, services, locks, create, remove, GoC, GoR, CreatePc, RemovePc, CreateWork, RemoveWork, Wait, Upd, Creating, Claiming
<1>1. OneCreator'
  BY DEF OneCreator
<1>2. Fresh'
  BY DEF Fresh, Strong
<1>3. CreatorId'
  BY DEF CreatorId, Unborn, Updates
<1>4. MarkHeld'
  BY DEF MarkHeld, Strong, Dead, Unborn, Updates
<1>5. RemoverExclusion'
  BY DEF OneCreator, MarkHeld, RemoverExclusion, Active, Strong, Dead, Unborn, Updates
<1>6. CreatorExclusion'
  <2>2. \A x \in Ids : Unborn(x) => Unborn(x)'
    BY DEF OneCreator, Unborn, Updates
  <2> QED BY <2>2 DEF OneCreator, CreatorExclusion, CreatorId, Claims, Active, Strong
<1>7. FlagExclusion'
  BY DEF OneCreator, CreatorId, MarkHeld, FlagExclusion, Flags, Updates, Active, Claims
<1>8. CreateData'
  BY DEF CreateData
<1>9. RemoveData'
  BY DEF RemoveData
<1>10. NoOrphan'
  BY DEF NoOrphan, NoOrphanData
<1> QED BY <1>1, <1>2, <1>3, <1>4, <1>5, <1>6, <1>7, <1>8, <1>9, <1>10

LEMMA IInv_SetOsAccountInfo ==
    ASSUME NoReuse, IInv, TypeInv', NEW p \in Proc, NEW i \in Ids, SetOsAccountInfo(p, i)
    PROVE  IInv'
<1> USE LifecycleConstants, NoneIsNoInfo, ZeroIsNoId, NoReuse
     DEF IInv, SetOsAccountInfo, Idle, NoReuse, TypeInv, TypeOK, Nesting, Bound, disk, services, locks, create, remove, GoC, GoR, CreatePc, RemovePc, CreateWork, RemoveWork, Wait, Upd, Creating, Claiming
<1>1. OneCreator'
  BY DEF OneCreator
<1>2. Fresh'
  BY DEF Fresh, Strong
<1>3. CreatorId'
  BY DEF CreatorId, Unborn, Updates
<1>4. MarkHeld'
  BY DEF MarkHeld, Strong, Dead, Unborn, Updates
<1>5. RemoverExclusion'
  BY DEF RemoverExclusion, Active, Strong, Dead, Unborn, Updates
<1>6. CreatorExclusion'
  BY DEF CreatorExclusion, Claims, Active, Strong, Unborn, Updates
<1>7. FlagExclusion'
  BY DEF FlagExclusion, Flags, Updates, Active, Claims
<1>8. CreateData'
  BY DEF CreateData
<1>9. RemoveData'
  BY DEF RemoveData
<1>10. NoOrphan'
  BY DEF NoOrphan, NoOrphanData
<1> QED BY <1>1, <1>2, <1>3, <1>4, <1>5, <1>6, <1>7, <1>8, <1>9, <1>10

LEMMA IInv_ActivateOsAccount ==
    ASSUME NoReuse, IInv, TypeInv', NEW p \in Proc, NEW i \in Ids, ActivateOsAccount(p, i)
    PROVE  IInv'
<1> USE LifecycleConstants, NoneIsNoInfo, ZeroIsNoId, NoReuse
     DEF IInv, ActivateOsAccount, Idle, NoReuse, TypeInv, TypeOK, Nesting, Bound, disk, services, locks, create, remove, GoC, GoR, CreatePc, RemovePc, CreateWork, RemoveWork, Wait, Upd, Creating, Claiming
<1>1. OneCreator'
  BY DEF OneCreator
<1>2. Fresh'
  BY DEF Fresh, Strong
<1>3. CreatorId'
  BY DEF CreatorId, Unborn, Updates
<1>4. MarkHeld'
  BY DEF MarkHeld, Strong, Dead, Unborn, Updates
<1>5. RemoverExclusion'
  BY DEF OneCreator, MarkHeld, RemoverExclusion, Active, Strong, Dead, Unborn, Updates
<1>6. CreatorExclusion'
  <2>2. \A x \in Ids : Unborn(x) => Unborn(x)'
    BY DEF OneCreator, Unborn, Updates
  <2> QED BY <2>2 DEF OneCreator, CreatorExclusion, CreatorId, Claims, Active, Strong
<1>7. FlagExclusion'
  BY DEF OneCreator, CreatorId, MarkHeld, FlagExclusion, Flags, Updates, Active, Claims
<1>8. CreateData'
  BY DEF CreateData
<1>9. RemoveData'
  BY DEF RemoveData
<1>10. NoOrphan'
  BY DEF NoOrphan, NoOrphanData
<1> QED BY <1>1, <1>2, <1>3, <1>4, <1>5, <1>6, <1>7, <1>8, <1>9, <1>10

LEMMA IInv_SetOsAccountToBeRemoved ==
    ASSUME NoReuse, IInv, TypeInv', NEW p \in Proc, NEW i \in Ids, NEW b \in BOOLEAN, SetOsAccountToBeRemoved(p, i, b)
    PROVE  IInv'
<1> USE LifecycleConstants, NoneIsNoInfo, ZeroIsNoId, NoReuse
     DEF IInv, SetOsAccountToBeRemoved, Idle, NoReuse, TypeInv, TypeOK, Nesting, Bound, disk, services, locks, create, remove, GoC, GoR, CreatePc, RemovePc, CreateWork, RemoveWork, Wait, Upd, Creating, Claiming
<1>1. OneCreator'
  BY DEF OneCreator
<1>2. Fresh'
  BY DEF Fresh, Strong
<1>3. CreatorId'
  BY DEF CreatorId, Unborn, Updates
<1>4. MarkHeld'
  BY DEF MarkHeld, Strong, Dead, Unborn, Updates
<1>5. RemoverExclusion'
  BY DEF RemoverExclusion, Active, Strong, Dead, Unborn, Updates
<1>6. CreatorExclusion'
  BY DEF CreatorExclusion, Claims, Active, Strong, Unborn, Updates
<1>7. FlagExclusion'
  BY DEF OneCreator, Fresh, CreatorId, MarkHeld, RemoverExclusion, CreatorExclusion, FlagExclusion, Strong, Unborn, Updates, Flags, Active, Claims, Dead
<1>8. CreateData'
  BY DEF CreateData
<1>9. RemoveData'
  BY DEF RemoveData
<1>10. NoOrphan'
  BY DEF NoOrphan, NoOrphanData
<1> QED BY <1>1, <1>2, <1>3, <1>4, <1>5, <1>6, <1>7, <1>8, <1>9, <1>10

LEMMA IInv_CleanGarbageOsAccounts ==
    ASSUME NoReuse, IInv, TypeInv', NEW p \in Proc, CleanGarbageOsAccounts(p)
    PROVE  IInv'
<1> USE LifecycleConstants, NoneIsNoInfo, ZeroIsNoId, NoReuse
     DEF IInv, CleanGarbageOsAccounts, StartClean, Idle, NoReuse, TypeInv, TypeOK, Nesting, Bound, disk, services, locks, create, remove, GoC, GoR, CreatePc, RemovePc, CreateWork, RemoveWork, Wait, Upd, Creating, Claiming
<1>1. OneCreator'
  BY DEF OneCreator
<1>2. Fresh'
  BY DEF Fresh, Strong
<1>3. CreatorId'
  BY DEF CreatorId, Unborn, Updates
<1>4. MarkHeld'
  BY DEF MarkHeld, Strong, Dead, Unborn, Updates
<1>5. RemoverExclusion'
  BY DEF RemoverExclusion, Active, Strong, Dead, Unborn, Updates
<1>6. CreatorExclusion'
  <2>2. \A x \in Ids : Unborn(x) => Unborn(x)'
    BY DEF OneCreator, Unborn, Updates
  <2> QED BY <2>2 DEF OneCreator, CreatorExclusion, Claims, Active, Strong
<1>7. FlagExclusion'
  BY DEF FlagExclusion, Flags, Updates, Active, Claims
<1>8. CreateData'
  BY DEF CreateData
<1>9. RemoveData'
  BY DEF RemoveData
<1>10. NoOrphan'
  BY DEF NoOrphan, NoOrphanData
<1> QED BY <1>1, <1>2, <1>3, <1>4, <1>5, <1>6, <1>7, <1>8, <1>9, <1>10

LEMMA IInvStep == ASSUME NoReuse PROVE IInv /\ [Next]_vars => IInv'
<1> SUFFICES ASSUME IInv, [Next]_vars PROVE IInv'
  OBVIOUS
<1>t. TypeInv'
  BY TypeStep DEF IInv
<1>u. CASE UNCHANGED vars
  BY <1>t, <1>u DEF vars, disk, services, locks, create, remove, IInv, OneCreator, Fresh, CreatorId,
     MarkHeld, RemoverExclusion, CreatorExclusion, FlagExclusion, CreateData, RemoveData,
     NoOrphan, NoOrphanData, Strong, Unborn, Updates, Flags, Active, Claims, Dead
<1>c. CASE Crash
  <2>1. OneCreator' /\ CreatorId' /\ MarkHeld' /\ RemoverExclusion' /\ CreatorExclusion'
        /\ FlagExclusion' /\ CreateData' /\ RemoveData'
    BY <1>c DEF Crash, OneCreator, CreatorId, MarkHeld, RemoverExclusion, CreatorExclusion,
       FlagExclusion, CreateData, RemoveData, Creating, CreateWork, RemoveWork, Upd, Strong,
       Updates, Flags, Active, Claims, Claiming
  <2>2. Fresh' /\ NoOrphan'
    BY <1>c, ZeroIsNoId DEF Crash, IInv, Fresh, NoOrphan, NoOrphanData, Strong, RemoveWork, disk, services
  <2> QED BY <1>t, <2>1, <2>2 DEF IInv
<1>s. ASSUME NEW p \in Proc, Step(p) PROVE IInv'
  <2>1. CASE CreateStep(p)
    BY <1>t, <2>1, IInv_CheckAndCleanOsAccounts, IInv_CheckAndCleanDone, IInv_GetAllowCreateId,
       IInv_AssignSpecifiedLocalId, IInv_AssignSpecifiedLocalIdDone,
       IInv_ValidateOsAccount, IInv_MarkCreating, IInv_InsertOsAccount,
       IInv_InsertOsAccountInfo, IInv_UpdateBaseOAConstraints,
       IInv_BindDomainAccountReturn, IInv_HandleCreateOsAccountToken,
       IInv_InsertOsAccountTypeRetry, IInv_SendToStorageAccountCreate,
       IInv_PrepareAddUserRetry,
       IInv_SendToBMSAccountCreate, IInv_FinalizeAccountCreate,
       IInv_FinalizeAccountCreateWrite, IInv_RollbackTee, IInv_RollbackBms,
       IInv_RollbackStorage, IInv_HandleUnbindDomainAccountFailed, IInv_RollbackDelInfo,
       IInv_RollbackDelList, IInv_CreateReturn DEF CreateStep
  <2>2. CASE RemoveStep(p)
    BY <1>t, <2>2, IInv_CleanNext, IInv_ReadForRemove, IInv_SetRemoveFlag, IInv_SetRemoveFlagWrite,
       IInv_OperateTee, IInv_PrepareRemoveOsAccount, IInv_OperateBms, IInv_OperateStorage,
       IInv_OperateDelInfo, IInv_OperateDelList, IInv_OperateConstraints,
       IInv_RemoveReturn DEF RemoveStep
  <2>3. CASE UpdateStep(p)
    BY <1>t, <2>3, IInv_UpdateOsAccount, IInv_UpdateOsAccountWrite, IInv_UpdateReturn DEF UpdateStep
  <2> QED BY <1>s, <2>1, <2>2, <2>3 DEF Step
<1>k. ASSUME NEW p \in Proc, Call(p) PROVE IInv'
  BY <1>t, <1>k, IInv_CreateOsAccount, IInv_BindDomainAccount, IInv_RemoveOsAccount,
     IInv_SetOsAccountInfo, IInv_ActivateOsAccount, IInv_SetOsAccountToBeRemoved,
     IInv_CleanGarbageOsAccounts DEF Call
<1> QED BY <1>u, <1>c, <1>s, <1>k DEF Next

\* As long as ids are not reused, domain accounts are not bound and the answers
\* of the services arrive, data never outlives its record: any number of
\* threads, any other faults and crashes in any of the steps of creation,
\* rollback, removal and garbage collection.
THEOREM DataNeverOrphaned == ASSUME NoReuse, Answered PROVE Spec => []NoOrphanData
<1>1. Init => IInv
  BY IInvInit
<1>2. IInv /\ [Next]_vars => IInv'
  BY IInvStep
<1>3. IInv => NoOrphanData
  BY DEF IInv, NoOrphan
<1> QED BY <1>1, <1>2, <1>3, PTL DEF Spec

\* Under the same hypothesis operatingId_ does its job although CreateOsAccount
\* may take away a mark it does not own: no id is worked on by two threads.
THEOREM OperationsExclusive == ASSUME NoReuse PROVE Spec => []ExclusiveOperation
<1>1. Init => IInv
  BY IInvInit
<1>2. IInv /\ [Next]_vars => IInv'
  BY IInvStep
<1>3. IInv => ExclusiveOperation
  <2> SUFFICES ASSUME IInv, NEW p \in Proc, NEW q \in Proc, p # q, NEW x \in Ids,
                      x \in Works(p), x \in Works(q)
               PROVE  FALSE
    BY DEF ExclusiveOperation, Works
  <2> USE DEF IInv, Works, Claims, Claiming, Active, Strong
  <2>1. CASE cid[p] = x /\ cpc[p] \in CreateWork /\ cid[q] = x /\ cpc[q] \in CreateWork
    BY <2>1 DEF OneCreator, Creating
  <2>2. CASE cid[p] = x /\ cpc[p] \in CreateWork /\ rid[q] = x /\ rpc[q] \in RemoveWork
    BY <2>2 DEF CreatorExclusion, CreateWork, RemoveWork
  <2>3. CASE rid[p] = x /\ rpc[p] \in RemoveWork /\ cid[q] = x /\ cpc[q] \in CreateWork
    BY <2>3 DEF CreatorExclusion, CreateWork, RemoveWork
  <2>4. CASE rid[p] = x /\ rpc[p] \in RemoveWork /\ rid[q] = x /\ rpc[q] \in RemoveWork
    BY <2>4 DEF RemoverExclusion, RemoveWork
  <2> QED BY <2>1, <2>2, <2>3, <2>4
<1> QED BY <1>1, <1>2, <1>3, PTL DEF Spec

-----------------------------------------------------------------------------
(***************************************************************************)
(* Who gives a mark or a lock back.                                        *)
(***************************************************************************)

\* From here to there a creation holds its mark; that of a domain account gives
\* it up at "bound", or at "end" if it still has its mutex.
MarkedPc == (CreateWork \ {"bindUpd", "bindWrite", "unbind"}) \cup {"end"}

\* Thread p will take the mark of x away.
Marked(p, x) == \/ Active(p, x)
                \/ Flags(p, x)
                \/ /\ cid[p] = x /\ cpc[p] \in MarkedPc
                   /\ call[p] = "create" \/ bindMutex = p

BindPc == {"fill", "assignWait", "check", "mark", "insert", "insInfo", "cons", "bound",
           "bindUpd", "bindWrite", "end"}

\* Every mark has a thread that will take it away ...
MarkOwned == \A x \in operating : \E p \in Proc : Marked(p, x)

\* ... and every mutex a thread that is inside the code it guards.
LockOwned ==
    \A p \in Proc :
        /\ createMutex = p => cpc[p] \notin Upd \cup {"idle"}
        /\ bindMutex = p => cpc[p] \in BindPc /\ call[p] = "bind"
        /\ cpc[p] \in {"bound", "bindUpd", "bindWrite"} => bindMutex = p
        /\ fileLock = p =>
              cpc[p] \in {"insInfo", "rbDelList"} \/ rpc[p] = "opDelList"
        /\ cpc[p] \in {"cap", "capWait"} => call[p] = "create"
        /\ cpc[p] \in BindPc \ {"end"} => call[p] = "create" \/ bindMutex = p

HeldInv == MarkOwned /\ LockOwned

LEMMA HeldInit == Init => HeldInv
BY LifecycleConstants DEF Init, HeldInv, MarkOwned, LockOwned, Upd, BindPc

LEMMA HeldStep == TypeInv /\ HeldInv /\ [Next]_vars => HeldInv'
<1> SUFFICES ASSUME TypeInv, HeldInv, [Next]_vars PROVE HeldInv'
  OBVIOUS
<1> DEFINE Stays == \A q \in Proc : \A x \in operating' : Marked(q, x) => Marked(q, x)'
           New(p) == \A x \in operating' \ operating : Marked(p, x)'
<1> USE LifecycleConstants
    DEF HeldInv, TypeInv, TypeOK, Nesting, LockOwned, disk, services, locks, create, remove, GoC, GoR,
        CreatePc, RemovePc, CreateWork, Wait, Upd, MarkedPc, BindPc
<1>u. CASE UNCHANGED vars
  <2>1. Stays /\ operating' = operating /\ LockOwned'
    BY <1>u DEF vars, HeldInv, Marked, Active, Flags, Updates
  <2> QED BY <2>1 DEF HeldInv, MarkOwned
<1>c. CASE Crash
  BY <1>c DEF Crash, HeldInv, MarkOwned
<1>1. ASSUME NEW p \in Proc, CheckAndCleanOsAccounts(p)
      PROVE  Stays /\ New(p) /\ LockOwned'
  BY <1>1 DEF CheckAndCleanOsAccounts, StartClean, Marked, Active, Flags, Updates
<1>2. ASSUME NEW p \in Proc, CheckAndCleanDone(p)
      PROVE  Stays /\ New(p) /\ LockOwned'
  BY <1>2 DEF CheckAndCleanDone, Marked, Active, Flags, Updates
<1>3. ASSUME NEW p \in Proc, GetAllowCreateId(p)
      PROVE  Stays /\ New(p) /\ LockOwned'
  BY <1>3 DEF GetAllowCreateId, Marked, Active, Flags, Updates
<1>4. ASSUME NEW p \in Proc, AssignSpecifiedLocalId(p)
      PROVE  Stays /\ New(p) /\ LockOwned'
  BY <1>4 DEF AssignSpecifiedLocalId, StartClean, Live, Marked, Active, Flags, Updates
<1>5. ASSUME NEW p \in Proc, AssignSpecifiedLocalIdDone(p)
      PROVE  Stays /\ New(p) /\ LockOwned'
  BY <1>5 DEF AssignSpecifiedLocalIdDone, Marked, Active, Flags, Updates
<1>6. ASSUME NEW p \in Proc, ValidateOsAccount(p)
      PROVE  Stays /\ New(p) /\ LockOwned'
  BY <1>6 DEF ValidateOsAccount, Marked, Active, Flags, Updates
<1>7. ASSUME NEW p \in Proc, MarkCreating(p)
      PROVE  Stays /\ New(p) /\ LockOwned'
  BY <1>7 DEF MarkCreating, Marked, Active, Flags, Updates
<1>8. ASSUME NEW p \in Proc, InsertOsAccount(p)
      PROVE  Stays /\ New(p) /\ LockOwned'
  BY <1>8 DEF InsertOsAccount, Marked, Active, Flags, Updates
<1>9. ASSUME NEW p \in Proc, InsertOsAccountInfo(p)
      PROVE  Stays /\ New(p) /\ LockOwned'
  BY <1>9 DEF InsertOsAccountInfo, Marked, Active, Flags, Updates
<1>10. ASSUME NEW p \in Proc, UpdateBaseOAConstraints(p)
      PROVE  Stays /\ New(p) /\ LockOwned'
  BY <1>10 DEF UpdateBaseOAConstraints, Marked, Active, Flags, Updates
<1>11. ASSUME NEW p \in Proc, BindDomainAccountUnmark(p)
      PROVE  Stays /\ New(p) /\ LockOwned'
  BY <1>11 DEF BindDomainAccountUnmark, Marked, Active, Flags, Updates
<1>12. ASSUME NEW p \in Proc, BindDomainAccountUpdate(p)
      PROVE  Stays /\ New(p) /\ LockOwned'
  BY <1>12 DEF BindDomainAccountUpdate, Marked, Active, Flags, Updates
<1>13. ASSUME NEW p \in Proc, BindDomainAccountReturn(p)
      PROVE  Stays /\ New(p) /\ LockOwned'
  BY <1>13 DEF BindDomainAccountReturn, Marked, Active, Flags, Updates
<1>14. ASSUME NEW p \in Proc, HandleCreateOsAccountToken(p)
      PROVE  Stays /\ New(p) /\ LockOwned'
  BY <1>14 DEF HandleCreateOsAccountToken, StartClean, Marked, Active, Flags, Updates
<1>15. ASSUME NEW p \in Proc, InsertOsAccountTypeRetry(p)
      PROVE  Stays /\ New(p) /\ LockOwned'
  BY <1>15 DEF InsertOsAccountTypeRetry, Marked, Active, Flags, Updates
<1>16. ASSUME NEW p \in Proc, SendToStorageAccountCreate(p)
      PROVE  Stays /\ New(p) /\ LockOwned'
  BY <1>16 DEF SendToStorageAccountCreate, Refused, StartClean, Marked, Active, Flags, Updates
<1>17. ASSUME NEW p \in Proc, PrepareAddUserRetry(p)
      PROVE  Stays /\ New(p) /\ LockOwned'
  BY <1>17 DEF PrepareAddUserRetry, Refused, Marked, Active, Flags, Updates
<1>18. ASSUME NEW p \in Proc, SendToBMSAccountCreate(p)
      PROVE  Stays /\ New(p) /\ LockOwned'
  BY <1>18 DEF SendToBMSAccountCreate, Refused, Marked, Active, Flags, Updates
<1>19. ASSUME NEW p \in Proc, FinalizeAccountCreate(p)
      PROVE  Stays /\ New(p) /\ LockOwned'
  BY <1>19 DEF FinalizeAccountCreate, Marked, Active, Flags, Updates
<1>20. ASSUME NEW p \in Proc, FinalizeAccountCreateWrite(p)
      PROVE  Stays /\ New(p) /\ LockOwned'
  BY <1>20 DEF FinalizeAccountCreateWrite, Marked, Active, Flags, Updates
<1>21. ASSUME NEW p \in Proc, RollbackTee(p)
      PROVE  Stays /\ New(p) /\ LockOwned'
  BY <1>21 DEF RollbackTee, RollbackNext, RollbackFails, Marked, Active, Flags, Updates
<1>22. ASSUME NEW p \in Proc, RollbackBms(p)
      PROVE  Stays /\ New(p) /\ LockOwned'
  BY <1>22 DEF RollbackBms, RollbackNext, RollbackFails, Marked, Active, Flags, Updates
<1>23. ASSUME NEW p \in Proc, RollbackStorage(p)
      PROVE  Stays /\ New(p) /\ LockOwned'
  BY <1>23 DEF RollbackStorage, RollbackNext, RollbackFails, Marked, Active, Flags, Updates
<1>24. ASSUME NEW p \in Proc, HandleUnbindDomainAccountFailed(p)
      PROVE  Stays /\ New(p) /\ LockOwned'
  BY <1>24 DEF HandleUnbindDomainAccountFailed, Marked, Active, Flags, Updates
<1>25. ASSUME NEW p \in Proc, RollbackDelInfo(p)
      PROVE  Stays /\ New(p) /\ LockOwned'
  BY <1>25 DEF RollbackDelInfo, Marked, Active, Flags, Updates
<1>26. ASSUME NEW p \in Proc, RollbackDelList(p)
      PROVE  Stays /\ New(p) /\ LockOwned'
  BY <1>26 DEF RollbackDelList, Marked, Active, Flags, Updates
<1>27. ASSUME NEW p \in Proc, CreateReturn(p)
      PROVE  Stays /\ New(p) /\ LockOwned'
  BY <1>27 DEF CreateReturn, Marked, Active, Flags, Updates
<1>28. ASSUME NEW p \in Proc, CleanNext(p)
      PROVE  Stays /\ New(p) /\ LockOwned'
  BY <1>28 DEF CleanNext, Marked, Active, Flags, Updates
<1>29. ASSUME NEW p \in Proc, ReadForRemove(p)
      PROVE  Stays /\ New(p) /\ LockOwned'
  BY <1>29 DEF ReadForRemove, Marked, Active, Flags, Updates
<1>30. ASSUME NEW p \in Proc, SetRemoveFlag(p)
      PROVE  Stays /\ New(p) /\ LockOwned'
  BY <1>30 DEF SetRemoveFlag, Marked, Active, Flags, Updates
<1>31. ASSUME NEW p \in Proc, SetRemoveFlagWrite(p)
      PROVE  Stays /\ New(p) /\ LockOwned'
  <2>1. /\ rpc[p] = "flagWrite"
        /\ \E c \in {"opTee", "opEnd"} : rpc' = [rpc EXCEPT ![p] = c]
        /\ UNCHANGED <<operating, locks, cpc, create, rid>>
    BY <1>31 DEF SetRemoveFlagWrite
  <2>2. Stays
    BY <2>1 DEF Marked, Active, Flags, Updates
  <2>3. New(p) /\ LockOwned'
    BY <2>1
  <2> QED BY <2>2, <2>3
<1>32. ASSUME NEW p \in Proc, OperateTee(p)
      PROVE  Stays /\ New(p) /\ LockOwned'
  BY <1>32 DEF OperateTee, Marked, Active, Flags, Updates
<1>33. ASSUME NEW p \in Proc, PrepareRemoveOsAccount(p)
      PROVE  Stays /\ New(p) /\ LockOwned'
  BY <1>33 DEF PrepareRemoveOsAccount, Marked, Active, Flags, Updates
<1>34. ASSUME NEW p \in Proc, OperateBms(p)
      PROVE  Stays /\ New(p) /\ LockOwned'
  BY <1>34 DEF OperateBms, Marked, Active, Flags, Updates
<1>35. ASSUME NEW p \in Proc, OperateStorage(p)
      PROVE  Stays /\ New(p) /\ LockOwned'
  BY <1>35 DEF OperateStorage, Marked, Active, Flags, Updates
<1>36. ASSUME NEW p \in Proc, OperateDelInfo(p)
      PROVE  Stays /\ New(p) /\ LockOwned'
  BY <1>36 DEF OperateDelInfo, Marked, Active, Flags, Updates
<1>37. ASSUME NEW p \in Proc, OperateDelList(p)
      PROVE  Stays /\ New(p) /\ LockOwned'
  BY <1>37 DEF OperateDelList, Marked, Active, Flags, Updates
<1>38. ASSUME NEW p \in Proc, OperateConstraints(p)
      PROVE  Stays /\ New(p) /\ LockOwned'
  BY <1>38 DEF OperateConstraints, Marked, Active, Flags, Updates
<1>39. ASSUME NEW p \in Proc, RemoveReturn(p)
      PROVE  Stays /\ New(p) /\ LockOwned'
  BY <1>39 DEF RemoveReturn, Marked, Active, Flags, Updates
<1>40. ASSUME NEW p \in Proc, UpdateOsAccount(p)
      PROVE  Stays /\ New(p) /\ LockOwned'
  BY <1>40 DEF UpdateOsAccount, Marked, Active, Flags, Updates
<1>41. ASSUME NEW p \in Proc, UpdateOsAccountWrite(p)
      PROVE  Stays /\ New(p) /\ LockOwned'
  BY <1>41 DEF UpdateOsAccountWrite, Marked, Active, Flags, Updates
<1>42. ASSUME NEW p \in Proc, UpdateReturn(p)
      PROVE  Stays /\ New(p) /\ LockOwned'
  BY <1>42 DEF UpdateReturn, Marked, Active, Flags, Updates
<1>43. ASSUME NEW p \in Proc, NEW t \in Types, NEW w \in Ids \cup {0}, CreateOsAccount(p, t, w)
      PROVE  Stays /\ New(p) /\ LockOwned'
  BY <1>43 DEF CreateOsAccount, Idle, Marked, Active, Flags, Updates
<1>44. ASSUME NEW p \in Proc, NEW t \in Types, NEW w \in Ids \cup {0}, BindDomainAccount(p, t, w)
      PROVE  Stays /\ New(p) /\ LockOwned'
  BY <1>44 DEF BindDomainAccount, Idle, Marked, Active, Flags, Updates
<1>45. ASSUME NEW p \in Proc, NEW i \in Ids, RemoveOsAccount(p, i)
      PROVE  Stays /\ New(p) /\ LockOwned'
  BY <1>45 DEF RemoveOsAccount, Idle, Marked, Active, Flags, Updates
<1>46. ASSUME NEW p \in Proc, NEW i \in Ids, SetOsAccountInfo(p, i)
      PROVE  Stays /\ New(p) /\ LockOwned'
  BY <1>46 DEF SetOsAccountInfo, Idle, Marked, Active, Flags, Updates
<1>47. ASSUME NEW p \in Proc, NEW i \in Ids, ActivateOsAccount(p, i)
      PROVE  Stays /\ New(p) /\ LockOwned'
  BY <1>47 DEF ActivateOsAccount, Idle, Marked, Active, Flags, Updates
<1>48. ASSUME NEW p \in Proc, NEW i \in Ids, NEW b \in BOOLEAN, SetOsAccountToBeRemoved(p, i, b)
      PROVE  Stays /\ New(p) /\ LockOwned'
  BY <1>48 DEF SetOsAccountToBeRemoved, Idle, Marked, Active, Flags, Updates
<1>49. ASSUME NEW p \in Proc, CleanGarbageOsAccounts(p)
      PROVE  Stays /\ New(p) /\ LockOwned'
  BY <1>49 DEF CleanGarbageOsAccounts, StartClean, Idle, Marked, Active, Flags, Updates
<1> HIDE DEF LockOwned, TypeInv, TypeOK, Nesting
<1>s. ASSUME NEW p \in Proc, Step(p)
      PROVE  Stays /\ New(p) /\ LockOwned'
  <2>1. CASE CreateStep(p)
    BY <2>1, <1>1, <1>2, <1>3, <1>4, <1>5, <1>6, <1>7, <1>8, <1>9, <1>10, <1>11, <1>12,
       <1>13, <1>14, <1>15, <1>16, <1>17, <1>18, <1>19, <1>20, <1>21, <1>22, <1>23,
       <1>24, <1>25, <1>26, <1>27 DEF CreateStep
  <2>2. CASE RemoveStep(p)
    BY <2>2, <1>28, <1>29, <1>30, <1>31, <1>32, <1>33, <1>34, <1>35, <1>36, <1>37,
       <1>38, <1>39 DEF RemoveStep
  <2>3. CASE UpdateStep(p)
    BY <2>3, <1>40, <1>41, <1>42 DEF UpdateStep
  <2> QED BY <1>s, <2>1, <2>2, <2>3 DEF Step
<1>k. ASSUME NEW p \in Proc, Call(p)
      PROVE  Stays /\ New(p) /\ LockOwned'
  BY <1>k, <1>43, <1>44, <1>45, <1>46, <1>47, <1>48, <1>49 DEF Call
<1>m. ASSUME NEW p \in Proc, Stays, New(p)
      PROVE  MarkOwned'
  BY <1>m DEF HeldInv, MarkOwned
<1> QED
  <2>1. ASSUME NEW p \in Proc, Step(p) \/ Call(p) PROVE HeldInv'
    BY <2>1, <1>s, <1>k, <1>m DEF HeldInv
  <2> QED BY <2>1, <1>u, <1>c DEF Next

\* Whichever of their many returns the handlers take, after whatever error: when no
\* handler is running no id is marked and no mutex held.  This holds for every call,
\* chosen and reused ids and domain accounts included, although CreateOsAccount takes
\* marks away that it does not own.
THEOREM NothingStaysHeld == Spec => []NothingHeldWhenIdle
<1>1. Init => TypeInv /\ HeldInv
  BY TypeInit, HeldInit
<1>2. (TypeInv /\ HeldInv) /\ [Next]_vars => (TypeInv /\ HeldInv)'
  BY TypeStep, HeldStep
<1>3. TypeInv /\ HeldInv => NothingHeldWhenIdle
  <2> SUFFICES ASSUME TypeInv, HeldInv, \A p \in Proc : Idle(p)
               PROVE  operating = {} /\ createMutex = None /\ bindMutex = None /\ fileLock = None
    BY DEF NothingHeldWhenIdle
  <2>1. \A p \in Proc : \A x : ~Marked(p, x)
    BY DEF Idle, Marked, Active, Flags, Updates, MarkedPc, CreateWork, Upd
  <2> QED BY <2>1 DEF TypeInv, TypeOK, HeldInv, MarkOwned, LockOwned, Idle, BindPc
<1> QED BY <1>1, <1>2, <1>3, PTL DEF Spec

-----------------------------------------------------------------------------
(***************************************************************************)
(* What a live account has, and who may still write its record.            *)
(***************************************************************************)

\* The removal of an account goes on with these after the flag is written.
Deleting == RemoveWork \ {"flag", "flagWrite"}

\* The hypothesis beside NoReuse: nobody writes back a record that was read
\* without the mark.
NoSetters == "setInfo" \notin Ops

\* ... and nobody takes the flag of a removal away.
NoRevival == NoSetters /\ "clearToBeRemoved" \notin Ops

\* Without setters every update of a record holds the mark.
UpdatesMark == \A p \in Proc : cpc[p] \in Upd => call[p] = "setToBeRemoved"

FlagInv == UpdatesMark /\ RemoveFlagKept

\* Creations, removals and updates work on different records.
Apart ==
    \A p, q \in Proc :
        /\ p # q => ~(cpc[p] \in CreateWork /\ cpc[q] \in CreateWork)
        /\ p # q /\ rpc[p] \in RemoveWork /\ rpc[q] \in RemoveWork => rid[p] # rid[q]
        /\ cpc[p] \in CreateWork /\ rpc[q] \in RemoveWork => cid[p] # rid[q]
        /\ cpc[p] \in Upd /\ cpc[q] \in CreateWork => cid[p] # cid[q]
        /\ cpc[p] \in Upd /\ rpc[q] \in RemoveWork => cid[p] # rid[q]

LEMMA WorkApart == IInv /\ UpdatesMark => Apart
<1> SUFFICES ASSUME IInv, UpdatesMark, NEW p \in Proc, NEW q \in Proc
             PROVE  /\ p # q => ~(cpc[p] \in CreateWork /\ cpc[q] \in CreateWork)
                    /\ p # q /\ rpc[p] \in RemoveWork /\ rpc[q] \in RemoveWork => rid[p] # rid[q]
                    /\ cpc[p] \in CreateWork /\ rpc[q] \in RemoveWork => cid[p] # rid[q]
                    /\ cpc[p] \in Upd /\ cpc[q] \in CreateWork => cid[p] # cid[q]
                    /\ cpc[p] \in Upd /\ rpc[q] \in RemoveWork => cid[p] # rid[q]
  BY DEF Apart
<1>t. /\ cpc[p] \in CreateWork \cup Upd => cid[p] \in Ids
      /\ cpc[q] \in CreateWork => cid[q] \in Ids
      /\ rpc[p] \in RemoveWork => rid[p] \in Ids /\ Strong(p) /\ Active(p, rid[p])
      /\ rpc[q] \in RemoveWork => rid[q] \in Ids /\ Strong(q) /\ Active(q, rid[q])
  BY DEF IInv, TypeInv, Bound, RemoveWork, Strong, Active
<1>1. p # q => ~(cpc[p] \in CreateWork /\ cpc[q] \in CreateWork)
  BY DEF IInv, OneCreator, Creating, CreateWork
<1>2. p # q /\ rpc[p] \in RemoveWork /\ rpc[q] \in RemoveWork => rid[p] # rid[q]
  BY <1>t DEF IInv, RemoverExclusion
<1>3. cpc[p] \in CreateWork /\ rpc[q] \in RemoveWork => cid[p] # rid[q]
  BY <1>t DEF IInv, CreatorExclusion, Claims, Claiming, CreateWork
<1>4. /\ cpc[p] \in Upd /\ cpc[q] \in CreateWork => cid[p] # cid[q]
      /\ cpc[p] \in Upd /\ rpc[q] \in RemoveWork => cid[p] # rid[q]
  BY <1>t DEF IInv, UpdatesMark, FlagExclusion, Flags, Updates, Claims, Claiming
<1> QED BY <1>1, <1>2, <1>3, <1>4

LEMMA FlagStep ==
    ASSUME NoSetters PROVE IInv /\ FlagInv /\ [Next]_vars => FlagInv'
<1> SUFFICES ASSUME IInv, FlagInv, [Next]_vars PROVE FlagInv'
  OBVIOUS
<1>a. TypeInv /\ Apart
  BY WorkApart DEF IInv, FlagInv
<1> USE LifecycleConstants, NoneIsNoInfo, <1>a
    DEF FlagInv, UpdatesMark, RemoveFlagKept, Apart, TypeInv, TypeOK, Nesting, Bound, disk,
        services, locks, create, remove, GoC, GoR, CreatePc, RemovePc, CreateWork, RemoveWork,
        Wait, Upd
<1>u. CASE UNCHANGED vars
  BY <1>u DEF vars
<1>c. CASE Crash
  BY <1>c DEF Crash
<1>1. ASSUME NEW p \in Proc, CheckAndCleanOsAccounts(p)
      PROVE  FlagInv'
  BY <1>1 DEF CheckAndCleanOsAccounts, StartClean
<1>2. ASSUME NEW p \in Proc, CheckAndCleanDone(p)
      PROVE  FlagInv'
  BY <1>2 DEF CheckAndCleanDone
<1>3. ASSUME NEW p \in Proc, GetAllowCreateId(p)
      PROVE  FlagInv'
  BY <1>3 DEF GetAllowCreateId
<1>4. ASSUME NEW p \in Proc, AssignSpecifiedLocalId(p)
      PROVE  FlagInv'
  BY <1>4 DEF AssignSpecifiedLocalId, StartClean, Live
<1>5. ASSUME NEW p \in Proc, AssignSpecifiedLocalIdDone(p)
      PROVE  FlagInv'
  BY <1>5 DEF AssignSpecifiedLocalIdDone
<1>6. ASSUME NEW p \in Proc, ValidateOsAccount(p)
      PROVE  FlagInv'
  BY <1>6 DEF ValidateOsAccount
<1>7. ASSUME NEW p \in Proc, MarkCreating(p)
      PROVE  FlagInv'
  BY <1>7 DEF MarkCreating
<1>8. ASSUME NEW p \in Proc, InsertOsAccount(p)
      PROVE  FlagInv'
  BY <1>8 DEF InsertOsAccount
<1>9. ASSUME NEW p \in Proc, InsertOsAccountInfo(p)
      PROVE  FlagInv'
  BY <1>9 DEF InsertOsAccountInfo
<1>10. ASSUME NEW p \in Proc, UpdateBaseOAConstraints(p)
      PROVE  FlagInv'
  BY <1>10 DEF UpdateBaseOAConstraints
<1>11. ASSUME NEW p \in Proc, BindDomainAccountUnmark(p)
      PROVE  FlagInv'
  BY <1>11 DEF BindDomainAccountUnmark
<1>12. ASSUME NEW p \in Proc, BindDomainAccountUpdate(p)
      PROVE  FlagInv'
  BY <1>12 DEF BindDomainAccountUpdate
<1>13. ASSUME NEW p \in Proc, BindDomainAccountReturn(p)
      PROVE  FlagInv'
  BY <1>13 DEF BindDomainAccountReturn
<1>14. ASSUME NEW p \in Proc, HandleCreateOsAccountToken(p)
      PROVE  FlagInv'
  BY <1>14 DEF HandleCreateOsAccountToken, StartClean
<1>15. ASSUME NEW p \in Proc, InsertOsAccountTypeRetry(p)
      PROVE  FlagInv'
  BY <1>15 DEF InsertOsAccountTypeRetry
<1>16. ASSUME NEW p \in Proc, SendToStorageAccountCreate(p)
      PROVE  FlagInv'
  BY <1>16 DEF SendToStorageAccountCreate, Refused, StartClean
<1>17. ASSUME NEW p \in Proc, PrepareAddUserRetry(p)
      PROVE  FlagInv'
  BY <1>17 DEF PrepareAddUserRetry, Refused
<1>18. ASSUME NEW p \in Proc, SendToBMSAccountCreate(p)
      PROVE  FlagInv'
  BY <1>18 DEF SendToBMSAccountCreate, Refused
<1>19. ASSUME NEW p \in Proc, FinalizeAccountCreate(p)
      PROVE  FlagInv'
  BY <1>19 DEF FinalizeAccountCreate
<1>20. ASSUME NEW p \in Proc, FinalizeAccountCreateWrite(p)
      PROVE  FlagInv'
  BY <1>20 DEF FinalizeAccountCreateWrite
<1>21. ASSUME NEW p \in Proc, RollbackTee(p)
      PROVE  FlagInv'
  BY <1>21 DEF RollbackTee, RollbackNext, RollbackFails
<1>22. ASSUME NEW p \in Proc, RollbackBms(p)
      PROVE  FlagInv'
  BY <1>22 DEF RollbackBms, RollbackNext, RollbackFails
<1>23. ASSUME NEW p \in Proc, RollbackStorage(p)
      PROVE  FlagInv'
  BY <1>23 DEF RollbackStorage, RollbackNext, RollbackFails
<1>24. ASSUME NEW p \in Proc, HandleUnbindDomainAccountFailed(p)
      PROVE  FlagInv'
  BY <1>24 DEF HandleUnbindDomainAccountFailed
<1>25. ASSUME NEW p \in Proc, RollbackDelInfo(p)
      PROVE  FlagInv'
  BY <1>25 DEF RollbackDelInfo
<1>26. ASSUME NEW p \in Proc, RollbackDelList(p)
      PROVE  FlagInv'
  BY <1>26 DEF RollbackDelList
<1>27. ASSUME NEW p \in Proc, CreateReturn(p)
      PROVE  FlagInv'
  BY <1>27 DEF CreateReturn
<1>28. ASSUME NEW p \in Proc, CleanNext(p)
      PROVE  FlagInv'
  BY <1>28 DEF CleanNext
<1>29. ASSUME NEW p \in Proc, ReadForRemove(p)
      PROVE  FlagInv'
  BY <1>29 DEF ReadForRemove, Live
<1>30. ASSUME NEW p \in Proc, SetRemoveFlag(p)
      PROVE  FlagInv'
  BY <1>30 DEF SetRemoveFlag
<1>31. ASSUME NEW p \in Proc, SetRemoveFlagWrite(p)
      PROVE  FlagInv'
  <2>1. /\ rpc[p] = "flagWrite" /\ rid[p] \in Ids /\ snap[p] \in Info
        /\ UNCHANGED <<cpc, call, rid, mode>>
    BY <1>31 DEF SetRemoveFlagWrite
  <2>2. CASE info' = info /\ rpc' = [rpc EXCEPT ![p] = "opEnd"]
    BY <2>1, <2>2
  <2>3. CASE /\ info' = [info EXCEPT ![rid[p]] = [snap[p] EXCEPT !.toBeRemoved = TRUE]]
             /\ rpc' = [rpc EXCEPT ![p] = "opTee"]
    <3>1. info'[rid[p]] = [snap[p] EXCEPT !.toBeRemoved = TRUE]
      BY <2>1, <2>3
    <3>2. info'[rid[p]].toBeRemoved
      BY <2>1, <3>1 DEF Info
    <3>3. \A q \in Proc : q # p /\ rpc[q] \in RemoveWork =>
                             rid[q] \in Ids /\ info'[rid[q]] = info[rid[q]]
      BY <2>1, <2>3
    <3>4. RemoveFlagKept'
      BY <2>1, <2>3, <3>2, <3>3
    <3> QED BY <2>1, <3>4
  <2> QED BY <1>31, <2>2, <2>3 DEF SetRemoveFlagWrite, Flagged
<1>32. ASSUME NEW p \in Proc, OperateTee(p)
      PROVE  FlagInv'
  <2>1. UpdatesMark'
    BY <1>32 DEF OperateTee
  <2>2. RemoveFlagKept'
    BY <1>32 DEF OperateTee
  <2> QED BY <2>1, <2>2
<1>33. ASSUME NEW p \in Proc, PrepareRemoveOsAccount(p)
      PROVE  FlagInv'
  BY <1>33 DEF PrepareRemoveOsAccount
<1>34. ASSUME NEW p \in Proc, OperateBms(p)
      PROVE  FlagInv'
  BY <1>34 DEF OperateBms
<1>35. ASSUME NEW p \in Proc, OperateStorage(p)
      PROVE  FlagInv'
  BY <1>35 DEF OperateStorage
<1>36. ASSUME NEW p \in Proc, OperateDelInfo(p)
      PROVE  FlagInv'
  BY <1>36 DEF OperateDelInfo
<1>37. ASSUME NEW p \in Proc, OperateDelList(p)
      PROVE  FlagInv'
  BY <1>37 DEF OperateDelList
<1>38. ASSUME NEW p \in Proc, OperateConstraints(p)
      PROVE  FlagInv'
  BY <1>38 DEF OperateConstraints
<1>39. ASSUME NEW p \in Proc, RemoveReturn(p)
      PROVE  FlagInv'
  BY <1>39 DEF RemoveReturn
<1>40. ASSUME NEW p \in Proc, UpdateOsAccount(p)
      PROVE  FlagInv'
  BY <1>40 DEF UpdateOsAccount
<1>41. ASSUME NEW p \in Proc, UpdateOsAccountWrite(p)
      PROVE  FlagInv'
  <2>1. /\ cpc[p] = "updWrite" /\ cid[p] \in Ids
        /\ \A i \in Ids : i # cid[p] => info'[i] = info[i]
        /\ cpc' = [cpc EXCEPT ![p] = "updEnd"]
        /\ UNCHANGED <<call, rpc, rid, mode>>
    BY <1>41 DEF UpdateOsAccountWrite
  <2>2. \A q \in Proc : rpc[q] \in RemoveWork => rid[q] \in Ids /\ info'[rid[q]] = info[rid[q]]
    BY <2>1
  <2>3. UpdatesMark'
    BY <2>1
  <2>4. RemoveFlagKept'
    BY <2>1, <2>2
  <2> QED BY <2>3, <2>4
<1>42. ASSUME NEW p \in Proc, UpdateReturn(p)
      PROVE  FlagInv'
  BY <1>42 DEF UpdateReturn
<1>43. ASSUME NEW p \in Proc, NEW t \in Types, NEW w \in Ids \cup {0}, CreateOsAccount(p, t, w)
      PROVE  FlagInv'
  BY <1>43 DEF CreateOsAccount, Idle
<1>44. ASSUME NEW p \in Proc, NEW t \in Types, NEW w \in Ids \cup {0}, BindDomainAccount(p, t, w)
      PROVE  FlagInv'
  BY <1>44 DEF BindDomainAccount, Idle
<1>45. ASSUME NEW p \in Proc, NEW i \in Ids, RemoveOsAccount(p, i)
      PROVE  FlagInv'
  BY <1>45 DEF RemoveOsAccount, Idle
<1>46. ASSUME NEW p \in Proc, NEW i \in Ids, SetOsAccountInfo(p, i)
      PROVE  FlagInv'
  BY <1>46 DEF SetOsAccountInfo, Idle, NoSetters
<1>47. ASSUME NEW p \in Proc, NEW i \in Ids, ActivateOsAccount(p, i)
      PROVE  FlagInv'
  BY <1>47 DEF ActivateOsAccount, Idle
<1>48. ASSUME NEW p \in Proc, NEW i \in Ids, NEW b \in BOOLEAN, SetOsAccountToBeRemoved(p, i, b)
      PROVE  FlagInv'
  BY <1>48 DEF SetOsAccountToBeRemoved, Idle
<1>49. ASSUME NEW p \in Proc, CleanGarbageOsAccounts(p)
      PROVE  FlagInv'
  BY <1>49 DEF CleanGarbageOsAccounts, StartClean, Idle
<1> HIDE DEF FlagInv, UpdatesMark, RemoveFlagKept, Apart, TypeInv, TypeOK, Nesting, Bound
<1>s. ASSUME NEW p \in Proc, Step(p)
      PROVE  FlagInv'
  <2>1. CASE CreateStep(p)
    BY <2>1, <1>1, <1>2, <1>3, <1>4, <1>5, <1>6, <1>7, <1>8, <1>9, <1>10, <1>11, <1>12,
       <1>13, <1>14, <1>15, <1>16, <1>17, <1>18, <1>19, <1>20, <1>21, <1>22, <1>23,
       <1>24, <1>25, <1>26, <1>27 DEF CreateStep
  <2>2. CASE RemoveStep(p)
    BY <2>2, <1>28, <1>29, <1>30, <1>31, <1>32, <1>33, <1>34, <1>35, <1>36, <1>37,
       <1>38, <1>39 DEF RemoveStep
  <2>3. CASE UpdateStep(p)
    BY <2>3, <1>40, <1>41, <1>42 DEF UpdateStep
  <2> QED BY <1>s, <2>1, <2>2, <2>3 DEF Step
<1>k. ASSUME NEW p \in Proc, Call(p)
      PROVE  FlagInv'
  BY <1>k, <1>43, <1>44, <1>45, <1>46, <1>47, <1>48, <1>49 DEF Call
<1> QED BY <1>u, <1>c, <1>s, <1>k DEF Next

\* "to be removed, cannot change any thing": once the removal of an account has set
\* the flag, no creation, rollback, other removal, collector or SetOsAccountToBeRemoved
\* takes it away until the record is deleted.
THEOREM RemovalIsFinal ==
    ASSUME NoReuse, NoSetters PROVE Spec => []RemoveFlagKept
<1>1. Init => IInv /\ FlagInv
  BY IInvInit DEF Init, FlagInv, UpdatesMark, RemoveFlagKept, Upd, RemoveWork
<1>2. (IInv /\ FlagInv) /\ [Next]_vars => (IInv /\ FlagInv)'
  BY IInvStep, FlagStep
<1>3. FlagInv => RemoveFlagKept
  BY DEF FlagInv
<1> QED BY <1>1, <1>2, <1>3, PTL DEF Spec

\* A new record is listed and not completed until its data is in both services.
CreatorsRecord ==
    \A p \in Proc :
        /\ cpc[p] \in CreateWork \ {"insert", "rbDelList"} => cid[p] \in acctList
        /\ cpc[p] \in CreateWork \ {"insert", "insInfo", "rbDelList"} =>
              ~info[cid[p]].completed
        /\ cpc[p] = "rbDelList" => info[cid[p]] = None
        /\ cpc[p] \in {"bms", "fin", "finWrite"} => cid[p] \in sto
        /\ cpc[p] \in {"fin", "finWrite"} => cid[p] \in bms

\* What a removal or the collector deletes is not live, and a record that is
\* written back has the flag.
RemovedIsDead ==
    \A p \in Proc :
        /\ rpc[p] \in Deleting => ~Live(rid[p])
        /\ cpc[p] \in {"updCheck", "updWrite"} => snap[p].toBeRemoved

LiveInv == CreatorsRecord /\ RemovedIsDead /\ LiveHasData

LEMMA LiveStep ==
    ASSUME NoRevival PROVE IInv /\ UpdatesMark /\ LiveInv /\ [Next]_vars => LiveInv'
<1> SUFFICES ASSUME IInv, UpdatesMark, LiveInv, [Next]_vars PROVE LiveInv'
  OBVIOUS
<1>a. TypeInv /\ Apart /\ CreateData /\ TypeInv'
  BY WorkApart, TypeStep DEF IInv
<1>b. \A p \in Proc : /\ cpc[p] = "insInfo" => info[cid[p]] = None
                      /\ cpc[p] # "unbind"
  BY DEF IInv, CreatorId, OneCreator
<1> USE LifecycleConstants, NoneIsNoInfo, <1>a, <1>b
    DEF CreatorsRecord, RemovedIsDead, LiveHasData, Live, Apart, TypeInv, TypeOK,
        Nesting, Bound, disk, services, locks, create, remove, GoC, GoR, CreatePc, RemovePc,
        CreateWork, RemoveWork, Deleting, Wait, Upd
<1>u. CASE UNCHANGED vars
  BY <1>u DEF vars, LiveInv
<1>c. CASE Crash
  BY <1>c DEF Crash, LiveInv
<1>1. ASSUME NEW p \in Proc, CheckAndCleanOsAccounts(p)
      PROVE  CreatorsRecord' /\ RemovedIsDead' /\ LiveHasData'
  BY <1>1 DEF LiveInv, CheckAndCleanOsAccounts, StartClean
<1>2. ASSUME NEW p \in Proc, CheckAndCleanDone(p)
      PROVE  CreatorsRecord' /\ RemovedIsDead' /\ LiveHasData'
  BY <1>2 DEF LiveInv, CheckAndCleanDone
<1>3. ASSUME NEW p \in Proc, GetAllowCreateId(p)
      PROVE  CreatorsRecord' /\ RemovedIsDead' /\ LiveHasData'
  BY <1>3 DEF LiveInv, GetAllowCreateId
<1>4. ASSUME NEW p \in Proc, AssignSpecifiedLocalId(p)
      PROVE  CreatorsRecord' /\ RemovedIsDead' /\ LiveHasData'
  BY <1>4 DEF LiveInv, AssignSpecifiedLocalId, StartClean
<1>5. ASSUME NEW p \in Proc, AssignSpecifiedLocalIdDone(p)
      PROVE  CreatorsRecord' /\ RemovedIsDead' /\ LiveHasData'
  BY <1>5 DEF LiveInv, AssignSpecifiedLocalIdDone
<1>6. ASSUME NEW p \in Proc, ValidateOsAccount(p)
      PROVE  CreatorsRecord' /\ RemovedIsDead' /\ LiveHasData'
  BY <1>6 DEF LiveInv, ValidateOsAccount
<1>7. ASSUME NEW p \in Proc, MarkCreating(p)
      PROVE  CreatorsRecord' /\ RemovedIsDead' /\ LiveHasData'
  BY <1>7 DEF LiveInv, MarkCreating
<1>8. ASSUME NEW p \in Proc, InsertOsAccount(p)
      PROVE  CreatorsRecord' /\ RemovedIsDead' /\ LiveHasData'
  BY <1>8 DEF LiveInv, InsertOsAccount
<1>9. ASSUME NEW p \in Proc, InsertOsAccountInfo(p)
      PROVE  CreatorsRecord' /\ RemovedIsDead' /\ LiveHasData'
  <2>1. /\ cpc[p] = "insInfo" /\ cid[p] \in Ids
        /\ \A i \in Ids : i # cid[p] => info'[i] = info[i]
        /\ UNCHANGED <<acctList, services, cid, snap, rpc, rid>>
    BY <1>9 DEF InsertOsAccountInfo
  <2>2. info'[cid[p]] = None \/ ~info'[cid[p]].completed
    BY <1>9, <2>1 DEF LiveInv, InsertOsAccountInfo, NewInfo
  <2>3. CreatorsRecord'
    BY <1>9 DEF LiveInv, InsertOsAccountInfo, NewInfo
  <2>4. RemovedIsDead'
    <3>1. \A q \in Proc : rpc[q] \in RemoveWork => rid[q] \in Ids /\ info'[rid[q]] = info[rid[q]]
      BY <2>1
    <3>2. \A q \in Proc : cpc'[q] \in {"updCheck", "updWrite"} => cpc'[q] = cpc[q]
      BY <1>9 DEF InsertOsAccountInfo
    <3> QED BY <2>1, <3>1, <3>2 DEF LiveInv
  <2>5. LiveHasData'
    <3> SUFFICES ASSUME NEW i \in Ids, Live(i)' PROVE i \in acctList' \cap sto' \cap bms'
      BY DEF LiveHasData
    <3>1. i # cid[p] /\ Live(i)
      BY <2>1, <2>2
    <3> QED BY <2>1, <3>1 DEF LiveInv
  <2> QED BY <2>3, <2>4, <2>5
<1>10. ASSUME NEW p \in Proc, UpdateBaseOAConstraints(p)
      PROVE  CreatorsRecord' /\ RemovedIsDead' /\ LiveHasData'
  BY <1>10 DEF LiveInv, UpdateBaseOAConstraints
<1>11. ASSUME NEW p \in Proc, BindDomainAccountUnmark(p)
      PROVE  CreatorsRecord' /\ RemovedIsDead' /\ LiveHasData'
  BY <1>11 DEF LiveInv, BindDomainAccountUnmark
<1>12. ASSUME NEW p \in Proc, BindDomainAccountUpdate(p)
      PROVE  CreatorsRecord' /\ RemovedIsDead' /\ LiveHasData'
  BY <1>12 DEF LiveInv, BindDomainAccountUpdate
<1>13. ASSUME NEW p \in Proc, BindDomainAccountReturn(p)
      PROVE  CreatorsRecord' /\ RemovedIsDead' /\ LiveHasData'
  BY <1>13 DEF IInv, OneCreator, BindDomainAccountReturn
<1>14. ASSUME NEW p \in Proc, HandleCreateOsAccountToken(p)
      PROVE  CreatorsRecord' /\ RemovedIsDead' /\ LiveHasData'
  BY <1>14 DEF LiveInv, HandleCreateOsAccountToken, StartClean
<1>15. ASSUME NEW p \in Proc, InsertOsAccountTypeRetry(p)
      PROVE  CreatorsRecord' /\ RemovedIsDead' /\ LiveHasData'
  BY <1>15 DEF LiveInv, InsertOsAccountTypeRetry
<1>16. ASSUME NEW p \in Proc, SendToStorageAccountCreate(p)
      PROVE  CreatorsRecord' /\ RemovedIsDead' /\ LiveHasData'
  BY <1>16 DEF LiveInv, SendToStorageAccountCreate, Refused, StartClean
<1>17. ASSUME NEW p \in Proc, PrepareAddUserRetry(p)
      PROVE  CreatorsRecord' /\ RemovedIsDead' /\ LiveHasData'
  BY <1>17 DEF LiveInv, PrepareAddUserRetry, Refused
<1>18. ASSUME NEW p \in Proc, SendToBMSAccountCreate(p)
      PROVE  CreatorsRecord' /\ RemovedIsDead' /\ LiveHasData'
  BY <1>18 DEF LiveInv, SendToBMSAccountCreate, Refused
<1>19. ASSUME NEW p \in Proc, FinalizeAccountCreate(p)
      PROVE  CreatorsRecord' /\ RemovedIsDead' /\ LiveHasData'
  BY <1>19 DEF LiveInv, FinalizeAccountCreate
<1>20. ASSUME NEW p \in Proc, FinalizeAccountCreateWrite(p)
      PROVE  CreatorsRecord' /\ RemovedIsDead' /\ LiveHasData'
  <2>1. /\ cid[p] \in acctList \cap sto \cap bms
        /\ \A i \in Ids : i # cid[p] => info'[i] = info[i]
        /\ UNCHANGED <<acctList, services>>
    BY <1>20 DEF LiveInv, FinalizeAccountCreateWrite
  <2>2. LiveHasData'
    <3> SUFFICES ASSUME NEW i \in Ids, Live(i)' PROVE i \in acctList' \cap sto' \cap bms'
      BY DEF LiveHasData
    <3>1. CASE i = cid[p]
      BY <2>1, <3>1
    <3>2. CASE i # cid[p]
      BY <2>1, <3>2 DEF LiveInv
    <3> QED BY <3>1, <3>2
  <2>3. CreatorsRecord'
    BY <1>20 DEF LiveInv, FinalizeAccountCreateWrite, NewInfo, Completed
  <2>4. RemovedIsDead'
    BY <1>20 DEF LiveInv, FinalizeAccountCreateWrite, NewInfo, Completed
  <2> QED BY <2>2, <2>3, <2>4
<1>21. ASSUME NEW p \in Proc, RollbackTee(p)
      PROVE  CreatorsRecord' /\ RemovedIsDead' /\ LiveHasData'
  BY <1>21 DEF LiveInv, RollbackTee, RollbackNext, RollbackFails
<1>22. ASSUME NEW p \in Proc, RollbackBms(p)
      PROVE  CreatorsRecord' /\ RemovedIsDead' /\ LiveHasData'
  BY <1>22 DEF LiveInv, RollbackBms, RollbackNext, RollbackFails
<1>23. ASSUME NEW p \in Proc, RollbackStorage(p)
      PROVE  CreatorsRecord' /\ RemovedIsDead' /\ LiveHasData'
  BY <1>23 DEF LiveInv, RollbackStorage, RollbackNext, RollbackFails
<1>24. ASSUME NEW p \in Proc, HandleUnbindDomainAccountFailed(p)
      PROVE  CreatorsRecord' /\ RemovedIsDead' /\ LiveHasData'
  BY <1>24 DEF LiveInv, HandleUnbindDomainAccountFailed
<1>25. ASSUME NEW p \in Proc, RollbackDelInfo(p)
      PROVE  CreatorsRecord' /\ RemovedIsDead' /\ LiveHasData'
  <2>1. /\ cpc[p] = "rbDel" /\ cid[p] \in Ids
        /\ \A i \in Ids : i # cid[p] => info'[i] = info[i]
        /\ UNCHANGED <<acctList, services, cid, snap, rpc, rid>>
    BY <1>25 DEF RollbackDelInfo
  <2>2. info'[cid[p]] = None \/ ~info'[cid[p]].completed
    BY <1>25, <2>1 DEF LiveInv, RollbackDelInfo
  <2>3. CreatorsRecord'
    BY <1>25 DEF LiveInv, RollbackDelInfo
  <2>4. RemovedIsDead'
    <3>1. \A q \in Proc : rpc[q] \in RemoveWork => rid[q] \in Ids /\ info'[rid[q]] = info[rid[q]]
      BY <2>1
    <3>2. \A q \in Proc : cpc'[q] \in {"updCheck", "updWrite"} => cpc'[q] = cpc[q]
      BY <1>25 DEF RollbackDelInfo
    <3> QED BY <2>1, <3>1, <3>2 DEF LiveInv
  <2>5. LiveHasData'
    <3> SUFFICES ASSUME NEW i \in Ids, Live(i)' PROVE i \in acctList' \cap sto' \cap bms'
      BY DEF LiveHasData
    <3>1. i # cid[p] /\ Live(i)
      BY <2>1, <2>2
    <3> QED BY <2>1, <3>1 DEF LiveInv
  <2> QED BY <2>3, <2>4, <2>5
<1>26. ASSUME NEW p \in Proc, RollbackDelList(p)
      PROVE  CreatorsRecord' /\ RemovedIsDead' /\ LiveHasData'
  BY <1>26 DEF LiveInv, RollbackDelList
<1>27. ASSUME NEW p \in Proc, CreateReturn(p)
      PROVE  CreatorsRecord' /\ RemovedIsDead' /\ LiveHasData'
  BY <1>27 DEF LiveInv, CreateReturn
<1>28. ASSUME NEW p \in Proc, CleanNext(p)
      PROVE  CreatorsRecord' /\ RemovedIsDead' /\ LiveHasData'
  BY <1>28 DEF LiveInv, CleanNext
<1>29. ASSUME NEW p \in Proc, ReadForRemove(p)
      PROVE  CreatorsRecord' /\ RemovedIsDead' /\ LiveHasData'
  BY <1>29 DEF LiveInv, ReadForRemove
<1>30. ASSUME NEW p \in Proc, SetRemoveFlag(p)
      PROVE  CreatorsRecord' /\ RemovedIsDead' /\ LiveHasData'
  BY <1>30 DEF LiveInv, SetRemoveFlag
<1>31. ASSUME NEW p \in Proc, SetRemoveFlagWrite(p)
      PROVE  CreatorsRecord' /\ RemovedIsDead' /\ LiveHasData'
  <2>1. CreatorsRecord'
    BY <1>31 DEF LiveInv, SetRemoveFlagWrite, Flagged, Info
  <2>2. RemovedIsDead'
    BY <1>31 DEF LiveInv, SetRemoveFlagWrite, Flagged, Info
  <2>3. LiveHasData'
    <3> SUFFICES ASSUME NEW i \in Ids, Live(i)' PROVE i \in acctList' \cap sto' \cap bms'
      BY DEF LiveHasData
    <3>1. UNCHANGED <<acctList, services>>
      BY <1>31 DEF SetRemoveFlagWrite
    <3>2. CASE info'[i] = info[i]
      BY <3>1, <3>2 DEF LiveInv
    <3>3. CASE info'[i] # info[i]
      <4>1. rid[p] \in Ids /\ snap[p] \in Info
        BY <1>31 DEF SetRemoveFlagWrite
      <4>2. info' = [info EXCEPT ![rid[p]] = [snap[p] EXCEPT !.toBeRemoved = TRUE]]
        BY <1>31, <3>3 DEF SetRemoveFlagWrite, Flagged
      <4>3. info'[i] = [snap[p] EXCEPT !.toBeRemoved = TRUE]
        BY <3>3, <4>1, <4>2
      <4> QED BY <4>1, <4>3 DEF Info
    <3> QED BY <3>2, <3>3
  <2> QED BY <2>1, <2>2, <2>3
<1>32. ASSUME NEW p \in Proc, OperateTee(p)
      PROVE  CreatorsRecord' /\ RemovedIsDead' /\ LiveHasData'
  <2>1. CreatorsRecord'
    BY <1>32 DEF LiveInv, OperateTee
  <2>2. RemovedIsDead'
    BY <1>32 DEF LiveInv, OperateTee
  <2>3. LiveHasData'
    BY <1>32 DEF LiveInv, OperateTee
  <2> QED BY <2>1, <2>2, <2>3
<1>33. ASSUME NEW p \in Proc, PrepareRemoveOsAccount(p)
      PROVE  CreatorsRecord' /\ RemovedIsDead' /\ LiveHasData'
  <2>1. CreatorsRecord'
    BY <1>33 DEF LiveInv, PrepareRemoveOsAccount
  <2>2. RemovedIsDead'
    BY <1>33 DEF LiveInv, PrepareRemoveOsAccount
  <2>3. LiveHasData'
    BY <1>33 DEF LiveInv, PrepareRemoveOsAccount
  <2> QED BY <2>1, <2>2, <2>3
<1>34. ASSUME NEW p \in Proc, OperateBms(p)
      PROVE  CreatorsRecord' /\ RemovedIsDead' /\ LiveHasData'
  <2>1. CreatorsRecord'
    BY <1>34 DEF LiveInv, OperateBms
  <2>2. RemovedIsDead'
    BY <1>34 DEF LiveInv, OperateBms
  <2>3. LiveHasData'
    BY <1>34 DEF LiveInv, OperateBms
  <2> QED BY <2>1, <2>2, <2>3
<1>35. ASSUME NEW p \in Proc, OperateStorage(p)
      PROVE  CreatorsRecord' /\ RemovedIsDead' /\ LiveHasData'
  <2>1. CreatorsRecord'
    BY <1>35 DEF LiveInv, OperateStorage
  <2>2. RemovedIsDead'
    BY <1>35 DEF LiveInv, OperateStorage
  <2>3. LiveHasData'
    BY <1>35 DEF LiveInv, OperateStorage
  <2> QED BY <2>1, <2>2, <2>3
<1>36. ASSUME NEW p \in Proc, OperateDelInfo(p)
      PROVE  CreatorsRecord' /\ RemovedIsDead' /\ LiveHasData'
  <2>1. CreatorsRecord'
    BY <1>36 DEF LiveInv, OperateDelInfo
  <2>2. RemovedIsDead'
    BY <1>36 DEF LiveInv, OperateDelInfo
  <2>3. LiveHasData'
    BY <1>36 DEF LiveInv, OperateDelInfo
  <2> QED BY <2>1, <2>2, <2>3
<1>37. ASSUME NEW p \in Proc, OperateDelList(p)
      PROVE  CreatorsRecord' /\ RemovedIsDead' /\ LiveHasData'
  <2>1. CreatorsRecord'
    BY <1>37 DEF LiveInv, OperateDelList
  <2>2. RemovedIsDead'
    BY <1>37 DEF LiveInv, OperateDelList
  <2>3. LiveHasData'
    BY <1>37 DEF LiveInv, OperateDelList
  <2> QED BY <2>1, <2>2, <2>3
<1>38. ASSUME NEW p \in Proc, OperateConstraints(p)
      PROVE  CreatorsRecord' /\ RemovedIsDead' /\ LiveHasData'
  <2>1. CreatorsRecord'
    BY <1>38 DEF LiveInv, OperateConstraints
  <2>2. RemovedIsDead'
    BY <1>38 DEF LiveInv, OperateConstraints
  <2>3. LiveHasData'
    BY <1>38 DEF LiveInv, OperateConstraints
  <2> QED BY <2>1, <2>2, <2>3
<1>39. ASSUME NEW p \in Proc, RemoveReturn(p)
      PROVE  CreatorsRecord' /\ RemovedIsDead' /\ LiveHasData'
  <2>1. CreatorsRecord'
    BY <1>39 DEF LiveInv, RemoveReturn
  <2>2. RemovedIsDead'
    BY <1>39 DEF LiveInv, RemoveReturn
  <2>3. LiveHasData'
    BY <1>39 DEF LiveInv, RemoveReturn
  <2> QED BY <2>1, <2>2, <2>3
<1>40. ASSUME NEW p \in Proc, UpdateOsAccount(p)
      PROVE  CreatorsRecord' /\ RemovedIsDead' /\ LiveHasData'
  BY <1>40 DEF LiveInv, UpdateOsAccount
<1>41. ASSUME NEW p \in Proc, UpdateOsAccountWrite(p)
      PROVE  CreatorsRecord' /\ RemovedIsDead' /\ LiveHasData'
  BY <1>41 DEF LiveInv, UpdateOsAccountWrite
<1>42. ASSUME NEW p \in Proc, UpdateReturn(p)
      PROVE  CreatorsRecord' /\ RemovedIsDead' /\ LiveHasData'
  BY <1>42 DEF LiveInv, UpdateReturn
<1>43. ASSUME NEW p \in Proc, NEW t \in Types, NEW w \in Ids \cup {0}, CreateOsAccount(p, t, w)
      PROVE  CreatorsRecord' /\ RemovedIsDead' /\ LiveHasData'
  BY <1>43 DEF LiveInv, CreateOsAccount, Idle
<1>44. ASSUME NEW p \in Proc, NEW t \in Types, NEW w \in Ids \cup {0}, BindDomainAccount(p, t, w)
      PROVE  CreatorsRecord' /\ RemovedIsDead' /\ LiveHasData'
  BY <1>44 DEF LiveInv, BindDomainAccount, Idle
<1>45. ASSUME NEW p \in Proc, NEW i \in Ids, RemoveOsAccount(p, i)
      PROVE  CreatorsRecord' /\ RemovedIsDead' /\ LiveHasData'
  BY <1>45 DEF LiveInv, RemoveOsAccount, Idle
<1>46. ASSUME NEW p \in Proc, NEW i \in Ids, SetOsAccountInfo(p, i)
      PROVE  CreatorsRecord' /\ RemovedIsDead' /\ LiveHasData'
  BY <1>46 DEF LiveInv, SetOsAccountInfo, Idle, NoRevival, NoSetters
<1>47. ASSUME NEW p \in Proc, NEW i \in Ids, ActivateOsAccount(p, i)
      PROVE  CreatorsRecord' /\ RemovedIsDead' /\ LiveHasData'
  BY <1>47 DEF LiveInv, ActivateOsAccount, Idle
<1>48. ASSUME NEW p \in Proc, NEW i \in Ids, NEW b \in BOOLEAN, SetOsAccountToBeRemoved(p, i, b)
      PROVE  CreatorsRecord' /\ RemovedIsDead' /\ LiveHasData'
  BY <1>48 DEF LiveInv, SetOsAccountToBeRemoved, Idle, Flagged, Info, NoRevival
<1>49. ASSUME NEW p \in Proc, CleanGarbageOsAccounts(p)
      PROVE  CreatorsRecord' /\ RemovedIsDead' /\ LiveHasData'
  BY <1>49 DEF LiveInv, CleanGarbageOsAccounts, StartClean, Idle
<1> HIDE DEF CreatorsRecord, RemovedIsDead, LiveHasData, TypeInv, TypeOK, Apart, Nesting, Bound
<1>s. ASSUME NEW p \in Proc, Step(p)
      PROVE  CreatorsRecord' /\ RemovedIsDead' /\ LiveHasData'
  <2>1. CASE CreateStep(p)
    BY <2>1, <1>1, <1>2, <1>3, <1>4, <1>5, <1>6, <1>7, <1>8, <1>9, <1>10, <1>11, <1>12,
       <1>13, <1>14, <1>15, <1>16, <1>17, <1>18, <1>19, <1>20, <1>21, <1>22, <1>23,
       <1>24, <1>25, <1>26, <1>27 DEF CreateStep
  <2>2. CASE RemoveStep(p)
    BY <2>2, <1>28, <1>29, <1>30, <1>31, <1>32, <1>33, <1>34, <1>35, <1>36, <1>37,
       <1>38, <1>39 DEF RemoveStep
  <2>3. CASE UpdateStep(p)
    BY <2>3, <1>40, <1>41, <1>42 DEF UpdateStep
  <2> QED BY <1>s, <2>1, <2>2, <2>3 DEF Step
<1>k. ASSUME NEW p \in Proc, Call(p)
      PROVE  CreatorsRecord' /\ RemovedIsDead' /\ LiveHasData'
  BY <1>k, <1>43, <1>44, <1>45, <1>46, <1>47, <1>48, <1>49 DEF Call
<1> QED BY <1>u, <1>c, <1>s, <1>k DEF Next, LiveInv

\* Private accounts exclude each other, the one that is being created included.
PrivateOnce ==
    /\ \A i, j \in Ids : Live(i) /\ Live(j) /\ info[i].type = "PRIVATE"
                            /\ info[j].type = "PRIVATE" => i = j
    /\ \A p \in Proc : cpc[p] \in CreateWork \cup {"mark"} /\ ctyp[p] = "PRIVATE" =>
          \A i \in Ids : Live(i) => info[i].type # "PRIVATE"

LEMMA IdsAreFinite ==
    ASSUME NEW L \in SUBSET Ids PROVE IsFiniteSet(L) /\ Cardinality(L) \in Nat
<1>1. IsFiniteSet(Ids)
  BY FS_Interval, LifecycleConstants DEF Ids
<1>2. IsFiniteSet(L)
  BY <1>1, FS_Subset
<1> QED BY <1>2, FS_CardinalityType

LEMMA NoneCounted ==
    ASSUME TypeOK, CheckTypeNumber("PRIVATE")
    PROVE  \A i \in acctList : Live(i) => info[i].type # "PRIVATE"
<1> DEFINE S == {i \in acctList : Live(i) /\ info[i].type = "PRIVATE"}
<1>1. IsFiniteSet(S)
  <2>1. S \in SUBSET Ids
    BY DEF TypeOK
  <2> QED BY <2>1, IdsAreFinite
<1>2. Cardinality(S) < 1
  BY DEF CheckTypeNumber, TypeNumber
<1>3. S = {}
  <2> HIDE DEF S
  <2> QED BY <1>1, <1>2, FS_CardinalityType, FS_EmptySet
<1> QED BY <1>3

LEMMA PrivateStep ==
    ASSUME NoRevival PROVE IInv /\ LiveInv /\ PrivateOnce /\ [Next]_vars => PrivateOnce'
<1> SUFFICES ASSUME IInv, LiveInv, PrivateOnce, [Next]_vars PROVE PrivateOnce'
  OBVIOUS
<1>a. TypeInv
  BY DEF IInv
<1>b. \A p, q \in Proc :
          {cpc[p], cpc[q]} \subseteq CreateWork \cup {"mark"} => p = q
  BY DEF IInv, OneCreator, Creating, CreateWork
<1>d. /\ \A p \in Proc : cpc[p] = "updWrite" => snap[p].toBeRemoved
      /\ \A i \in Ids : Live(i) => i \in acctList
  BY DEF LiveInv, RemovedIsDead, LiveHasData
<1> USE LifecycleConstants, NoneIsNoInfo, <1>a, <1>b, <1>d
    DEF PrivateOnce, Live, TypeInv, TypeOK, Nesting, Bound, disk, services, locks, create,
        remove, GoC, GoR, CreatePc, RemovePc, CreateWork, Wait, Upd
<1>u. CASE UNCHANGED vars
  BY <1>u DEF vars
<1>c. CASE Crash
  BY <1>c DEF Crash
<1>1. ASSUME NEW p \in Proc, CheckAndCleanOsAccounts(p)
      PROVE  PrivateOnce'
  BY <1>1 DEF CheckAndCleanOsAccounts, StartClean
<1>2. ASSUME NEW p \in Proc, CheckAndCleanDone(p)
      PROVE  PrivateOnce'
  BY <1>2 DEF CheckAndCleanDone
<1>3. ASSUME NEW p \in Proc, GetAllowCreateId(p)
      PROVE  PrivateOnce'
  BY <1>3 DEF GetAllowCreateId
<1>4. ASSUME NEW p \in Proc, AssignSpecifiedLocalId(p)
      PROVE  PrivateOnce'
  BY <1>4 DEF AssignSpecifiedLocalId, StartClean
<1>5. ASSUME NEW p \in Proc, AssignSpecifiedLocalIdDone(p)
      PROVE  PrivateOnce'
  BY <1>5 DEF AssignSpecifiedLocalIdDone
<1>6. ASSUME NEW p \in Proc, ValidateOsAccount(p)
      PROVE  PrivateOnce'
  BY <1>6, NoneCounted DEF ValidateOsAccount
<1>7. ASSUME NEW p \in Proc, MarkCreating(p)
      PROVE  PrivateOnce'
  BY <1>7 DEF MarkCreating
<1>8. ASSUME NEW p \in Proc, InsertOsAccount(p)
      PROVE  PrivateOnce'
  BY <1>8 DEF InsertOsAccount
<1>9. ASSUME NEW p \in Proc, InsertOsAccountInfo(p)
      PROVE  PrivateOnce'
  <2>1. \A i \in Ids : Live(i)' => info'[i] = info[i]
    BY <1>9 DEF InsertOsAccountInfo, NewInfo
  <2>2. \A q \in Proc : cpc'[q] \in CreateWork \cup {"mark"} =>
                          cpc[q] \in CreateWork \cup {"mark"} /\ ctyp'[q] = ctyp[q]
    BY <1>9 DEF InsertOsAccountInfo
  <2> QED BY <2>1, <2>2
<1>10. ASSUME NEW p \in Proc, UpdateBaseOAConstraints(p)
      PROVE  PrivateOnce'
  BY <1>10 DEF UpdateBaseOAConstraints
<1>11. ASSUME NEW p \in Proc, BindDomainAccountUnmark(p)
      PROVE  PrivateOnce'
  BY <1>11 DEF BindDomainAccountUnmark
<1>12. ASSUME NEW p \in Proc, BindDomainAccountUpdate(p)
      PROVE  PrivateOnce'
  BY <1>12 DEF BindDomainAccountUpdate
<1>13. ASSUME NEW p \in Proc, BindDomainAccountReturn(p)
      PROVE  PrivateOnce'
  BY <1>13 DEF IInv, OneCreator, BindDomainAccountReturn
<1>14. ASSUME NEW p \in Proc, HandleCreateOsAccountToken(p)
      PROVE  PrivateOnce'
  BY <1>14 DEF HandleCreateOsAccountToken, StartClean
<1>15. ASSUME NEW p \in Proc, InsertOsAccountTypeRetry(p)
      PROVE  PrivateOnce'
  BY <1>15 DEF InsertOsAccountTypeRetry
<1>16. ASSUME NEW p \in Proc, SendToStorageAccountCreate(p)
      PROVE  PrivateOnce'
  BY <1>16 DEF SendToStorageAccountCreate, Refused, StartClean
<1>17. ASSUME NEW p \in Proc, PrepareAddUserRetry(p)
      PROVE  PrivateOnce'
  BY <1>17 DEF PrepareAddUserRetry, Refused
<1>18. ASSUME NEW p \in Proc, SendToBMSAccountCreate(p)
      PROVE  PrivateOnce'
  BY <1>18 DEF SendToBMSAccountCreate, Refused
<1>19. ASSUME NEW p \in Proc, FinalizeAccountCreate(p)
      PROVE  PrivateOnce'
  BY <1>19 DEF FinalizeAccountCreate
<1>20. ASSUME NEW p \in Proc, FinalizeAccountCreateWrite(p)
      PROVE  PrivateOnce'
  <2>1. CASE info' = info
    BY <1>20, <2>1 DEF FinalizeAccountCreateWrite
  <2>2. CASE info' = [info EXCEPT ![cid[p]] = Completed(NewInfo(ctyp[p]))]
    <3>1. /\ info'[cid[p]].type = ctyp[p]
          /\ \A i \in Ids : i # cid[p] => info'[i] = info[i]
          /\ cpc[p] = "finWrite" /\ cid[p] \in Ids
      BY <1>20, <2>2 DEF FinalizeAccountCreateWrite, NewInfo, Completed
    <3>2. cpc' = [cpc EXCEPT ![p] = "end"] \/ info' = info
      BY <1>20 DEF FinalizeAccountCreateWrite
    <3>3. CASE cpc' = [cpc EXCEPT ![p] = "end"]
      <4>1. \A q \in Proc : cpc'[q] \notin CreateWork \cup {"mark"}
        BY <3>1, <3>3
      <4>2. \A i \in Ids : Live(i)' /\ i # cid[p] => Live(i)
        BY <3>1
      <4>3. \A i \in Ids : Live(i)' /\ i # cid[p] /\ ctyp[p] = "PRIVATE" =>
                             info'[i].type # "PRIVATE"
        BY <3>1, <4>2
      <4>4. ASSUME NEW i \in Ids, NEW j \in Ids, Live(i)', Live(j)',
                   info'[i].type = "PRIVATE", info'[j].type = "PRIVATE"
            PROVE  i = j
        BY <3>1, <4>2, <4>3, <4>4
      <4> QED BY <4>1, <4>4
    <3> QED BY <2>1, <3>2, <3>3
  <2> QED BY <1>20, <2>1, <2>2 DEF FinalizeAccountCreateWrite
<1>21. ASSUME NEW p \in Proc, RollbackTee(p)
      PROVE  PrivateOnce'
  BY <1>21 DEF RollbackTee, RollbackNext, RollbackFails
<1>22. ASSUME NEW p \in Proc, RollbackBms(p)
      PROVE  PrivateOnce'
  BY <1>22 DEF RollbackBms, RollbackNext, RollbackFails
<1>23. ASSUME NEW p \in Proc, RollbackStorage(p)
      PROVE  PrivateOnce'
  BY <1>23 DEF RollbackStorage, RollbackNext, RollbackFails
<1>24. ASSUME NEW p \in Proc, HandleUnbindDomainAccountFailed(p)
      PROVE  PrivateOnce'
  BY <1>24 DEF HandleUnbindDomainAccountFailed
<1>25. ASSUME NEW p \in Proc, RollbackDelInfo(p)
      PROVE  PrivateOnce'
  <2>1. \A i \in Ids : Live(i)' => info'[i] = info[i]
    BY <1>25 DEF RollbackDelInfo
  <2>2. \A q \in Proc : cpc'[q] \in CreateWork \cup {"mark"} =>
                          cpc[q] \in CreateWork \cup {"mark"} /\ ctyp'[q] = ctyp[q]
    BY <1>25 DEF RollbackDelInfo
  <2> QED BY <2>1, <2>2
<1>26. ASSUME NEW p \in Proc, RollbackDelList(p)
      PROVE  PrivateOnce'
  BY <1>26 DEF RollbackDelList
<1>27. ASSUME NEW p \in Proc, CreateReturn(p)
      PROVE  PrivateOnce'
  BY <1>27 DEF CreateReturn
<1>28. ASSUME NEW p \in Proc, CleanNext(p)
      PROVE  PrivateOnce'
  BY <1>28 DEF CleanNext
<1>29. ASSUME NEW p \in Proc, ReadForRemove(p)
      PROVE  PrivateOnce'
  BY <1>29 DEF ReadForRemove
<1>30. ASSUME NEW p \in Proc, SetRemoveFlag(p)
      PROVE  PrivateOnce'
  BY <1>30 DEF SetRemoveFlag
<1>31. ASSUME NEW p \in Proc, SetRemoveFlagWrite(p)
      PROVE  PrivateOnce'
  <2>1. \A i \in Ids : Live(i)' => info'[i] = info[i]
    <3> SUFFICES ASSUME NEW i \in Ids, Live(i)', info'[i] # info[i] PROVE FALSE
      OBVIOUS
    <3>1. rid[p] \in Ids /\ snap[p] \in Info
      BY <1>31 DEF SetRemoveFlagWrite
    <3>2. info' = [info EXCEPT ![rid[p]] = [snap[p] EXCEPT !.toBeRemoved = TRUE]]
      BY <1>31 DEF SetRemoveFlagWrite, Flagged
    <3>3. info'[i] = [snap[p] EXCEPT !.toBeRemoved = TRUE]
      BY <3>1, <3>2
    <3> QED BY <3>1, <3>3 DEF Info
  <2>2. \A q \in Proc : cpc'[q] \in CreateWork \cup {"mark"} =>
                          cpc[q] \in CreateWork \cup {"mark"} /\ ctyp'[q] = ctyp[q]
    BY <1>31 DEF SetRemoveFlagWrite
  <2> QED BY <2>1, <2>2
<1>32. ASSUME NEW p \in Proc, OperateTee(p)
      PROVE  PrivateOnce'
  BY <1>32 DEF OperateTee
<1>33. ASSUME NEW p \in Proc, PrepareRemoveOsAccount(p)
      PROVE  PrivateOnce'
  BY <1>33 DEF PrepareRemoveOsAccount
<1>34. ASSUME NEW p \in Proc, OperateBms(p)
      PROVE  PrivateOnce'
  BY <1>34 DEF OperateBms
<1>35. ASSUME NEW p \in Proc, OperateStorage(p)
      PROVE  PrivateOnce'
  BY <1>35 DEF OperateStorage
<1>36. ASSUME NEW p \in Proc, OperateDelInfo(p)
      PROVE  PrivateOnce'
  BY <1>36 DEF OperateDelInfo
<1>37. ASSUME NEW p \in Proc, OperateDelList(p)
      PROVE  PrivateOnce'
  BY <1>37 DEF OperateDelList
<1>38. ASSUME NEW p \in Proc, OperateConstraints(p)
      PROVE  PrivateOnce'
  BY <1>38 DEF OperateConstraints
<1>39. ASSUME NEW p \in Proc, RemoveReturn(p)
      PROVE  PrivateOnce'
  BY <1>39 DEF RemoveReturn
<1>40. ASSUME NEW p \in Proc, UpdateOsAccount(p)
      PROVE  PrivateOnce'
  BY <1>40 DEF UpdateOsAccount
<1>41. ASSUME NEW p \in Proc, UpdateOsAccountWrite(p)
      PROVE  PrivateOnce'
  <2>1. \A i \in Ids : Live(i)' => info'[i] = info[i]
    BY <1>41 DEF UpdateOsAccountWrite
  <2>2. \A q \in Proc : cpc'[q] \in CreateWork \cup {"mark"} =>
                          cpc[q] \in CreateWork \cup {"mark"} /\ ctyp'[q] = ctyp[q]
    BY <1>41 DEF UpdateOsAccountWrite
  <2> QED BY <2>1, <2>2
<1>42. ASSUME NEW p \in Proc, UpdateReturn(p)
      PROVE  PrivateOnce'
  BY <1>42 DEF UpdateReturn
<1>43. ASSUME NEW p \in Proc, NEW t \in Types, NEW w \in Ids \cup {0}, CreateOsAccount(p, t, w)
      PROVE  PrivateOnce'
  BY <1>43 DEF CreateOsAccount, Idle
<1>44. ASSUME NEW p \in Proc, NEW t \in Types, NEW w \in Ids \cup {0}, BindDomainAccount(p, t, w)
      PROVE  PrivateOnce'
  BY <1>44 DEF BindDomainAccount, Idle
<1>45. ASSUME NEW p \in Proc, NEW i \in Ids, RemoveOsAccount(p, i)
      PROVE  PrivateOnce'
  BY <1>45 DEF RemoveOsAccount, Idle
<1>46. ASSUME NEW p \in Proc, NEW i \in Ids, SetOsAccountInfo(p, i)
      PROVE  PrivateOnce'
  BY <1>46 DEF SetOsAccountInfo, Idle
<1>47. ASSUME NEW p \in Proc, NEW i \in Ids, ActivateOsAccount(p, i)
      PROVE  PrivateOnce'
  BY <1>47 DEF ActivateOsAccount, Idle
<1>48. ASSUME NEW p \in Proc, NEW i \in Ids, NEW b \in BOOLEAN, SetOsAccountToBeRemoved(p, i, b)
      PROVE  PrivateOnce'
  BY <1>48 DEF SetOsAccountToBeRemoved, Idle
<1>49. ASSUME NEW p \in Proc, CleanGarbageOsAccounts(p)
      PROVE  PrivateOnce'
  BY <1>49 DEF CleanGarbageOsAccounts, StartClean, Idle
<1> HIDE DEF PrivateOnce, TypeInv, TypeOK, Nesting, Bound
<1>s. ASSUME NEW p \in Proc, Step(p)
      PROVE  PrivateOnce'
  <2>1. CASE CreateStep(p)
    BY <2>1, <1>1, <1>2, <1>3, <1>4, <1>5, <1>6, <1>7, <1>8, <1>9, <1>10, <1>11, <1>12,
       <1>13, <1>14, <1>15, <1>16, <1>17, <1>18, <1>19, <1>20, <1>21, <1>22, <1>23,
       <1>24, <1>25, <1>26, <1>27 DEF CreateStep
  <2>2. CASE RemoveStep(p)
    BY <2>2, <1>28, <1>29, <1>30, <1>31, <1>32, <1>33, <1>34, <1>35, <1>36, <1>37,
       <1>38, <1>39 DEF RemoveStep
  <2>3. CASE UpdateStep(p)
    BY <2>3, <1>40, <1>41, <1>42 DEF UpdateStep
  <2> QED BY <1>s, <2>1, <2>2, <2>3 DEF Step
<1>k. ASSUME NEW p \in Proc, Call(p)
      PROVE  PrivateOnce'
  BY <1>k, <1>43, <1>44, <1>45, <1>46, <1>47, <1>48, <1>49 DEF Call
<1> QED BY <1>u, <1>c, <1>s, <1>k DEF Next

LEMMA LiveInduction ==
    ASSUME NoReuse, NoRevival
    PROVE  Spec => [](LiveInv /\ PrivateOnce)
<1> DEFINE J == IInv /\ FlagInv /\ LiveInv /\ PrivateOnce
<1>1. Init => J
  <2>1. Init => IInv
    BY IInvInit
  <2> QED BY <2>1 DEF Init, FlagInv, UpdatesMark, RemoveFlagKept, LiveInv, CreatorsRecord,
        RemovedIsDead, LiveHasData, PrivateOnce, Live, CreateWork, RemoveWork, Deleting, Upd
<1>2. J /\ [Next]_vars => J'
  <2>1. IInv /\ FlagInv /\ [Next]_vars => FlagInv'
    BY FlagStep DEF NoRevival
  <2> QED BY <2>1, IInvStep, LiveStep, PrivateStep DEF FlagInv
<1>3. J => LiveInv /\ PrivateOnce
  OBVIOUS
<1> HIDE DEF J
<1> QED BY <1>1, <1>2, <1>3, PTL DEF Spec

\* An account that the queries return is whole: it is listed, and storage and bundle
\* manager have its data, whatever creations, rollbacks, removals, collections and
\* crashes there were.
THEOREM LiveAccountsAreWhole ==
    ASSUME NoReuse, NoRevival PROVE Spec => []LiveHasData
<1>1. LiveInv => LiveHasData
  BY DEF LiveInv
<1> QED BY <1>1, LiveInduction, PTL

\* CheckTypeNumber and the completion of the record are many steps apart:
\* createOsAccountMutex_ alone keeps the number of private accounts at one.
THEOREM OnePrivateAccount ==
    ASSUME NoReuse, NoRevival PROVE Spec => []PrivateQuota
<1>1. PrivateOnce => PrivateQuota
  <2> SUFFICES ASSUME PrivateOnce PROVE PrivateQuota
    OBVIOUS
  <2> DEFINE S == {i \in Ids : Live(i) /\ info[i].type = "PRIVATE"}
  <2>1. CASE S = {}
    <3>1. Cardinality(S) = 0
      BY <2>1, FS_EmptySet
    <3> QED BY <3>1 DEF PrivateQuota
  <2>2. CASE S # {}
    <3>1. PICK x \in S : TRUE
      BY <2>2
    <3>2. S = {x}
      BY <3>1 DEF PrivateOnce
    <3>3. Cardinality(S) = 1
      BY <3>2, FS_Singleton
    <3> QED BY <3>3 DEF PrivateQuota
  <2> QED BY <2>1, <2>2
<1> QED BY <1>1, LiveInduction, PTL

\* There is room for one account more.
Room == Cardinality(acctList) + 1 < MaxOsAccountNum

\* From the check of the quota to the insertion there is room; a collector that
\* works for the check makes it, or somebody else has.
RoomKept ==
    \A p \in Proc :
        /\ cpc[p] \in {"fill", "check", "mark", "insert"} => Room
        /\ cpc[p] = "capWait" =>
              /\ cleaned[p] \/ rpc[p] = "opCons" => Room
              /\ Room \/ /\ todo[p] \subseteq acctList
                         /\ rpc[p] \notin {"idle", "next", "opCons", "opEnd"} => rid[p] \in acctList

RoomInv == MaxOsAccountNum > 1 => RoomKept /\ AccountQuota

\* The configured maximum counts if the list can be read: GetNonSACreatedOACount of
\* a list that cannot be read is 0, and the creation goes on.
ListReadable == "io" \notin Faults

LEMMA RoomStep ==
    ASSUME NoReuse, ListReadable PROVE IInv /\ RoomInv /\ [Next]_vars => RoomInv'
<1> SUFFICES ASSUME IInv, RoomKept, AccountQuota, MaxOsAccountNum > 1, [Next]_vars
             PROVE  RoomKept' /\ AccountQuota'
  BY DEF RoomInv
<1>a. TypeInv /\ Cardinality(acctList) \in Nat /\ IsFiniteSet(acctList)
  BY IdsAreFinite DEF IInv, TypeInv, TypeOK
<1>h. Cardinality(acctList') \in Nat
  BY TypeStep, IdsAreFinite DEF IInv, TypeInv, TypeOK
<1>b. /\ \A p, q \in Proc :
            {cpc[p], cpc[q]} \subseteq {"cap", "capWait", "fill", "check", "mark", "insert"}
               => p = q
      /\ \A p \in Proc : /\ cpc[p] \notin {"assignWait", "bound", "bindUpd", "bindWrite", "unbind"}
                         /\ cpc[p] = "fill" => want[p] = 0
  BY DEF IInv, OneCreator, Creating, CreateWork
<1>d. \A x : Cardinality(acctList \cup {x}) <= Cardinality(acctList) + 1
  <2> SUFFICES ASSUME NEW x PROVE Cardinality(acctList \cup {x}) <= Cardinality(acctList) + 1
    OBVIOUS
  <2>1. CASE x \in acctList
    <3>1. acctList \cup {x} = acctList
      BY <2>1
    <3> QED BY <1>a, <3>1
  <2>2. CASE x \notin acctList
    BY <1>a, <2>2, FS_AddElement
  <2> QED BY <2>1, <2>2
<1>e. \A x : x \in acctList => Cardinality(acctList \ {x}) = Cardinality(acctList) - 1
  BY <1>a, FS_RemoveElement
\* An entry that leaves the list makes room.
<1>f. ASSUME NEW x, acctList' = acctList \ {x}
      PROVE  acctList' = acctList \/ (x \in acctList /\ Room')
  BY <1>a, <1>e, <1>f, LifecycleConstants DEF Room, AccountQuota
<1>g. acctList' = acctList \/ Room' => AccountQuota'
  BY <1>h, LifecycleConstants DEF AccountQuota, Room
<1> USE LifecycleConstants, <1>a, <1>b
    DEF RoomKept, TypeInv, TypeOK, Nesting, Bound, disk, services, locks, create, remove,
        GoC, GoR, CreatePc, RemovePc, CreateWork, Wait, Upd
<1>u. CASE UNCHANGED vars
  BY <1>u DEF vars, Room, AccountQuota
<1>c. CASE Crash
  BY <1>c DEF Crash, Room, AccountQuota
<1>1. ASSUME NEW p \in Proc, CheckAndCleanOsAccounts(p)
      PROVE  RoomKept' /\ AccountQuota'
  BY <1>1 DEF CheckAndCleanOsAccounts, StartClean, Room, AccountQuota, ListReadable
<1>2. ASSUME NEW p \in Proc, CheckAndCleanDone(p)
      PROVE  RoomKept' /\ AccountQuota'
  BY <1>2 DEF CheckAndCleanDone, Room, AccountQuota
<1>3. ASSUME NEW p \in Proc, GetAllowCreateId(p)
      PROVE  RoomKept' /\ AccountQuota'
  BY <1>3 DEF GetAllowCreateId, Room, AccountQuota
<1>4. ASSUME NEW p \in Proc, AssignSpecifiedLocalId(p)
      PROVE  RoomKept' /\ AccountQuota'
  BY <1>4 DEF AssignSpecifiedLocalId
<1>5. ASSUME NEW p \in Proc, AssignSpecifiedLocalIdDone(p)
      PROVE  RoomKept' /\ AccountQuota'
  BY <1>5 DEF AssignSpecifiedLocalIdDone
<1>6. ASSUME NEW p \in Proc, ValidateOsAccount(p)
      PROVE  RoomKept' /\ AccountQuota'
  BY <1>6 DEF ValidateOsAccount, Room, AccountQuota
<1>7. ASSUME NEW p \in Proc, MarkCreating(p)
      PROVE  RoomKept' /\ AccountQuota'
  BY <1>7 DEF MarkCreating, Room, AccountQuota
<1>8. ASSUME NEW p \in Proc, InsertOsAccount(p)
      PROVE  RoomKept' /\ AccountQuota'
  <2>1. CASE acctList' = acctList
    BY <1>8, <2>1 DEF InsertOsAccount, Room, AccountQuota
  <2>2. CASE acctList' = acctList \cup {cid[p]}
    <3>1. Room
      BY <1>8 DEF InsertOsAccount
    <3>2. Cardinality(acctList') <= Cardinality(acctList) + 1
      BY <1>d, <2>2
    <3>3. AccountQuota'
      BY <1>h, <3>1, <3>2 DEF Room, AccountQuota
    <3>4. RoomKept'
      BY <1>8, <2>2 DEF InsertOsAccount
    <3> QED BY <3>3, <3>4
  <2> QED BY <1>8, <2>1, <2>2 DEF InsertOsAccount
<1>9. ASSUME NEW p \in Proc, InsertOsAccountInfo(p)
      PROVE  RoomKept' /\ AccountQuota'
  BY <1>9 DEF InsertOsAccountInfo, Room, AccountQuota
<1>10. ASSUME NEW p \in Proc, UpdateBaseOAConstraints(p)
      PROVE  RoomKept' /\ AccountQuota'
  BY <1>10 DEF UpdateBaseOAConstraints, Room, AccountQuota
<1>11. ASSUME NEW p \in Proc, BindDomainAccountUnmark(p)
      PROVE  RoomKept' /\ AccountQuota'
  BY <1>11 DEF BindDomainAccountUnmark
<1>12. ASSUME NEW p \in Proc, BindDomainAccountUpdate(p)
      PROVE  RoomKept' /\ AccountQuota'
  BY <1>12 DEF BindDomainAccountUpdate
<1>13. ASSUME NEW p \in Proc, BindDomainAccountReturn(p)
      PROVE  RoomKept' /\ AccountQuota'
  BY <1>13 DEF BindDomainAccountReturn
<1>14. ASSUME NEW p \in Proc, HandleCreateOsAccountToken(p)
      PROVE  RoomKept' /\ AccountQuota'
  BY <1>14 DEF HandleCreateOsAccountToken, StartClean, Room, AccountQuota
<1>15. ASSUME NEW p \in Proc, InsertOsAccountTypeRetry(p)
      PROVE  RoomKept' /\ AccountQuota'
  BY <1>15 DEF InsertOsAccountTypeRetry, Room, AccountQuota
<1>16. ASSUME NEW p \in Proc, SendToStorageAccountCreate(p)
      PROVE  RoomKept' /\ AccountQuota'
  BY <1>16 DEF SendToStorageAccountCreate, Refused, StartClean, Room, AccountQuota
<1>17. ASSUME NEW p \in Proc, PrepareAddUserRetry(p)
      PROVE  RoomKept' /\ AccountQuota'
  BY <1>17 DEF PrepareAddUserRetry, Refused, Room, AccountQuota
<1>18. ASSUME NEW p \in Proc, SendToBMSAccountCreate(p)
      PROVE  RoomKept' /\ AccountQuota'
  BY <1>18 DEF SendToBMSAccountCreate, Refused, Room, AccountQuota
<1>19. ASSUME NEW p \in Proc, FinalizeAccountCreate(p)
      PROVE  RoomKept' /\ AccountQuota'
  BY <1>19 DEF FinalizeAccountCreate, Room, AccountQuota
<1>20. ASSUME NEW p \in Proc, FinalizeAccountCreateWrite(p)
      PROVE  RoomKept' /\ AccountQuota'
  BY <1>20 DEF FinalizeAccountCreateWrite, Room, AccountQuota
<1>21. ASSUME NEW p \in Proc, RollbackTee(p)
      PROVE  RoomKept' /\ AccountQuota'
  BY <1>21 DEF RollbackTee, RollbackNext, RollbackFails, Room, AccountQuota
<1>22. ASSUME NEW p \in Proc, RollbackBms(p)
      PROVE  RoomKept' /\ AccountQuota'
  BY <1>22 DEF RollbackBms, RollbackNext, RollbackFails, Room, AccountQuota
<1>23. ASSUME NEW p \in Proc, RollbackStorage(p)
      PROVE  RoomKept' /\ AccountQuota'
  BY <1>23 DEF RollbackStorage, RollbackNext, RollbackFails, Room, AccountQuota
<1>24. ASSUME NEW p \in Proc, HandleUnbindDomainAccountFailed(p)
      PROVE  RoomKept' /\ AccountQuota'
  BY <1>24 DEF HandleUnbindDomainAccountFailed
<1>25. ASSUME NEW p \in Proc, RollbackDelInfo(p)
      PROVE  RoomKept' /\ AccountQuota'
  BY <1>25 DEF RollbackDelInfo, Room, AccountQuota
<1>26. ASSUME NEW p \in Proc, RollbackDelList(p)
      PROVE  RoomKept' /\ AccountQuota'
  <2>1. acctList' = acctList \/ Room'
    BY <1>26, <1>f DEF RollbackDelList
  <2>2. RoomKept'
    BY <1>26, <2>1 DEF RollbackDelList, Room
  <2> QED BY <1>g, <2>1, <2>2
<1>27. ASSUME NEW p \in Proc, CreateReturn(p)
      PROVE  RoomKept' /\ AccountQuota'
  BY <1>27 DEF CreateReturn, Room, AccountQuota
<1>28. ASSUME NEW p \in Proc, CleanNext(p)
      PROVE  RoomKept' /\ AccountQuota'
  BY <1>28 DEF CleanNext, Room, AccountQuota
<1>29. ASSUME NEW p \in Proc, ReadForRemove(p)
      PROVE  RoomKept' /\ AccountQuota'
  BY <1>29 DEF ReadForRemove, Room, AccountQuota
<1>30. ASSUME NEW p \in Proc, SetRemoveFlag(p)
      PROVE  RoomKept' /\ AccountQuota'
  BY <1>30 DEF SetRemoveFlag, Room, AccountQuota
<1>31. ASSUME NEW p \in Proc, SetRemoveFlagWrite(p)
      PROVE  RoomKept' /\ AccountQuota'
  <2>1. /\ rpc[p] = "flagWrite"
        /\ \E c \in {"opTee", "opEnd"} : rpc' = [rpc EXCEPT ![p] = c]
        /\ UNCHANGED <<acctList, cpc, remove>>
    BY <1>31 DEF SetRemoveFlagWrite
  <2> QED BY <2>1 DEF Room, AccountQuota
<1>32. ASSUME NEW p \in Proc, OperateTee(p)
      PROVE  RoomKept' /\ AccountQuota'
  BY <1>32 DEF OperateTee, Room, AccountQuota
<1>33. ASSUME NEW p \in Proc, PrepareRemoveOsAccount(p)
      PROVE  RoomKept' /\ AccountQuota'
  BY <1>33 DEF PrepareRemoveOsAccount, Room, AccountQuota
<1>34. ASSUME NEW p \in Proc, OperateBms(p)
      PROVE  RoomKept' /\ AccountQuota'
  BY <1>34 DEF OperateBms, Room, AccountQuota
<1>35. ASSUME NEW p \in Proc, OperateStorage(p)
      PROVE  RoomKept' /\ AccountQuota'
  BY <1>35 DEF OperateStorage, Room, AccountQuota
<1>36. ASSUME NEW p \in Proc, OperateDelInfo(p)
      PROVE  RoomKept' /\ AccountQuota'
  BY <1>36 DEF OperateDelInfo, Room, AccountQuota
<1>37. ASSUME NEW p \in Proc, OperateDelList(p)
      PROVE  RoomKept' /\ AccountQuota'
  <2>1. acctList' = acctList \/ (rid[p] \in acctList /\ Room')
    BY <1>37, <1>f DEF OperateDelList
  <2>2. acctList' = acctList \ {rid[p]}
    BY <1>37 DEF OperateDelList, ListReadable
  <2>3. Room => Room'
    BY <2>1 DEF Room
  <2>4. cpc[p] = "capWait" => Room'
    BY <1>37, <2>1, <2>2, <2>3 DEF OperateDelList
  <2>5. Room' \/ (acctList' = acctList /\ Room' = Room)
    BY <2>1 DEF Room
  <2>6. RoomKept'
    <3> QED BY <1>37, <1>a, <2>3, <2>4, <2>5 DEF OperateDelList
  <2> QED BY <1>g, <2>1, <2>6
<1>38. ASSUME NEW p \in Proc, OperateConstraints(p)
      PROVE  RoomKept' /\ AccountQuota'
  BY <1>38 DEF OperateConstraints, Room, AccountQuota
<1>39. ASSUME NEW p \in Proc, RemoveReturn(p)
      PROVE  RoomKept' /\ AccountQuota'
  BY <1>39 DEF RemoveReturn, Room, AccountQuota
<1>40. ASSUME NEW p \in Proc, UpdateOsAccount(p)
      PROVE  RoomKept' /\ AccountQuota'
  BY <1>40 DEF UpdateOsAccount, Room, AccountQuota
<1>41. ASSUME NEW p \in Proc, UpdateOsAccountWrite(p)
      PROVE  RoomKept' /\ AccountQuota'
  BY <1>41 DEF UpdateOsAccountWrite, Room, AccountQuota
<1>42. ASSUME NEW p \in Proc, UpdateReturn(p)
      PROVE  RoomKept' /\ AccountQuota'
  BY <1>42 DEF UpdateReturn, Room, AccountQuota
<1>43. ASSUME NEW p \in Proc, NEW t \in Types, NEW w \in Ids \cup {0}, CreateOsAccount(p, t, w)
      PROVE  RoomKept' /\ AccountQuota'
  BY <1>43 DEF CreateOsAccount, Idle, Room, AccountQuota
<1>44. ASSUME NEW p \in Proc, NEW t \in Types, NEW w \in Ids \cup {0}, BindDomainAccount(p, t, w)
      PROVE  RoomKept' /\ AccountQuota'
  BY <1>44 DEF BindDomainAccount, NoReuse
<1>45. ASSUME NEW p \in Proc, NEW i \in Ids, RemoveOsAccount(p, i)
      PROVE  RoomKept' /\ AccountQuota'
  BY <1>45 DEF RemoveOsAccount, Idle, Room, AccountQuota
<1>46. ASSUME NEW p \in Proc, NEW i \in Ids, SetOsAccountInfo(p, i)
      PROVE  RoomKept' /\ AccountQuota'
  BY <1>46 DEF SetOsAccountInfo, Idle, Room, AccountQuota
<1>47. ASSUME NEW p \in Proc, NEW i \in Ids, ActivateOsAccount(p, i)
      PROVE  RoomKept' /\ AccountQuota'
  BY <1>47 DEF ActivateOsAccount, Idle, Room, AccountQuota
<1>48. ASSUME NEW p \in Proc, NEW i \in Ids, NEW b \in BOOLEAN, SetOsAccountToBeRemoved(p, i, b)
      PROVE  RoomKept' /\ AccountQuota'
  BY <1>48 DEF SetOsAccountToBeRemoved, Idle, Room, AccountQuota
<1>49. ASSUME NEW p \in Proc, CleanGarbageOsAccounts(p)
      PROVE  RoomKept' /\ AccountQuota'
  BY <1>49 DEF CleanGarbageOsAccounts, StartClean, Idle, Room, AccountQuota
<1> HIDE DEF RoomKept, TypeInv, TypeOK, Nesting, Bound
<1>s. ASSUME NEW p \in Proc, Step(p)
      PROVE  RoomKept' /\ AccountQuota'
  <2>1. CASE CreateStep(p)
    BY <2>1, <1>1, <1>2, <1>3, <1>4, <1>5, <1>6, <1>7, <1>8, <1>9, <1>10, <1>11, <1>12,
       <1>13, <1>14, <1>15, <1>16, <1>17, <1>18, <1>19, <1>20, <1>21, <1>22, <1>23,
       <1>24, <1>25, <1>26, <1>27 DEF CreateStep
  <2>2. CASE RemoveStep(p)
    BY <2>2, <1>28, <1>29, <1>30, <1>31, <1>32, <1>33, <1>34, <1>35, <1>36, <1>37,
       <1>38, <1>39 DEF RemoveStep
  <2>3. CASE UpdateStep(p)
    BY <2>3, <1>40, <1>41, <1>42 DEF UpdateStep
  <2> QED BY <1>s, <2>1, <2>2, <2>3 DEF Step
<1>k. ASSUME NEW p \in Proc, Call(p)
      PROVE  RoomKept' /\ AccountQuota'
  BY <1>k, <1>43, <1>44, <1>45, <1>46, <1>47, <1>48, <1>49 DEF Call
<1> QED BY <1>u, <1>c, <1>s, <1>k DEF Next

\* The number of records, garbage included, never passes the configured maximum: a
\* creation above it has removed something first, and no other creation has come
\* between.
THEOREM QuotaKept ==
    ASSUME NoReuse, ListReadable PROVE Spec => []AccountQuota
<1>1. Init => IInv /\ RoomInv
  <2>1. Init => Cardinality(acctList) = 0
    BY FS_EmptySet DEF Init
  <2> QED BY <2>1, IInvInit, LifecycleConstants DEF Init, RoomInv, RoomKept, AccountQuota
<1>2. (IInv /\ RoomInv) /\ [Next]_vars => (IInv /\ RoomInv)'
  BY IInvStep, RoomStep
<1>3. RoomInv => AccountQuota
  BY DEF RoomInv, AccountQuota
<1> QED BY <1>1, <1>2, <1>3, PTL DEF Spec

=============================================================================
