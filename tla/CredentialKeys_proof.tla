------------------------ MODULE CredentialKeys_proof ------------------------
(***************************************************************************)
(* Theorems about CredentialKeys, for any number of threads and            *)
(* credentials and any set of worlds.                                      *)
(***************************************************************************)
EXTENDS CredentialKeys, TLAPS

AddPlaces == {"addIdm", "addRecord", "addKey", "addContext"}
UpdPlaces == {"updKey", "updDelete", "updRecord", "updContext"}
DelPlaces == {"delKey", "delIdm", "delDone", "delContext", "delRecord"}
DcPlaces == {"dcIdm", "dcRecord", "dcKey", "dcContext"}
AuLocked == {"auKey", "auContext", "auDone"}
AuPlaces == AuLocked \cup {"auInfo", "auActivate"}
AcPlaces == {"acPin", "acDrop", "acActivate"}
Locked == AddPlaces \cup UpdPlaces \cup DelPlaces \cup AuLocked \cup {"done"}

Records == [call : Calls \cup {"none"}, at : Places, cred : Cred \cup {None}, old : Cred \cup {None}]

\* A thread is only at the places of its call, and has the credentials that
\* it needs there.
PlacesOfCalls ==
    \A p \in Proc :
        /\ pc[p].at = "idle" <=> pc[p] = Idle
        /\ pc[p].at \in AddPlaces => pc[p].call = "add"
        /\ pc[p].at \in UpdPlaces => pc[p].call = "update"
        /\ pc[p].at \in DelPlaces => pc[p].call = "delUser"
        /\ pc[p].at \in DcPlaces => pc[p].call = "delCred"
        /\ pc[p].at \in AuPlaces => pc[p].call = "auth"
        /\ pc[p].at \in AcPlaces => pc[p].call = "activate"
        /\ pc[p].at = "done" => pc[p].call \in {"add", "update", "delUser"}
        /\ pc[p].at = "updUndo" => pc[p].call = "update" /\ pc[p].cred \in Cred
        /\ pc[p].call # "none" => pc[p].call \in world.ops
        /\ pc[p].at \in {"addRecord", "addKey", "addContext", "delKey", "delIdm"}
                      \cup UpdPlaces \cup DcPlaces \cup AuPlaces
              => pc[p].cred \in Cred
        /\ pc[p].at \in UpdPlaces => pc[p].old \in Cred \ {pc[p].cred}

\* GetOperatingUserLock: the places that are behind the lock_guard, and no
\* others, belong to the thread that has the lock.
LockHeld == \A p \in Proc : pc[p].at \in Locked <=> lock = p

WorldOK == \E w \in Worlds : world \in [ops : {w.ops}, faults : {w.faults}, crashes : 0 .. w.crashes]

Typing ==
    /\ idm \subseteq Cred
    /\ keys \subseteq Cred \cup {Empty} /\ latest \in keys /\ open \in BOOLEAN
    /\ record \in Cred \cup {None} /\ fault \in BOOLEAN
    /\ lock \in Proc \cup {None}
    /\ pc \in [Proc -> Records]

TInv == WorldOK /\ Typing /\ PlacesOfCalls /\ LockHeld

(* The typing invariant holds at first and every step keeps it.          *)
LEMMA InitTyping == Init => TInv
<1> SUFFICES ASSUME Init PROVE TInv
  OBVIOUS
<1>1. WorldOK
  BY ConstantsOK DEF Init, WorldOK
<1>2. Typing /\ PlacesOfCalls /\ LockHeld
  BY ConstantsOK DEF Init, Typing, PlacesOfCalls, LockHeld, Records, Places, Calls, Idle, At,
     Locked, AddPlaces, UpdPlaces, DelPlaces, DcPlaces, AuPlaces, AuLocked, AcPlaces
<1> QED BY <1>1, <1>2 DEF TInv

LEMMA StepTyping == TInv /\ [Next]_vars => TInv'
<1> SUFFICES ASSUME TInv, [Next]_vars PROVE TInv'
  OBVIOUS
<1> USE ConstantsOK DEF TInv, Records, Places, Calls, At, Idle, Goto, Return, storage, disk,
            Locked, AddPlaces, UpdPlaces, DelPlaces, DcPlaces, AuPlaces, AuLocked, AcPlaces
<1>1. ASSUME NEW p \in Proc, AddCredential(p) PROVE TInv'
  <2> USE <1>1 DEF AddCredential, MayBegin, Lock, CreateSecretFaultFile
  <2>1. WorldOK'
    BY DEF WorldOK
  <2>a. fault' \in BOOLEAN
    BY Zenon DEF Typing
  <2>2. Typing'
    BY <2>a DEF Typing, PlacesOfCalls
  <2>3. PlacesOfCalls'
    BY SMTT(30) DEF Typing, PlacesOfCalls
  <2>4. LockHeld'
    BY DEF Typing, LockHeld
  <2> QED BY <2>1, <2>2, <2>3, <2>4
<1>2. ASSUME NEW p \in Proc, UpdateCredential(p) PROVE TInv'
  <2> USE <1>2 DEF UpdateCredential, MayBegin, Lock, Fresh
  <2>1. WorldOK'
    BY DEF WorldOK
  <2>2. Typing'
    BY DEF Typing, PlacesOfCalls
  <2>3. PlacesOfCalls'
    BY SMTT(30) DEF Typing, PlacesOfCalls
  <2>4. LockHeld'
    BY DEF Typing, LockHeld
  <2> QED BY <2>1, <2>2, <2>3, <2>4
<1>3. ASSUME NEW p \in Proc, DelUser(p) PROVE TInv'
  <2> USE <1>3 DEF DelUser, MayBegin, Lock, CreateSecretFaultFile
  <2>1. WorldOK'
    BY DEF WorldOK
  <2>a. fault' \in BOOLEAN
    BY Zenon DEF Typing
  <2>2. Typing'
    BY <2>a DEF Typing, PlacesOfCalls
  <2>3. PlacesOfCalls'
    BY SMTT(30) DEF Typing, PlacesOfCalls
  <2>4. LockHeld'
    BY DEF Typing, LockHeld
  <2> QED BY <2>1, <2>2, <2>3, <2>4
<1>4. ASSUME NEW p \in Proc, DelCred(p) PROVE TInv'
  <2> USE <1>4 DEF DelCred, MayBegin
  <2>1. WorldOK'
    BY DEF WorldOK
  <2>2. Typing'
    BY DEF Typing, PlacesOfCalls
  <2>3. PlacesOfCalls'
    BY SMTT(30) DEF Typing, PlacesOfCalls
  <2>4. LockHeld'
    BY DEF Typing, LockHeld
  <2> QED BY <2>1, <2>2, <2>3, <2>4
<1>5. ASSUME NEW p \in Proc, UnlockUserStorage(p) PROVE TInv'
  <2> USE <1>5 DEF UnlockUserStorage, MayBegin
  <2>1. WorldOK'
    BY DEF WorldOK
  <2>2. Typing'
    BY DEF Typing, PlacesOfCalls
  <2>3. PlacesOfCalls'
    BY SMTT(30) DEF Typing, PlacesOfCalls
  <2>4. LockHeld'
    BY DEF Typing, LockHeld
  <2> QED BY <2>1, <2>2, <2>3, <2>4
<1>6. ASSUME NEW p \in Proc, NeedSkipActiveUserKey(p) PROVE TInv'
  <2> USE <1>6 DEF NeedSkipActiveUserKey, MayBegin
  <2>1. WorldOK'
    BY DEF WorldOK
  <2>2. Typing'
    BY DEF Typing, PlacesOfCalls
  <2>3. PlacesOfCalls'
    BY SMTT(30) DEF Typing, PlacesOfCalls
  <2>4. LockHeld'
    BY DEF Typing, LockHeld
  <2> QED BY <2>1, <2>2, <2>3, <2>4
<1>7. ASSUME NEW p \in Proc, AddCredIdm(p) PROVE TInv'
  <2> USE <1>7 DEF AddCredIdm, Fresh
  <2>1. WorldOK'
    BY DEF WorldOK
  <2>2. Typing'
    BY DEF Typing, PlacesOfCalls
  <2>3. PlacesOfCalls'
    BY SMTT(30) DEF Typing, PlacesOfCalls
  <2>4. LockHeld'
    BY DEF Typing, LockHeld
  <2> QED BY <2>1, <2>2, <2>3, <2>4
<1>8. ASSUME NEW p \in Proc, AddCredRecord(p) PROVE TInv'
  <2> USE <1>8 DEF AddCredRecord
  <2>1. WorldOK'
    BY DEF WorldOK
  <2>2. Typing'
    BY DEF Typing, PlacesOfCalls
  <2>3. PlacesOfCalls'
    BY SMTT(30) DEF Typing, PlacesOfCalls
  <2>4. LockHeld'
    BY DEF Typing, LockHeld
  <2> QED BY <2>1, <2>2, <2>3, <2>4
<1>9. ASSUME NEW p \in Proc, AddUserKey(p) PROVE TInv'
  <2> USE <1>9 DEF AddUserKey, Unlock, UpdateStorageUserAuth
  <2>1. WorldOK'
    BY DEF WorldOK
  <2>2. Typing'
    BY DEF Typing, PlacesOfCalls
  <2>3. PlacesOfCalls'
    BY SMTT(30) DEF Typing, PlacesOfCalls
  <2>4. LockHeld'
    BY DEF Typing, LockHeld
  <2> QED BY <2>1, <2>2, <2>3, <2>4
<1>10. ASSUME NEW p \in Proc, AddUserKeyContext(p) PROVE TInv'
  <2> USE <1>10 DEF AddUserKeyContext, Unlock, UpdateStorageKeyContext
  <2>1. WorldOK'
    BY DEF WorldOK
  <2>2. Typing'
    BY DEF Typing, PlacesOfCalls
  <2>3. PlacesOfCalls'
    BY SMTT(30) DEF Typing, PlacesOfCalls
  <2>4. LockHeld'
    BY DEF Typing, LockHeld
  <2> QED BY <2>1, <2>2, <2>3, <2>4
<1>11. ASSUME NEW p \in Proc, FaultFileDone(p) PROVE TInv'
  <2> USE <1>11 DEF FaultFileDone, Unlock, DeleteSecretFaultFile
  <2>1. WorldOK'
    BY DEF WorldOK
  <2>a. fault' \in BOOLEAN
    BY Zenon DEF Typing
  <2>2. Typing'
    BY <2>a DEF Typing, PlacesOfCalls
  <2>3. PlacesOfCalls'
    BY SMTT(30) DEF Typing, PlacesOfCalls
  <2>4. LockHeld'
    BY DEF Typing, LockHeld
  <2> QED BY <2>1, <2>2, <2>3, <2>4
<1>12. ASSUME NEW p \in Proc, UpdateCredKey(p) PROVE TInv'
  <2> USE <1>12 DEF UpdateCredKey, Unlock, UpdateStorageUserAuth
  <2>1. WorldOK'
    BY DEF WorldOK
  <2>2. Typing'
    BY DEF Typing, PlacesOfCalls
  <2>3. PlacesOfCalls'
    BY SMTT(30) DEF Typing, PlacesOfCalls
  <2>4. LockHeld'
    BY DEF Typing, LockHeld
  <2> QED BY <2>1, <2>2, <2>3, <2>4
<1>13. ASSUME NEW p \in Proc, UpdateCredDelete(p) PROVE TInv'
  <2> USE <1>13 DEF UpdateCredDelete, Unlock
  <2>1. WorldOK'
    BY DEF WorldOK
  <2>2. Typing'
    BY DEF Typing, PlacesOfCalls
  <2>3. PlacesOfCalls'
    BY SMTT(30) DEF Typing, PlacesOfCalls
  <2>4. LockHeld'
    BY DEF Typing, LockHeld
  <2> QED BY <2>1, <2>2, <2>3, <2>4
<1>14. ASSUME NEW p \in Proc, CommitCredUpdate(p) PROVE TInv'
  <2> USE <1>14 DEF CommitCredUpdate
  <2>1. WorldOK'
    BY DEF WorldOK
  <2>2. Typing'
    BY DEF Typing, PlacesOfCalls
  <2>3. PlacesOfCalls'
    BY SMTT(30) DEF Typing, PlacesOfCalls
  <2>4. LockHeld'
    BY DEF Typing, LockHeld
  <2> QED BY <2>1, <2>2, <2>3, <2>4
<1>15. ASSUME NEW p \in Proc, CommitCredUpdateContext(p) PROVE TInv'
  <2> USE <1>15 DEF CommitCredUpdateContext, Unlock, UpdateStorageKeyContext
  <2>1. WorldOK'
    BY DEF WorldOK
  <2>2. Typing'
    BY DEF Typing, PlacesOfCalls
  <2>3. PlacesOfCalls'
    BY SMTT(30) DEF Typing, PlacesOfCalls
  <2>4. LockHeld'
    BY DEF Typing, LockHeld
  <2> QED BY <2>1, <2>2, <2>3, <2>4
<1>16. ASSUME NEW p \in Proc, DelUserKey(p) PROVE TInv'
  <2> USE <1>16 DEF DelUserKey, UpdateStorageUserAuth
  <2>1. WorldOK'
    BY DEF WorldOK
  <2>2. Typing'
    BY DEF Typing, PlacesOfCalls
  <2>3. PlacesOfCalls'
    BY SMTT(30) DEF Typing, PlacesOfCalls
  <2>4. LockHeld'
    BY DEF Typing, LockHeld
  <2> QED BY <2>1, <2>2, <2>3, <2>4
<1>17. ASSUME NEW p \in Proc, DelUserIdm(p) PROVE TInv'
  <2> USE <1>17 DEF DelUserIdm, Unlock
  <2>1. WorldOK'
    BY DEF WorldOK
  <2>2. Typing'
    BY DEF Typing, PlacesOfCalls
  <2>3. PlacesOfCalls'
    BY SMTT(30) DEF Typing, PlacesOfCalls
  <2>4. LockHeld'
    BY DEF Typing, LockHeld
  <2> QED BY <2>1, <2>2, <2>3, <2>4
<1>18. ASSUME NEW p \in Proc, CommitDelCred(p) PROVE TInv'
  <2> USE <1>18 DEF CommitDelCred, DeleteSecretFaultFile
  <2>1. WorldOK'
    BY DEF WorldOK
  <2>a. fault' \in BOOLEAN
    BY Zenon DEF Typing
  <2>2. Typing'
    BY <2>a DEF Typing, PlacesOfCalls
  <2>3. PlacesOfCalls'
    BY SMTT(30) DEF Typing, PlacesOfCalls
  <2>4. LockHeld'
    BY DEF Typing, LockHeld
  <2> QED BY <2>1, <2>2, <2>3, <2>4
<1>19. ASSUME NEW p \in Proc, CommitDelCredContext(p) PROVE TInv'
  <2> USE <1>19 DEF CommitDelCredContext, UpdateStorageKeyContext
  <2>1. WorldOK'
    BY DEF WorldOK
  <2>2. Typing'
    BY DEF Typing, PlacesOfCalls
  <2>3. PlacesOfCalls'
    BY SMTT(30) DEF Typing, PlacesOfCalls
  <2>4. LockHeld'
    BY DEF Typing, LockHeld
  <2> QED BY <2>1, <2>2, <2>3, <2>4
<1>20. ASSUME NEW p \in Proc, CommitDelCredRecord(p) PROVE TInv'
  <2> USE <1>20 DEF CommitDelCredRecord, Unlock
  <2>1. WorldOK'
    BY DEF WorldOK
  <2>2. Typing'
    BY DEF Typing, PlacesOfCalls
  <2>3. PlacesOfCalls'
    BY SMTT(30) DEF Typing, PlacesOfCalls
  <2>4. LockHeld'
    BY DEF Typing, LockHeld
  <2> QED BY <2>1, <2>2, <2>3, <2>4
<1>21. ASSUME NEW p \in Proc, DelCredIdm(p) PROVE TInv'
  <2> USE <1>21 DEF DelCredIdm
  <2>1. WorldOK'
    BY DEF WorldOK
  <2>2. Typing'
    BY DEF Typing, PlacesOfCalls
  <2>3. PlacesOfCalls'
    BY SMTT(30) DEF Typing, PlacesOfCalls
  <2>4. LockHeld'
    BY DEF Typing, LockHeld
  <2> QED BY <2>1, <2>2, <2>3, <2>4
<1>22. ASSUME NEW p \in Proc, DelCredRecord(p) PROVE TInv'
  <2> USE <1>22 DEF DelCredRecord
  <2>1. WorldOK'
    BY DEF WorldOK
  <2>2. Typing'
    BY DEF Typing, PlacesOfCalls
  <2>3. PlacesOfCalls'
    BY SMTT(30) DEF Typing, PlacesOfCalls
  <2>4. LockHeld'
    BY DEF Typing, LockHeld
  <2> QED BY <2>1, <2>2, <2>3, <2>4
<1>23. ASSUME NEW p \in Proc, DelCredKey(p) PROVE TInv'
  <2> USE <1>23 DEF DelCredKey, UpdateStorageUserAuth
  <2>1. WorldOK'
    BY DEF WorldOK
  <2>2. Typing'
    BY DEF Typing, PlacesOfCalls
  <2>3. PlacesOfCalls'
    BY SMTT(30) DEF Typing, PlacesOfCalls
  <2>4. LockHeld'
    BY DEF Typing, LockHeld
  <2> QED BY <2>1, <2>2, <2>3, <2>4
<1>24. ASSUME NEW p \in Proc, DelCredContext(p) PROVE TInv'
  <2> USE <1>24 DEF DelCredContext, UpdateStorageKeyContext
  <2>1. WorldOK'
    BY DEF WorldOK
  <2>2. Typing'
    BY DEF Typing, PlacesOfCalls
  <2>3. PlacesOfCalls'
    BY SMTT(30) DEF Typing, PlacesOfCalls
  <2>4. LockHeld'
    BY DEF Typing, LockHeld
  <2> QED BY <2>1, <2>2, <2>3, <2>4
<1>25. ASSUME NEW p \in Proc, HandleFileKeyException(p) PROVE TInv'
  <2> USE <1>25 DEF HandleFileKeyException, Lock
  <2>1. WorldOK'
    BY DEF WorldOK
  <2>2. Typing'
    BY DEF Typing, PlacesOfCalls
  <2>3. PlacesOfCalls'
    BY SMTT(30) DEF Typing, PlacesOfCalls
  <2>4. LockHeld'
    BY DEF Typing, LockHeld
  <2> QED BY <2>1, <2>2, <2>3, <2>4
<1>26. ASSUME NEW p \in Proc, RestoreUserAuth(p) PROVE TInv'
  <2> USE <1>26 DEF RestoreUserAuth, Unlock, UpdateStorageUserAuth
  <2>1. WorldOK'
    BY DEF WorldOK
  <2>2. Typing'
    BY DEF Typing, PlacesOfCalls
  <2>3. PlacesOfCalls'
    BY SMTT(30) DEF Typing, PlacesOfCalls
  <2>4. LockHeld'
    BY DEF Typing, LockHeld
  <2> QED BY <2>1, <2>2, <2>3, <2>4
<1>27. ASSUME NEW p \in Proc, RestoreKeyContext(p) PROVE TInv'
  <2> USE <1>27 DEF RestoreKeyContext, Unlock, UpdateStorageKeyContext
  <2>1. WorldOK'
    BY DEF WorldOK
  <2>2. Typing'
    BY DEF Typing, PlacesOfCalls
  <2>3. PlacesOfCalls'
    BY SMTT(30) DEF Typing, PlacesOfCalls
  <2>4. LockHeld'
    BY DEF Typing, LockHeld
  <2> QED BY <2>1, <2>2, <2>3, <2>4
<1>28. ASSUME NEW p \in Proc, RestoreDone(p) PROVE TInv'
  <2> USE <1>28 DEF RestoreDone, Unlock, DeleteSecretFaultFile
  <2>1. WorldOK'
    BY DEF WorldOK
  <2>a. fault' \in BOOLEAN
    BY Zenon DEF Typing
  <2>2. Typing'
    BY <2>a DEF Typing, PlacesOfCalls
  <2>3. PlacesOfCalls'
    BY SMTT(30) DEF Typing, PlacesOfCalls
  <2>4. LockHeld'
    BY DEF Typing, LockHeld
  <2> QED BY <2>1, <2>2, <2>3, <2>4
<1>29. ASSUME NEW p \in Proc, ActivateUserKey(p) PROVE TInv'
  <2> USE <1>29 DEF ActivateUserKey
  <2>1. WorldOK'
    BY DEF WorldOK
  <2>2. Typing'
    BY DEF Typing, PlacesOfCalls
  <2>3. PlacesOfCalls'
    BY SMTT(30) DEF Typing, PlacesOfCalls
  <2>4. LockHeld'
    BY DEF Typing, LockHeld
  <2> QED BY <2>1, <2>2, <2>3, <2>4
<1>30. ASSUME NEW p \in Proc, IsExistPIN(p) PROVE TInv'
  <2> USE <1>30 DEF IsExistPIN
  <2>1. WorldOK'
    BY DEF WorldOK
  <2>2. Typing'
    BY DEF Typing, PlacesOfCalls
  <2>3. PlacesOfCalls'
    BY SMTT(30) DEF Typing, PlacesOfCalls
  <2>4. LockHeld'
    BY DEF Typing, LockHeld
  <2> QED BY <2>1, <2>2, <2>3, <2>4
<1>31. ASSUME NEW p \in Proc, DeleteSecretFlag(p) PROVE TInv'
  <2> USE <1>31 DEF DeleteSecretFlag, DeleteSecretFaultFile
  <2>1. WorldOK'
    BY DEF WorldOK
  <2>a. fault' \in BOOLEAN
    BY Zenon DEF Typing
  <2>2. Typing'
    BY <2>a DEF Typing, PlacesOfCalls
  <2>3. PlacesOfCalls'
    BY SMTT(30) DEF Typing, PlacesOfCalls
  <2>4. LockHeld'
    BY DEF Typing, LockHeld
  <2> QED BY <2>1, <2>2, <2>3, <2>4
<1>32. ASSUME NEW p \in Proc, ActiveUserKeyEmpty(p) PROVE TInv'
  <2> USE <1>32 DEF ActiveUserKeyEmpty
  <2>1. WorldOK'
    BY DEF WorldOK
  <2>2. Typing'
    BY DEF Typing, PlacesOfCalls
  <2>3. PlacesOfCalls'
    BY SMTT(30) DEF Typing, PlacesOfCalls
  <2>4. LockHeld'
    BY DEF Typing, LockHeld
  <2> QED BY <2>1, <2>2, <2>3, <2>4
<1>33. CASE StopUser
  BY <1>33 DEF StopUser, WorldOK, Typing, PlacesOfCalls, LockHeld
<1>34. CASE Crash
  <2> USE <1>34 DEF Crash
  <2>1. WorldOK'
    BY DEF WorldOK
  <2>2. world'.ops = world.ops
    BY DEF WorldOK
  <2>3. Typing' /\ PlacesOfCalls' /\ LockHeld'
    BY <2>2 DEF Typing, PlacesOfCalls, LockHeld
  <2> QED BY <2>1, <2>3
<1>35. CASE UNCHANGED vars
  BY <1>35 DEF vars, WorldOK, Typing, PlacesOfCalls, LockHeld
<1>36. ASSUME NEW p \in Proc, UpdateCredUndo(p) PROVE TInv'
  <2> USE <1>36 DEF UpdateCredUndo
  <2>1. WorldOK'
    BY DEF WorldOK
  <2>2. Typing'
    BY DEF Typing, PlacesOfCalls
  <2>3. PlacesOfCalls'
    BY SMTT(30) DEF Typing, PlacesOfCalls
  <2>4. LockHeld'
    BY DEF Typing, LockHeld
  <2> QED BY <2>1, <2>2, <2>3, <2>4
<1> QED
  BY <1>1, <1>2, <1>3, <1>4, <1>5, <1>6, <1>7, <1>8, <1>9, <1>10, <1>11, <1>12, <1>13, <1>14, <1>15,
     <1>16, <1>17, <1>18, <1>19, <1>20, <1>21, <1>22, <1>23, <1>24, <1>25, <1>26, <1>27, <1>28,
     <1>29, <1>30, <1>31, <1>32, <1>33, <1>34, <1>35, <1>36 DEF Next, Begin, Step

(* Which calls are made and what may fail never changes.                   *)
LEMMA WorldKept == TInv /\ [Next]_vars => world'.ops = world.ops /\ world'.faults = world.faults
<1> SUFFICES ASSUME TInv, [Next]_vars PROVE world'.ops = world.ops /\ world'.faults = world.faults
  OBVIOUS
<1>1. CASE Crash
  BY <1>1 DEF Crash, TInv, WorldOK
<1>2. CASE StopUser \/ UNCHANGED vars
  BY <1>2 DEF StopUser, vars
<1>3. CASE \E p \in Proc : Begin(p) \/ Step(p)
  <2> PICK p \in Proc : Begin(p) \/ Step(p)
    BY <1>3
  <2> QED BY DEF Begin, Step, AddCredential, UpdateCredential, DelUser, DelCred,
     UnlockUserStorage, NeedSkipActiveUserKey, AddCredIdm, AddCredRecord, AddUserKey,
     AddUserKeyContext, FaultFileDone, UpdateCredKey, UpdateCredUndo, UpdateCredDelete, CommitCredUpdate,
     CommitCredUpdateContext, DelUserKey, DelUserIdm, CommitDelCred, CommitDelCredContext,
     CommitDelCredRecord, DelCredIdm, DelCredRecord, DelCredKey, DelCredContext,
     HandleFileKeyException, RestoreUserAuth, RestoreKeyContext, RestoreDone, ActivateUserKey,
     IsExistPIN, DeleteSecretFlag, ActiveUserKeyEmpty
<1> QED BY <1>1, <1>2, <1>3 DEF Next

(* Every variable stays in its range, and the lock of a user is held by a  *)
(* thread that is between Lock and Unlock of AddCredential,                *)
(* UpdateCredential, DelUser or HandleFileKeyException.                    *)
THEOREM TypeCorrect == Spec => []TypeOK
<1>1. TInv => TypeOK
  <2> SUFFICES ASSUME TInv PROVE TypeOK
    OBVIOUS
  <2>1. lock # None => pc[lock] # Idle
    BY DEF TInv, Typing, LockHeld, Idle, At, Locked, AddPlaces, UpdPlaces, DelPlaces, AuLocked
  <2>2. \E w \in Worlds : world \in [ops : {w.ops}, faults : {w.faults}, crashes : 0 .. w.crashes]
    BY DEF TInv, WorldOK
  <2> QED BY <2>1, <2>2 DEF TInv, Typing, TypeOK, Records
<1> QED BY <1>1, InitTyping, StepTyping, PTL DEF Spec

\* No call waits in ActivateUserKey for a lock that nobody gives back: who has
\* the lock of the user is at a place where it does not wait, and is not the
\* authentication that gave it back by hand in HandleFileKeyException.
THEOREM LockIsGivenBack == Spec => []CallsGoOn
<1>1. TInv => CallsGoOn
  <2> SUFFICES ASSUME TInv, NEW p \in Proc, pc[p] # Idle
               PROVE  \E q \in Proc : pc[q] # Idle /\ ~Waits(q)
    BY DEF CallsGoOn
  <2>1. CASE ~Waits(p)
    BY <2>1
  <2>2. CASE Waits(p)
    <3>1. lock \in Proc /\ pc[lock].at \in Locked
      BY <2>2 DEF Waits, TInv, Typing, LockHeld
    <3>2. pc[lock] # Idle /\ ~Waits(lock)
      BY <3>1 DEF Waits, Idle, At, Locked, AddPlaces, UpdPlaces, DelPlaces, AuLocked
    <3> QED BY <3>1, <3>2
  <2> QED BY <2>1, <2>2
<1> QED BY <1>1, InitTyping, StepTyping, PTL DEF Spec

-----------------------------------------------------------------------------
\* No authentication runs beside a call that takes PINs away.
AuthApart == {{"auth", "update"}, {"auth", "delUser"}} \subseteq Apart

\* What the storage manager and the IDM hold while a call is between them.
Between ==
    \A p \in Proc :
        /\ pc[p].at \in {"addRecord", "addKey", "addContext"} => pc[p].cred \in idm
        /\ pc[p].at = "addContext" => latest = pc[p].cred \/ "null" \in world.faults
        /\ pc[p].at \in UpdPlaces => pc[p].cred \in idm
        /\ pc[p].at = "updKey" => pc[p].cred \notin keys
        /\ pc[p].at \in UpdPlaces \ {"updKey"} => latest = pc[p].cred
        /\ pc[p].at \in {"delIdm", "delDone", "delContext"} => latest = Empty
        /\ pc[p].at = "delRecord" => Empty \in keys
        /\ pc[p].call = "auth" => pc[p].cred \in idm
        /\ pc[p].at = "auContext" => latest = pc[p].cred \/ "null" \in world.faults

\* A PIN that the IDM is to take back is nobody else's.
Undone(c) == \E p \in Proc : pc[p].at = "updUndo" /\ pc[p].cred = c
NotUndone ==
    \A p \in Proc : pc[p].at \in {"addRecord", "addKey", "addContext"} \cup UpdPlaces
                      => ~Undone(pc[p].cred)

\* Where the storage manager may have done nothing, the latest version of the
\* key opens all the same.
Steady == "null" \in world.faults => latest \in idm \cup {Empty}

Alone == \A p, q \in Proc : pc[p].call = "auth" => pc[q].call \notin {"update", "delUser"}

Reachable == Empty \in keys \/ \E c \in idm \cap keys : ~Undone(c)

Kept == Between /\ NotUndone /\ Steady /\ Alone /\ Reachable
Excepted == "delCred" \in world.ops \/ ("null" \in world.faults /\ {"update", "delUser"} \cap world.ops # {})
RInv == ~Excepted => Kept

LEMMA InitReach == Init => RInv
BY DEF Init, RInv, Kept, Between, NotUndone, Undone, Steady, Alone, Reachable, Idle, At, UpdPlaces

LEMMA StepReach == AuthApart /\ TInv /\ RInv /\ [Next]_vars => RInv'
<1> SUFFICES ASSUME AuthApart, TInv, RInv, [Next]_vars, ~Excepted'
             PROVE  Kept'
  BY DEF RInv
<1> USE ConstantsOK DEF TInv, Kept, Records, At, Idle, Goto, Return, storage, disk,
            Locked, AddPlaces, UpdPlaces, DelPlaces, DcPlaces, AuPlaces, AuLocked, AcPlaces
<1>0. world'.ops = world.ops /\ world'.faults = world.faults
  BY WorldKept
<1>a. /\ Between /\ NotUndone /\ Steady /\ Alone /\ Reachable
      /\ "delCred" \notin world.ops
      /\ "null" \in world.faults => "update" \notin world.ops /\ "delUser" \notin world.ops
  BY <1>0 DEF RInv, Excepted
<1> USE <1>a
<1>1. ASSUME NEW p \in Proc, AddCredential(p) PROVE Kept'
  <2> USE <1>1 DEF AddCredential, MayBegin, Lock, CreateSecretFaultFile
  <2>1. Between'
    BY <1>0, SMTT(30) DEF Between, Alone, Typing, PlacesOfCalls, LockHeld
  <2>2. Alone'
    BY SMTT(30) DEF Alone, AuthApart, Typing
  <2>3. Reachable'
    BY <1>0, SMTT(30) DEF Reachable, Undone, NotUndone, Steady, Between, Alone, Typing, PlacesOfCalls
  <2>4. NotUndone' /\ Steady'
    BY <1>0, SMTT(30) DEF NotUndone, Undone, Steady, Between, Typing, PlacesOfCalls, LockHeld
  <2> QED BY <2>1, <2>2, <2>3, <2>4
<1>2. ASSUME NEW p \in Proc, UpdateCredential(p) PROVE Kept'
  <2> USE <1>2 DEF UpdateCredential, MayBegin, Lock, Fresh
  <2>1. Between'
    BY <1>0, SMTT(30) DEF Between, Alone, Typing, PlacesOfCalls, LockHeld
  <2>2. Alone'
    BY SMTT(30) DEF Alone, AuthApart, Typing
  <2>3. Reachable'
    BY <1>0, SMTT(30) DEF Reachable, Undone, NotUndone, Steady, Between, Alone, Typing, PlacesOfCalls
  <2>4. NotUndone' /\ Steady'
    BY <1>0, SMTT(30) DEF NotUndone, Undone, Steady, Between, Typing, PlacesOfCalls, LockHeld
  <2> QED BY <2>1, <2>2, <2>3, <2>4
<1>3. ASSUME NEW p \in Proc, DelUser(p) PROVE Kept'
  <2> USE <1>3 DEF DelUser, MayBegin, Lock, CreateSecretFaultFile
  <2>1. Between'
    BY <1>0, SMTT(30) DEF Between, Alone, Typing, PlacesOfCalls, LockHeld
  <2>2. Alone'
    BY SMTT(30) DEF Alone, AuthApart, Typing
  <2>3. Reachable'
    BY <1>0, SMTT(30) DEF Reachable, Undone, NotUndone, Steady, Between, Alone, Typing, PlacesOfCalls
  <2>4. NotUndone' /\ Steady'
    BY <1>0, SMTT(30) DEF NotUndone, Undone, Steady, Between, Typing, PlacesOfCalls, LockHeld
  <2> QED BY <2>1, <2>2, <2>3, <2>4
<1>4. ASSUME NEW p \in Proc, DelCred(p) PROVE FALSE
  BY <1>4 DEF DelCred, MayBegin
<1>5. ASSUME NEW p \in Proc, UnlockUserStorage(p) PROVE Kept'
  <2> USE <1>5 DEF UnlockUserStorage, MayBegin
  <2>1. Between'
    BY <1>0, SMTT(30) DEF Between, Alone, Typing, PlacesOfCalls, LockHeld
  <2>2. Alone'
    BY SMTT(30) DEF Alone, AuthApart, Typing
  <2>3. Reachable'
    BY <1>0, SMTT(30) DEF Reachable, Undone, NotUndone, Steady, Between, Alone, Typing, PlacesOfCalls
  <2>4. NotUndone' /\ Steady'
    BY <1>0, SMTT(30) DEF NotUndone, Undone, Steady, Between, Typing, PlacesOfCalls, LockHeld
  <2> QED BY <2>1, <2>2, <2>3, <2>4
<1>6. ASSUME NEW p \in Proc, NeedSkipActiveUserKey(p) PROVE Kept'
  <2> USE <1>6 DEF NeedSkipActiveUserKey, MayBegin
  <2>1. Between'
    BY <1>0, SMTT(30) DEF Between, Alone, Typing, PlacesOfCalls, LockHeld
  <2>2. Alone'
    BY SMTT(30) DEF Alone, AuthApart, Typing
  <2>3. Reachable'
    BY <1>0, SMTT(30) DEF Reachable, Undone, NotUndone, Steady, Between, Alone, Typing, PlacesOfCalls
  <2>4. NotUndone' /\ Steady'
    BY <1>0, SMTT(30) DEF NotUndone, Undone, Steady, Between, Typing, PlacesOfCalls, LockHeld
  <2> QED BY <2>1, <2>2, <2>3, <2>4
<1>7. ASSUME NEW p \in Proc, AddCredIdm(p) PROVE Kept'
  <2> USE <1>7 DEF AddCredIdm, Fresh
  <2>1. Between'
    BY <1>0, SMTT(30) DEF Between, Alone, Typing, PlacesOfCalls, LockHeld
  <2>2. Alone'
    BY SMTT(30) DEF Alone, AuthApart, Typing
  <2>3. Reachable'
    BY <1>0, SMTT(30) DEF Reachable, Undone, NotUndone, Steady, Between, Alone, Typing, PlacesOfCalls
  <2>4. NotUndone' /\ Steady'
    BY <1>0, SMTT(30) DEF NotUndone, Undone, Steady, Between, Typing, PlacesOfCalls, LockHeld
  <2> QED BY <2>1, <2>2, <2>3, <2>4
<1>8. ASSUME NEW p \in Proc, AddCredRecord(p) PROVE Kept'
  <2> USE <1>8 DEF AddCredRecord
  <2>1. Between'
    BY <1>0, SMTT(30) DEF Between, Alone, Typing, PlacesOfCalls, LockHeld
  <2>2. Alone'
    BY SMTT(30) DEF Alone, AuthApart, Typing
  <2>3. Reachable'
    BY <1>0, SMTT(30) DEF Reachable, Undone, NotUndone, Steady, Between, Alone, Typing, PlacesOfCalls
  <2>4. NotUndone' /\ Steady'
    BY <1>0, SMTT(30) DEF NotUndone, Undone, Steady, Between, Typing, PlacesOfCalls, LockHeld
  <2> QED BY <2>1, <2>2, <2>3, <2>4
<1>9. ASSUME NEW p \in Proc, AddUserKey(p) PROVE Kept'
  <2> USE <1>9 DEF AddUserKey, Unlock, UpdateStorageUserAuth
  <2>1. Between'
    BY <1>0, SMTT(30) DEF Between, Alone, Typing, PlacesOfCalls, LockHeld
  <2>2. Alone'
    BY SMTT(30) DEF Alone, AuthApart, Typing
  <2>3. Reachable'
    BY <1>0, SMTT(30) DEF Reachable, Undone, NotUndone, Steady, Between, Alone, Typing, PlacesOfCalls
  <2>4. NotUndone' /\ Steady'
    BY <1>0, SMTT(30) DEF NotUndone, Undone, Steady, Between, Typing, PlacesOfCalls, LockHeld
  <2> QED BY <2>1, <2>2, <2>3, <2>4
<1>10. ASSUME NEW p \in Proc, AddUserKeyContext(p) PROVE Kept'
  <2> USE <1>10 DEF AddUserKeyContext, Unlock, UpdateStorageKeyContext
  <2>1. Between'
    BY <1>0, SMTT(30) DEF Between, Alone, Typing, PlacesOfCalls, LockHeld
  <2>2. Alone'
    BY SMTT(30) DEF Alone, AuthApart, Typing
  <2>3. Reachable'
    BY <1>0, SMTT(30) DEF Reachable, Undone, NotUndone, Steady, Between, Alone, Typing, PlacesOfCalls
  <2>4. NotUndone' /\ Steady'
    BY <1>0, SMTT(30) DEF NotUndone, Undone, Steady, Between, Typing, PlacesOfCalls, LockHeld
  <2> QED BY <2>1, <2>2, <2>3, <2>4
<1>11. ASSUME NEW p \in Proc, FaultFileDone(p) PROVE Kept'
  <2> USE <1>11 DEF FaultFileDone, Unlock, DeleteSecretFaultFile
  <2>1. Between'
    BY <1>0, SMTT(30) DEF Between, Alone, Typing, PlacesOfCalls, LockHeld
  <2>2. Alone'
    BY SMTT(30) DEF Alone, AuthApart, Typing
  <2>3. Reachable'
    BY <1>0, SMTT(30) DEF Reachable, Undone, NotUndone, Steady, Between, Alone, Typing, PlacesOfCalls
  <2>4. NotUndone' /\ Steady'
    BY <1>0, SMTT(30) DEF NotUndone, Undone, Steady, Between, Typing, PlacesOfCalls, LockHeld
  <2> QED BY <2>1, <2>2, <2>3, <2>4
<1>12. ASSUME NEW p \in Proc, UpdateCredKey(p) PROVE Kept'
  <2> USE <1>12 DEF UpdateCredKey, Unlock, UpdateStorageUserAuth
  <2>1. Between'
    BY <1>0, SMTT(30) DEF Between, Alone, Typing, PlacesOfCalls, LockHeld
  <2>2. Alone'
    BY SMTT(30) DEF Alone, AuthApart, Typing
  <2>3. Reachable'
    BY <1>0, SMTT(30) DEF Reachable, Undone, NotUndone, Steady, Between, Alone, Typing, PlacesOfCalls
  <2>4. NotUndone' /\ Steady'
    BY <1>0, SMTT(30) DEF NotUndone, Undone, Steady, Between, Typing, PlacesOfCalls, LockHeld
  <2> QED BY <2>1, <2>2, <2>3, <2>4
<1>13. ASSUME NEW p \in Proc, UpdateCredDelete(p) PROVE Kept'
  <2> USE <1>13 DEF UpdateCredDelete, Unlock
  <2>1. Between'
    BY <1>0, SMTT(30) DEF Between, Alone, Typing, PlacesOfCalls, LockHeld
  <2>2. Alone'
    BY SMTT(30) DEF Alone, AuthApart, Typing
  <2>3. Reachable'
    BY <1>0, SMTT(30) DEF Reachable, Undone, NotUndone, Steady, Between, Alone, Typing, PlacesOfCalls
  <2>4. NotUndone' /\ Steady'
    BY <1>0, SMTT(30) DEF NotUndone, Undone, Steady, Between, Typing, PlacesOfCalls, LockHeld
  <2> QED BY <2>1, <2>2, <2>3, <2>4
<1>14. ASSUME NEW p \in Proc, CommitCredUpdate(p) PROVE Kept'
  <2> USE <1>14 DEF CommitCredUpdate
  <2>1. Between'
    BY <1>0, SMTT(30) DEF Between, Alone, Typing, PlacesOfCalls, LockHeld
  <2>2. Alone'
    BY SMTT(30) DEF Alone, AuthApart, Typing
  <2>3. Reachable'
    BY <1>0, SMTT(30) DEF Reachable, Undone, NotUndone, Steady, Between, Alone, Typing, PlacesOfCalls
  <2>4. NotUndone' /\ Steady'
    BY <1>0, SMTT(30) DEF NotUndone, Undone, Steady, Between, Typing, PlacesOfCalls, LockHeld
  <2> QED BY <2>1, <2>2, <2>3, <2>4
<1>15. ASSUME NEW p \in Proc, CommitCredUpdateContext(p) PROVE Kept'
  <2> USE <1>15 DEF CommitCredUpdateContext, Unlock, UpdateStorageKeyContext
  <2>1. Between'
    BY <1>0, SMTT(30) DEF Between, Alone, Typing, PlacesOfCalls, LockHeld
  <2>2. Alone'
    BY SMTT(30) DEF Alone, AuthApart, Typing
  <2>3. Reachable'
    BY <1>0, SMTT(30) DEF Reachable, Undone, NotUndone, Steady, Between, Alone, Typing, PlacesOfCalls
  <2>4. NotUndone' /\ Steady'
    BY <1>0, SMTT(30) DEF NotUndone, Undone, Steady, Between, Typing, PlacesOfCalls, LockHeld
  <2> QED BY <2>1, <2>2, <2>3, <2>4
<1>16. ASSUME NEW p \in Proc, DelUserKey(p) PROVE Kept'
  <2> USE <1>16 DEF DelUserKey, UpdateStorageUserAuth
  <2>1. Between'
    BY <1>0, SMTT(30) DEF Between, Alone, Typing, PlacesOfCalls, LockHeld
  <2>2. Alone'
    BY SMTT(30) DEF Alone, AuthApart, Typing
  <2>3. Reachable'
    BY <1>0, SMTT(30) DEF Reachable, Undone, NotUndone, Steady, Between, Alone, Typing, PlacesOfCalls
  <2>4. NotUndone' /\ Steady'
    BY <1>0, SMTT(30) DEF NotUndone, Undone, Steady, Between, Typing, PlacesOfCalls, LockHeld
  <2> QED BY <2>1, <2>2, <2>3, <2>4
<1>17. ASSUME NEW p \in Proc, DelUserIdm(p) PROVE Kept'
  <2> USE <1>17 DEF DelUserIdm, Unlock
  <2>1. Between'
    BY <1>0, SMTT(30) DEF Between, Alone, Typing, PlacesOfCalls, LockHeld
  <2>2. Alone'
    BY SMTT(30) DEF Alone, AuthApart, Typing
  <2>3. Reachable'
    BY <1>0, SMTT(30) DEF Reachable, Undone, NotUndone, Steady, Between, Alone, Typing, PlacesOfCalls
  <2>4. NotUndone' /\ Steady'
    BY <1>0, SMTT(30) DEF NotUndone, Undone, Steady, Between, Typing, PlacesOfCalls, LockHeld
  <2> QED BY <2>1, <2>2, <2>3, <2>4
<1>18. ASSUME NEW p \in Proc, CommitDelCred(p) PROVE Kept'
  <2> USE <1>18 DEF CommitDelCred, DeleteSecretFaultFile
  <2>1. Between'
    BY <1>0, SMTT(30) DEF Between, Alone, Typing, PlacesOfCalls, LockHeld
  <2>2. Alone'
    BY SMTT(30) DEF Alone, AuthApart, Typing
  <2>3. Reachable'
    BY <1>0, SMTT(30) DEF Reachable, Undone, NotUndone, Steady, Between, Alone, Typing, PlacesOfCalls
  <2>4. NotUndone' /\ Steady'
    BY <1>0, SMTT(30) DEF NotUndone, Undone, Steady, Between, Typing, PlacesOfCalls, LockHeld
  <2> QED BY <2>1, <2>2, <2>3, <2>4
<1>19. ASSUME NEW p \in Proc, CommitDelCredContext(p) PROVE Kept'
  <2> USE <1>19 DEF CommitDelCredContext, UpdateStorageKeyContext
  <2>1. Between'
    BY <1>0, SMTT(30) DEF Between, Alone, Typing, PlacesOfCalls, LockHeld
  <2>2. Alone'
    BY SMTT(30) DEF Alone, AuthApart, Typing
  <2>3. Reachable'
    BY <1>0, SMTT(30) DEF Reachable, Undone, NotUndone, Steady, Between, Alone, Typing, PlacesOfCalls
  <2>4. NotUndone' /\ Steady'
    BY <1>0, SMTT(30) DEF NotUndone, Undone, Steady, Between, Typing, PlacesOfCalls, LockHeld
  <2> QED BY <2>1, <2>2, <2>3, <2>4
<1>20. ASSUME NEW p \in Proc, CommitDelCredRecord(p) PROVE Kept'
  <2> USE <1>20 DEF CommitDelCredRecord, Unlock
  <2>1. Between'
    BY <1>0, SMTT(30) DEF Between, Alone, Typing, PlacesOfCalls, LockHeld
  <2>2. Alone'
    BY SMTT(30) DEF Alone, AuthApart, Typing
  <2>3. Reachable'
    BY <1>0, SMTT(30) DEF Reachable, Undone, NotUndone, Steady, Between, Alone, Typing, PlacesOfCalls
  <2>4. NotUndone' /\ Steady'
    BY <1>0, SMTT(30) DEF NotUndone, Undone, Steady, Between, Typing, PlacesOfCalls, LockHeld
  <2> QED BY <2>1, <2>2, <2>3, <2>4
<1>21. ASSUME NEW p \in Proc, DelCredIdm(p) PROVE FALSE
  BY <1>21 DEF DelCredIdm, PlacesOfCalls, DcPlaces
<1>22. ASSUME NEW p \in Proc, DelCredRecord(p) PROVE FALSE
  BY <1>22 DEF DelCredRecord, PlacesOfCalls, DcPlaces
<1>23. ASSUME NEW p \in Proc, DelCredKey(p) PROVE FALSE
  BY <1>23 DEF DelCredKey, PlacesOfCalls, DcPlaces
<1>24. ASSUME NEW p \in Proc, DelCredContext(p) PROVE FALSE
  BY <1>24 DEF DelCredContext, PlacesOfCalls, DcPlaces
<1>25. ASSUME NEW p \in Proc, HandleFileKeyException(p) PROVE Kept'
  <2> USE <1>25 DEF HandleFileKeyException, Lock
  <2>1. Between'
    BY <1>0, SMTT(30) DEF Between, Alone, Typing, PlacesOfCalls, LockHeld
  <2>2. Alone'
    BY SMTT(30) DEF Alone, AuthApart, Typing
  <2>3. Reachable'
    BY <1>0, SMTT(30) DEF Reachable, Undone, NotUndone, Steady, Between, Alone, Typing, PlacesOfCalls
  <2>4. NotUndone' /\ Steady'
    BY <1>0, SMTT(30) DEF NotUndone, Undone, Steady, Between, Typing, PlacesOfCalls, LockHeld
  <2> QED BY <2>1, <2>2, <2>3, <2>4
<1>26. ASSUME NEW p \in Proc, RestoreUserAuth(p) PROVE Kept'
  <2> USE <1>26 DEF RestoreUserAuth, Unlock, UpdateStorageUserAuth
  <2>1. Between'
    BY <1>0, SMTT(30) DEF Between, Alone, Typing, PlacesOfCalls, LockHeld
  <2>2. Alone'
    BY SMTT(30) DEF Alone, AuthApart, Typing
  <2>3. Reachable'
    BY <1>0, SMTT(30) DEF Reachable, Undone, NotUndone, Steady, Between, Alone, Typing, PlacesOfCalls
  <2>4. NotUndone' /\ Steady'
    BY <1>0, SMTT(30) DEF NotUndone, Undone, Steady, Between, Typing, PlacesOfCalls, LockHeld
  <2> QED BY <2>1, <2>2, <2>3, <2>4
<1>27. ASSUME NEW p \in Proc, RestoreKeyContext(p) PROVE Kept'
  <2> USE <1>27 DEF RestoreKeyContext, Unlock, UpdateStorageKeyContext
  <2>1. Between'
    BY <1>0, SMTT(30) DEF Between, Alone, Typing, PlacesOfCalls, LockHeld
  <2>2. Alone'
    BY SMTT(30) DEF Alone, AuthApart, Typing
  <2>3. Reachable'
    BY <1>0, SMTT(30) DEF Reachable, Undone, NotUndone, Steady, Between, Alone, Typing, PlacesOfCalls
  <2>4. NotUndone' /\ Steady'
    BY <1>0, SMTT(30) DEF NotUndone, Undone, Steady, Between, Typing, PlacesOfCalls, LockHeld
  <2> QED BY <2>1, <2>2, <2>3, <2>4
<1>28. ASSUME NEW p \in Proc, RestoreDone(p) PROVE Kept'
  <2> USE <1>28 DEF RestoreDone, Unlock, DeleteSecretFaultFile
  <2>1. Between'
    BY <1>0, SMTT(30) DEF Between, Alone, Typing, PlacesOfCalls, LockHeld
  <2>2. Alone'
    BY SMTT(30) DEF Alone, AuthApart, Typing
  <2>3. Reachable'
    BY <1>0, SMTT(30) DEF Reachable, Undone, NotUndone, Steady, Between, Alone, Typing, PlacesOfCalls
  <2>4. NotUndone' /\ Steady'
    BY <1>0, SMTT(30) DEF NotUndone, Undone, Steady, Between, Typing, PlacesOfCalls, LockHeld
  <2> QED BY <2>1, <2>2, <2>3, <2>4
<1>29. ASSUME NEW p \in Proc, ActivateUserKey(p) PROVE Kept'
  <2> USE <1>29 DEF ActivateUserKey
  <2>1. Between'
    BY <1>0, SMTT(30) DEF Between, Alone, Typing, PlacesOfCalls, LockHeld
  <2>2. Alone'
    BY SMTT(30) DEF Alone, AuthApart, Typing
  <2>3. Reachable'
    BY <1>0, SMTT(30) DEF Reachable, Undone, NotUndone, Steady, Between, Alone, Typing, PlacesOfCalls
  <2>4. NotUndone' /\ Steady'
    BY <1>0, SMTT(30) DEF NotUndone, Undone, Steady, Between, Typing, PlacesOfCalls, LockHeld
  <2> QED BY <2>1, <2>2, <2>3, <2>4
<1>30. ASSUME NEW p \in Proc, IsExistPIN(p) PROVE Kept'
  <2> USE <1>30 DEF IsExistPIN
  <2>1. Between'
    BY <1>0, SMTT(30) DEF Between, Alone, Typing, PlacesOfCalls, LockHeld
  <2>2. Alone'
    BY SMTT(30) DEF Alone, AuthApart, Typing
  <2>3. Reachable'
    BY <1>0, SMTT(30) DEF Reachable, Undone, NotUndone, Steady, Between, Alone, Typing, PlacesOfCalls
  <2>4. NotUndone' /\ Steady'
    BY <1>0, SMTT(30) DEF NotUndone, Undone, Steady, Between, Typing, PlacesOfCalls, LockHeld
  <2> QED BY <2>1, <2>2, <2>3, <2>4
<1>31. ASSUME NEW p \in Proc, DeleteSecretFlag(p) PROVE Kept'
  <2> USE <1>31 DEF DeleteSecretFlag, DeleteSecretFaultFile
  <2>1. Between'
    BY <1>0, SMTT(30) DEF Between, Alone, Typing, PlacesOfCalls, LockHeld
  <2>2. Alone'
    BY SMTT(30) DEF Alone, AuthApart, Typing
  <2>3. Reachable'
    BY <1>0, SMTT(30) DEF Reachable, Undone, NotUndone, Steady, Between, Alone, Typing, PlacesOfCalls
  <2>4. NotUndone' /\ Steady'
    BY <1>0, SMTT(30) DEF NotUndone, Undone, Steady, Between, Typing, PlacesOfCalls, LockHeld
  <2> QED BY <2>1, <2>2, <2>3, <2>4
<1>32. ASSUME NEW p \in Proc, ActiveUserKeyEmpty(p) PROVE Kept'
  <2> USE <1>32 DEF ActiveUserKeyEmpty
  <2>1. Between'
    BY <1>0, SMTT(30) DEF Between, Alone, Typing, PlacesOfCalls, LockHeld
  <2>2. Alone'
    BY SMTT(30) DEF Alone, AuthApart, Typing
  <2>3. Reachable'
    BY <1>0, SMTT(30) DEF Reachable, Undone, NotUndone, Steady, Between, Alone, Typing, PlacesOfCalls
  <2>4. NotUndone' /\ Steady'
    BY <1>0, SMTT(30) DEF NotUndone, Undone, Steady, Between, Typing, PlacesOfCalls, LockHeld
  <2> QED BY <2>1, <2>2, <2>3, <2>4
<1>33. CASE StopUser
  BY <1>33 DEF StopUser, Between, NotUndone, Undone, Steady, Alone, Reachable
<1>34. CASE Crash
  BY <1>0, <1>34 DEF Crash, Between, NotUndone, Undone, Steady, Alone, Reachable
<1>35. CASE UNCHANGED vars
  BY <1>35 DEF vars, Between, NotUndone, Undone, Steady, Alone, Reachable
<1>36. ASSUME NEW p \in Proc, UpdateCredUndo(p) PROVE Kept'
  <2> USE <1>36 DEF UpdateCredUndo
  <2>1. Between'
    <3>1. pc[p].cred \in Cred /\ \A q \in Proc : pc[q].call # "auth"
      BY DEF Alone, PlacesOfCalls
    <3> QED BY <1>0, <3>1, SMTT(30) DEF Between, NotUndone, Undone, Typing, PlacesOfCalls, LockHeld
  <2>2. Alone'
    BY SMTT(30) DEF Alone, AuthApart, Typing
  <2>3. Reachable'
    BY <1>0, SMTT(30) DEF Reachable, Undone, NotUndone, Steady, Between, Alone, Typing, PlacesOfCalls
  <2>4. NotUndone' /\ Steady'
    BY <1>0, SMTT(30) DEF NotUndone, Undone, Steady, Between, Typing, PlacesOfCalls, LockHeld
  <2> QED BY <2>1, <2>2, <2>3, <2>4
<1> QED
  BY <1>1, <1>2, <1>3, <1>4, <1>5, <1>6, <1>7, <1>8, <1>9, <1>10, <1>11, <1>12, <1>13, <1>14, <1>15,
     <1>16, <1>17, <1>18, <1>19, <1>20, <1>21, <1>22, <1>23, <1>24, <1>25, <1>26, <1>27, <1>28,
     <1>29, <1>30, <1>31, <1>32, <1>33, <1>34, <1>35, <1>36 DEF Next, Begin, Step

(* No failure, crash or interleaving of the calls of                       *)
(* InnerAccountIAMManager other than DelCred makes the files of the user   *)
(* unreachable, as long as no authentication overlaps an update or the     *)
(* deletion of the user's PIN (AuthApart), and the storage manager answers *)
(* neither of them with the error that counts as success (the exception of *)
(* DataReachable itself).                                                  *)
THEOREM FilesStayReachable == ASSUME AuthApart PROVE Spec => []DataReachable
<1>1. TInv /\ RInv /\ [Next]_vars => (TInv /\ RInv)'
  BY StepTyping, StepReach
<1>2. RInv => DataReachable
  BY DEF RInv, Excepted, Kept, Reachable, DataReachable
<1> QED BY <1>1, <1>2, InitTyping, InitReach, PTL DEF Spec

-----------------------------------------------------------------------------
\* DelCred, which takes no lock, runs beside no call but itself, DelUser and
\* an activation.
DelCredApart == {{"delCred", "add"}, {"delCred", "update"}, {"delCred", "auth"}} \subseteq Apart
CrashIsFailure == \A w \in Worlds : w.faults \subseteq {"info"} => w.crashes = 0

Busy == {"addRecord", "addKey", "addContext", "delIdm", "delDone", "delContext",
         "dcRecord", "dcKey", "dcContext"} \cup UpdPlaces

\* Without failures: what the two services hold between the steps of a call.
Exact ==
    \A p \in Proc :
        /\ pc[p].at \in {"addRecord", "addKey"} => idm = {pc[p].cred} /\ keys = {Empty}
        /\ pc[p].at = "addContext" => idm = {pc[p].cred} /\ latest = pc[p].cred
        /\ pc[p].at \in {"addKey", "addContext"} => record = pc[p].cred
        /\ pc[p].at \in {"updKey", "updDelete"} => idm = {pc[p].old, pc[p].cred}
        /\ pc[p].at = "updKey" => keys = {pc[p].old}
        /\ pc[p].at \in UpdPlaces \ {"updKey"} => latest = pc[p].cred
        /\ pc[p].at \in {"updRecord", "updContext"} => idm = {pc[p].cred}
        /\ pc[p].at = "updContext" => record = pc[p].cred
        /\ pc[p].at = "delIdm" => keys \subseteq {pc[p].cred, Empty} /\ idm \subseteq {pc[p].cred}
        /\ pc[p].at \in {"delIdm", "delDone", "delContext"} => latest = Empty
        /\ pc[p].at \in {"delDone", "delContext", "delRecord", "dcRecord", "dcKey", "dcContext"} => idm = {}
        /\ pc[p].at = "dcIdm" /\ pc[p].cred \in idm => pc[p].old # None
        /\ pc[p].at \in {"dcRecord", "dcKey", "dcContext"} => keys \subseteq {pc[p].cred, Empty}
        /\ pc[p].at = "dcContext" => latest = Empty
        /\ pc[p].at \notin {"auContext", "auDone", "updUndo"}
        /\ pc[p].call = "auth" => pc[p].cred \in idm

DelCredAlone ==
    \A p, q \in Proc : pc[p].call = "delCred" => pc[q].call \notin {"add", "update", "auth"}

\* The record names the PIN, and the key is the PIN's.
Settled ==
    /\ (\A p \in Proc : pc[p].at \notin {"addRecord"} \cup UpdPlaces) => idm \subseteq {record}
    /\ (\A p \in Proc : pc[p].at \notin Busy) => keys = IF idm = {} THEN {Empty} ELSE idm

Quiet == world.crashes = 0 /\ Exact /\ Alone /\ DelCredAlone /\ Settled
AInv == world.faults \subseteq {"info"} => Quiet

LEMMA InitAgree == CrashIsFailure /\ Init => AInv
BY ConstantsOK DEF CrashIsFailure, Init, AInv, Quiet, Exact, Alone, DelCredAlone, Settled, Idle, At, UpdPlaces, Busy

LEMMA StepAgree == AuthApart /\ DelCredApart /\ TInv /\ AInv /\ [Next]_vars => AInv'
<1> SUFFICES ASSUME AuthApart, DelCredApart, TInv, AInv, [Next]_vars, world'.faults \subseteq {"info"}
             PROVE  Quiet'
  BY DEF AInv
<1> USE ConstantsOK DEF TInv, Quiet, Records, At, Idle, Goto, Return, storage, disk,
            Locked, AddPlaces, UpdPlaces, DelPlaces, DcPlaces, AuPlaces, AuLocked, AcPlaces
<1>a. world.faults \subseteq {"info"}
  BY WorldKept
<1>b. world.crashes = 0 /\ Exact /\ Alone /\ DelCredAlone /\ Settled
  BY <1>a DEF AInv
<1> USE <1>a, <1>b
<1>1. ASSUME NEW p \in Proc, AddCredential(p) PROVE Quiet'
  <2> USE <1>1 DEF AddCredential, MayBegin, Lock, CreateSecretFaultFile
  <2>1. Exact'
    BY SMTT(60) DEF Exact, Alone, DelCredAlone, Settled, Busy, Typing, PlacesOfCalls, LockHeld
  <2>2. Alone' /\ DelCredAlone'
    BY SMTT(30) DEF Alone, DelCredAlone, AuthApart, DelCredApart, Typing
  <2>3. Settled'
    BY SMTT(60) DEF Exact, Alone, DelCredAlone, Settled, Busy, Typing, PlacesOfCalls, LockHeld
  <2> QED BY <2>1, <2>2, <2>3
<1>2. ASSUME NEW p \in Proc, UpdateCredential(p) PROVE Quiet'
  <2> USE <1>2 DEF UpdateCredential, MayBegin, Lock, Fresh
  <2>1. Exact'
    BY SMTT(60) DEF Exact, Alone, DelCredAlone, Settled, Busy, Typing, PlacesOfCalls, LockHeld
  <2>2. Alone' /\ DelCredAlone'
    BY SMTT(30) DEF Alone, DelCredAlone, AuthApart, DelCredApart, Typing
  <2>3. Settled'
    BY SMTT(60) DEF Exact, Alone, DelCredAlone, Settled, Busy, Typing, PlacesOfCalls, LockHeld
  <2> QED BY <2>1, <2>2, <2>3
<1>3. ASSUME NEW p \in Proc, DelUser(p) PROVE Quiet'
  <2> USE <1>3 DEF DelUser, MayBegin, Lock, CreateSecretFaultFile
  <2>1. Exact'
    BY SMTT(60) DEF Exact, Alone, DelCredAlone, Settled, Busy, Typing, PlacesOfCalls, LockHeld
  <2>2. Alone' /\ DelCredAlone'
    BY SMTT(30) DEF Alone, DelCredAlone, AuthApart, DelCredApart, Typing
  <2>3. Settled'
    BY SMTT(60) DEF Exact, Alone, DelCredAlone, Settled, Busy, Typing, PlacesOfCalls, LockHeld
  <2> QED BY <2>1, <2>2, <2>3
<1>4. ASSUME NEW p \in Proc, DelCred(p) PROVE Quiet'
  <2> USE <1>4 DEF DelCred, MayBegin
  <2>a. \A q \in Proc : pc[q].call \notin {"add", "update", "auth"}
    BY DEF DelCredApart
  <2>b. idm \subseteq {record}
    BY <2>a DEF Settled, PlacesOfCalls
  <2>1. Exact'
    BY <2>a, <2>b, SMTT(60) DEF Exact, Alone, DelCredAlone, Settled, Busy, Typing, PlacesOfCalls, LockHeld
  <2>2. Alone' /\ DelCredAlone'
    BY SMTT(30) DEF Alone, DelCredAlone, AuthApart, DelCredApart, Typing
  <2>3. Settled'
    BY SMTT(60) DEF Exact, Alone, DelCredAlone, Settled, Busy, Typing, PlacesOfCalls, LockHeld
  <2> QED BY <2>1, <2>2, <2>3
<1>5. ASSUME NEW p \in Proc, UnlockUserStorage(p) PROVE Quiet'
  <2> USE <1>5 DEF UnlockUserStorage, MayBegin
  <2>1. Exact'
    BY SMTT(60) DEF Exact, Alone, DelCredAlone, Settled, Busy, Typing, PlacesOfCalls, LockHeld
  <2>2. Alone' /\ DelCredAlone'
    BY SMTT(30) DEF Alone, DelCredAlone, AuthApart, DelCredApart, Typing
  <2>3. Settled'
    BY SMTT(60) DEF Exact, Alone, DelCredAlone, Settled, Busy, Typing, PlacesOfCalls, LockHeld
  <2> QED BY <2>1, <2>2, <2>3
<1>6. ASSUME NEW p \in Proc, NeedSkipActiveUserKey(p) PROVE Quiet'
  <2> USE <1>6 DEF NeedSkipActiveUserKey, MayBegin
  <2>1. Exact'
    BY SMTT(60) DEF Exact, Alone, DelCredAlone, Settled, Busy, Typing, PlacesOfCalls, LockHeld
  <2>2. Alone' /\ DelCredAlone'
    BY SMTT(30) DEF Alone, DelCredAlone, AuthApart, DelCredApart, Typing
  <2>3. Settled'
    BY SMTT(60) DEF Exact, Alone, DelCredAlone, Settled, Busy, Typing, PlacesOfCalls, LockHeld
  <2> QED BY <2>1, <2>2, <2>3
<1>7. ASSUME NEW p \in Proc, AddCredIdm(p) PROVE Quiet'
  <2> USE <1>7 DEF AddCredIdm, Fresh
  <2>1. Exact'
    BY SMTT(60) DEF Exact, Alone, DelCredAlone, Settled, Busy, Typing, PlacesOfCalls, LockHeld
  <2>2. Alone' /\ DelCredAlone'
    BY SMTT(30) DEF Alone, DelCredAlone, PlacesOfCalls, Typing
  <2>3. Settled'
    BY SMTT(60) DEF Exact, Alone, DelCredAlone, Settled, Busy, Typing, PlacesOfCalls, LockHeld
  <2> QED BY <2>1, <2>2, <2>3
<1>8. ASSUME NEW p \in Proc, AddCredRecord(p) PROVE Quiet'
  <2> USE <1>8 DEF AddCredRecord
  <2>1. Exact'
    BY SMTT(60) DEF Exact, Alone, DelCredAlone, Settled, Busy, Typing, PlacesOfCalls, LockHeld
  <2>2. Alone' /\ DelCredAlone'
    BY SMTT(30) DEF Alone, DelCredAlone, AuthApart, DelCredApart, Typing
  <2>3. Settled'
    BY SMTT(60) DEF Exact, Alone, DelCredAlone, Settled, Busy, Typing, PlacesOfCalls, LockHeld
  <2> QED BY <2>1, <2>2, <2>3
<1>9. ASSUME NEW p \in Proc, AddUserKey(p) PROVE Quiet'
  <2> USE <1>9 DEF AddUserKey, Unlock, UpdateStorageUserAuth
  <2>1. Exact'
    BY SMTT(60) DEF Exact, Alone, DelCredAlone, Settled, Busy, Typing, PlacesOfCalls, LockHeld
  <2>2. Alone' /\ DelCredAlone'
    BY SMTT(30) DEF Alone, DelCredAlone, AuthApart, DelCredApart, Typing
  <2>3. Settled'
    BY SMTT(60) DEF Exact, Alone, DelCredAlone, Settled, Busy, Typing, PlacesOfCalls, LockHeld
  <2> QED BY <2>1, <2>2, <2>3
<1>10. ASSUME NEW p \in Proc, AddUserKeyContext(p) PROVE Quiet'
  <2> USE <1>10 DEF AddUserKeyContext, Unlock, UpdateStorageKeyContext
  <2>a. idm = {pc[p].cred} /\ record = pc[p].cred /\ keys' = {pc[p].cred}
    BY DEF Exact
  <2>1. Exact'
    BY SMTT(60) DEF Exact, Alone, DelCredAlone, Settled, Busy, Typing, PlacesOfCalls, LockHeld
  <2>2. Alone' /\ DelCredAlone'
    BY SMTT(30) DEF Alone, DelCredAlone, AuthApart, DelCredApart, Typing
  <2>3. Settled'
    BY <2>a DEF Settled
  <2> QED BY <2>1, <2>2, <2>3
<1>11. ASSUME NEW p \in Proc, FaultFileDone(p) PROVE Quiet'
  <2> USE <1>11 DEF FaultFileDone, Unlock, DeleteSecretFaultFile
  <2>1. Exact'
    BY SMTT(60) DEF Exact, Alone, DelCredAlone, Settled, Busy, Typing, PlacesOfCalls, LockHeld
  <2>2. Alone' /\ DelCredAlone'
    BY SMTT(30) DEF Alone, DelCredAlone, AuthApart, DelCredApart, Typing
  <2>3. Settled'
    BY SMTT(60) DEF Exact, Alone, DelCredAlone, Settled, Busy, Typing, PlacesOfCalls, LockHeld
  <2> QED BY <2>1, <2>2, <2>3
<1>12. ASSUME NEW p \in Proc, UpdateCredKey(p) PROVE Quiet'
  <2> USE <1>12 DEF UpdateCredKey, Unlock, UpdateStorageUserAuth
  <2>1. Exact'
    BY SMTT(60) DEF Exact, Alone, DelCredAlone, Settled, Busy, Typing, PlacesOfCalls, LockHeld
  <2>2. Alone' /\ DelCredAlone'
    BY SMTT(30) DEF Alone, DelCredAlone, AuthApart, DelCredApart, Typing
  <2>3. Settled'
    BY SMTT(60) DEF Exact, Alone, DelCredAlone, Settled, Busy, Typing, PlacesOfCalls, LockHeld
  <2> QED BY <2>1, <2>2, <2>3
<1>13. ASSUME NEW p \in Proc, UpdateCredDelete(p) PROVE Quiet'
  <2> USE <1>13 DEF UpdateCredDelete, Unlock
  <2>1. Exact'
    BY SMTT(60) DEF Exact, Alone, DelCredAlone, Settled, Busy, Typing, PlacesOfCalls, LockHeld
  <2>2. Alone' /\ DelCredAlone'
    BY SMTT(30) DEF Alone, DelCredAlone, AuthApart, DelCredApart, Typing
  <2>3. Settled'
    BY SMTT(60) DEF Exact, Alone, DelCredAlone, Settled, Busy, Typing, PlacesOfCalls, LockHeld
  <2> QED BY <2>1, <2>2, <2>3
<1>14. ASSUME NEW p \in Proc, CommitCredUpdate(p) PROVE Quiet'
  <2> USE <1>14 DEF CommitCredUpdate
  <2>1. Exact'
    BY SMTT(60) DEF Exact, Alone, DelCredAlone, Settled, Busy, Typing, PlacesOfCalls, LockHeld
  <2>2. Alone' /\ DelCredAlone'
    BY SMTT(30) DEF Alone, DelCredAlone, AuthApart, DelCredApart, Typing
  <2>3. Settled'
    BY SMTT(60) DEF Exact, Alone, DelCredAlone, Settled, Busy, Typing, PlacesOfCalls, LockHeld
  <2> QED BY <2>1, <2>2, <2>3
<1>15. ASSUME NEW p \in Proc, CommitCredUpdateContext(p) PROVE Quiet'
  <2> USE <1>15 DEF CommitCredUpdateContext, Unlock, UpdateStorageKeyContext
  <2>a. idm = {pc[p].cred} /\ record = pc[p].cred /\ keys' = {pc[p].cred}
    BY DEF Exact
  <2>1. Exact'
    BY SMTT(60) DEF Exact, Alone, DelCredAlone, Settled, Busy, Typing, PlacesOfCalls, LockHeld
  <2>2. Alone' /\ DelCredAlone'
    BY SMTT(30) DEF Alone, DelCredAlone, AuthApart, DelCredApart, Typing
  <2>3. Settled'
    BY <2>a DEF Settled
  <2> QED BY <2>1, <2>2, <2>3
<1>16. ASSUME NEW p \in Proc, DelUserKey(p) PROVE Quiet'
  <2> USE <1>16 DEF DelUserKey, UpdateStorageUserAuth
  <2>a. \A q \in Proc : pc[q].at \in Locked => q = p
    BY DEF LockHeld
  <2>b. pc[p].cred \in keys => keys \subseteq {pc[p].cred, Empty} /\ idm \subseteq {pc[p].cred}
    <3>1. CASE \E q \in Proc : pc[q].at \in {"dcRecord", "dcKey", "dcContext"}
      BY <3>1 DEF Exact, Typing, PlacesOfCalls
    <3>2. CASE \A q \in Proc : pc[q].at \notin {"dcRecord", "dcKey", "dcContext"}
      <4>1. \A q \in Proc : pc[q].at \notin Busy \cup {"addRecord"} \cup UpdPlaces
        BY <2>a, <3>2 DEF Busy
      <4>2. keys = (IF idm = {} THEN {Empty} ELSE idm) /\ idm \subseteq {record}
        BY <4>1 DEF Settled
      <4> QED BY <4>2, ConstantsOK DEF PlacesOfCalls
    <3> QED BY <3>1, <3>2
  <2>1. Exact'
    BY <2>b, SMTT(60) DEF Exact, Alone, DelCredAlone, Settled, Busy, Typing, PlacesOfCalls, LockHeld
  <2>2. Alone' /\ DelCredAlone'
    BY SMTT(30) DEF Alone, DelCredAlone, AuthApart, DelCredApart, Typing
  <2>3. Settled'
    BY SMTT(60) DEF Exact, Alone, DelCredAlone, Settled, Busy, Typing, PlacesOfCalls, LockHeld
  <2> QED BY <2>1, <2>2, <2>3
<1>17. ASSUME NEW p \in Proc, DelUserIdm(p) PROVE Quiet'
  <2> USE <1>17 DEF DelUserIdm, Unlock
  <2>1. Exact'
    BY SMTT(60) DEF Exact, Alone, DelCredAlone, Settled, Busy, Typing, PlacesOfCalls, LockHeld
  <2>2. Alone' /\ DelCredAlone'
    BY SMTT(30) DEF Alone, DelCredAlone, AuthApart, DelCredApart, Typing
  <2>3. Settled'
    BY SMTT(60) DEF Exact, Alone, DelCredAlone, Settled, Busy, Typing, PlacesOfCalls, LockHeld
  <2> QED BY <2>1, <2>2, <2>3
<1>18. ASSUME NEW p \in Proc, CommitDelCred(p) PROVE Quiet'
  <2> USE <1>18 DEF CommitDelCred, DeleteSecretFaultFile
  <2>1. Exact'
    BY SMTT(60) DEF Exact, Alone, DelCredAlone, Settled, Busy, Typing, PlacesOfCalls, LockHeld
  <2>2. Alone' /\ DelCredAlone'
    BY SMTT(30) DEF Alone, DelCredAlone, AuthApart, DelCredApart, Typing
  <2>3. Settled'
    BY SMTT(60) DEF Exact, Alone, DelCredAlone, Settled, Busy, Typing, PlacesOfCalls, LockHeld
  <2> QED BY <2>1, <2>2, <2>3
<1>19. ASSUME NEW p \in Proc, CommitDelCredContext(p) PROVE Quiet'
  <2> USE <1>19 DEF CommitDelCredContext, UpdateStorageKeyContext
  <2>1. Exact'
    BY SMTT(60) DEF Exact, Alone, DelCredAlone, Settled, Busy, Typing, PlacesOfCalls, LockHeld
  <2>2. Alone' /\ DelCredAlone'
    BY SMTT(30) DEF Alone, DelCredAlone, AuthApart, DelCredApart, Typing
  <2>3. Settled'
    BY SMTT(60) DEF Exact, Alone, DelCredAlone, Settled, Busy, Typing, PlacesOfCalls, LockHeld
  <2> QED BY <2>1, <2>2, <2>3
<1>20. ASSUME NEW p \in Proc, CommitDelCredRecord(p) PROVE Quiet'
  <2> USE <1>20 DEF CommitDelCredRecord, Unlock
  <2>1. Exact'
    BY SMTT(60) DEF Exact, Alone, DelCredAlone, Settled, Busy, Typing, PlacesOfCalls, LockHeld
  <2>2. Alone' /\ DelCredAlone'
    BY SMTT(30) DEF Alone, DelCredAlone, AuthApart, DelCredApart, Typing
  <2>3. Settled'
    BY SMTT(60) DEF Exact, Alone, DelCredAlone, Settled, Busy, Typing, PlacesOfCalls, LockHeld
  <2> QED BY <2>1, <2>2, <2>3
<1>21. ASSUME NEW p \in Proc, DelCredIdm(p) PROVE Quiet'
  <2> USE <1>21 DEF DelCredIdm
  <2>1. Exact'
    BY SMTT(60) DEF Exact, Alone, DelCredAlone, Settled, Busy, Typing, PlacesOfCalls, LockHeld
  <2>2. Alone' /\ DelCredAlone'
    BY SMTT(30) DEF Alone, DelCredAlone, AuthApart, DelCredApart, Typing
  <2>3. Settled'
    BY SMTT(60) DEF Exact, Alone, DelCredAlone, Settled, Busy, Typing, PlacesOfCalls, LockHeld
  <2> QED BY <2>1, <2>2, <2>3
<1>22. ASSUME NEW p \in Proc, DelCredRecord(p) PROVE Quiet'
  <2> USE <1>22 DEF DelCredRecord
  <2>1. Exact'
    BY SMTT(60) DEF Exact, Alone, DelCredAlone, Settled, Busy, Typing, PlacesOfCalls, LockHeld
  <2>2. Alone' /\ DelCredAlone'
    BY SMTT(30) DEF Alone, DelCredAlone, AuthApart, DelCredApart, Typing
  <2>3. Settled'
    BY SMTT(60) DEF Exact, Alone, DelCredAlone, Settled, Busy, Typing, PlacesOfCalls, LockHeld
  <2> QED BY <2>1, <2>2, <2>3
<1>23. ASSUME NEW p \in Proc, DelCredKey(p) PROVE Quiet'
  <2> USE <1>23 DEF DelCredKey, UpdateStorageUserAuth
  <2>1. Exact'
    BY SMTT(60) DEF Exact, Alone, DelCredAlone, Settled, Busy, Typing, PlacesOfCalls, LockHeld
  <2>2. Alone' /\ DelCredAlone'
    BY SMTT(30) DEF Alone, DelCredAlone, AuthApart, DelCredApart, Typing
  <2>3. Settled'
    BY SMTT(60) DEF Exact, Alone, DelCredAlone, Settled, Busy, Typing, PlacesOfCalls, LockHeld
  <2> QED BY <2>1, <2>2, <2>3
<1>24. ASSUME NEW p \in Proc, DelCredContext(p) PROVE Quiet'
  <2> USE <1>24 DEF DelCredContext, UpdateStorageKeyContext
  <2>1. Exact'
    BY SMTT(60) DEF Exact, Alone, DelCredAlone, Settled, Busy, Typing, PlacesOfCalls, LockHeld
  <2>2. Alone' /\ DelCredAlone'
    BY SMTT(30) DEF Alone, DelCredAlone, AuthApart, DelCredApart, Typing
  <2>3. Settled'
    BY SMTT(60) DEF Exact, Alone, DelCredAlone, Settled, Busy, Typing, PlacesOfCalls, LockHeld
  <2> QED BY <2>1, <2>2, <2>3
<1>25. ASSUME NEW p \in Proc, HandleFileKeyException(p) PROVE Quiet'
  <2> USE <1>25 DEF HandleFileKeyException, Lock
  <2>1. Exact'
    BY SMTT(60) DEF Exact, Alone, DelCredAlone, Settled, Busy, Typing, PlacesOfCalls, LockHeld
  <2>2. Alone' /\ DelCredAlone'
    BY SMTT(30) DEF Alone, DelCredAlone, AuthApart, DelCredApart, Typing
  <2>3. Settled'
    BY SMTT(60) DEF Exact, Alone, DelCredAlone, Settled, Busy, Typing, PlacesOfCalls, LockHeld
  <2> QED BY <2>1, <2>2, <2>3
<1>26. ASSUME NEW p \in Proc, RestoreUserAuth(p) PROVE Quiet'
  <2> USE <1>26 DEF RestoreUserAuth, Unlock, UpdateStorageUserAuth
  <2>1. Exact'
    BY SMTT(60) DEF Exact, Alone, DelCredAlone, Settled, Busy, Typing, PlacesOfCalls, LockHeld
  <2>2. Alone' /\ DelCredAlone'
    BY SMTT(30) DEF Alone, DelCredAlone, AuthApart, DelCredApart, Typing
  <2>3. Settled'
    BY SMTT(60) DEF Exact, Alone, DelCredAlone, Settled, Busy, Typing, PlacesOfCalls, LockHeld
  <2> QED BY <2>1, <2>2, <2>3
<1>27. ASSUME NEW p \in Proc, RestoreKeyContext(p) PROVE Quiet'
  <2> USE <1>27 DEF RestoreKeyContext, Unlock, UpdateStorageKeyContext
  <2>1. Exact'
    BY SMTT(60) DEF Exact, Alone, DelCredAlone, Settled, Busy, Typing, PlacesOfCalls, LockHeld
  <2>2. Alone' /\ DelCredAlone'
    BY SMTT(30) DEF Alone, DelCredAlone, AuthApart, DelCredApart, Typing
  <2>3. Settled'
    BY SMTT(60) DEF Exact, Alone, DelCredAlone, Settled, Busy, Typing, PlacesOfCalls, LockHeld
  <2> QED BY <2>1, <2>2, <2>3
<1>28. ASSUME NEW p \in Proc, RestoreDone(p) PROVE Quiet'
  <2> USE <1>28 DEF RestoreDone, Unlock, DeleteSecretFaultFile
  <2>1. Exact'
    BY SMTT(60) DEF Exact, Alone, DelCredAlone, Settled, Busy, Typing, PlacesOfCalls, LockHeld
  <2>2. Alone' /\ DelCredAlone'
    BY SMTT(30) DEF Alone, DelCredAlone, AuthApart, DelCredApart, Typing
  <2>3. Settled'
    BY SMTT(60) DEF Exact, Alone, DelCredAlone, Settled, Busy, Typing, PlacesOfCalls, LockHeld
  <2> QED BY <2>1, <2>2, <2>3
<1>29. ASSUME NEW p \in Proc, ActivateUserKey(p) PROVE Quiet'
  <2> USE <1>29 DEF ActivateUserKey
  <2>1. Exact'
    BY SMTT(60) DEF Exact, Alone, DelCredAlone, Settled, Busy, Typing, PlacesOfCalls, LockHeld
  <2>2. Alone' /\ DelCredAlone'
    BY SMTT(30) DEF Alone, DelCredAlone, AuthApart, DelCredApart, Typing
  <2>3. Settled'
    BY SMTT(60) DEF Exact, Alone, DelCredAlone, Settled, Busy, Typing, PlacesOfCalls, LockHeld
  <2> QED BY <2>1, <2>2, <2>3
<1>30. ASSUME NEW p \in Proc, IsExistPIN(p) PROVE Quiet'
  <2> USE <1>30 DEF IsExistPIN
  <2>1. Exact'
    BY SMTT(60) DEF Exact, Alone, DelCredAlone, Settled, Busy, Typing, PlacesOfCalls, LockHeld
  <2>2. Alone' /\ DelCredAlone'
    BY SMTT(30) DEF Alone, DelCredAlone, AuthApart, DelCredApart, Typing
  <2>3. Settled'
    BY SMTT(60) DEF Exact, Alone, DelCredAlone, Settled, Busy, Typing, PlacesOfCalls, LockHeld
  <2> QED BY <2>1, <2>2, <2>3
<1>31. ASSUME NEW p \in Proc, DeleteSecretFlag(p) PROVE Quiet'
  <2> USE <1>31 DEF DeleteSecretFlag, DeleteSecretFaultFile
  <2>1. Exact'
    BY SMTT(60) DEF Exact, Alone, DelCredAlone, Settled, Busy, Typing, PlacesOfCalls, LockHeld
  <2>2. Alone' /\ DelCredAlone'
    BY SMTT(30) DEF Alone, DelCredAlone, AuthApart, DelCredApart, Typing
  <2>3. Settled'
    BY SMTT(60) DEF Exact, Alone, DelCredAlone, Settled, Busy, Typing, PlacesOfCalls, LockHeld
  <2> QED BY <2>1, <2>2, <2>3
<1>32. ASSUME NEW p \in Proc, ActiveUserKeyEmpty(p) PROVE Quiet'
  <2> USE <1>32 DEF ActiveUserKeyEmpty
  <2>1. Exact'
    BY SMTT(60) DEF Exact, Alone, DelCredAlone, Settled, Busy, Typing, PlacesOfCalls, LockHeld
  <2>2. Alone' /\ DelCredAlone'
    BY SMTT(30) DEF Alone, DelCredAlone, AuthApart, DelCredApart, Typing
  <2>3. Settled'
    BY SMTT(60) DEF Exact, Alone, DelCredAlone, Settled, Busy, Typing, PlacesOfCalls, LockHeld
  <2> QED BY <2>1, <2>2, <2>3
<1>33. CASE StopUser
  BY <1>33 DEF StopUser, Exact, Alone, DelCredAlone, Settled
<1>34. CASE Crash
  BY <1>34 DEF Crash
<1>35. CASE UNCHANGED vars
  BY <1>35 DEF vars, Exact, Alone, DelCredAlone, Settled
<1>36. ASSUME NEW p \in Proc, UpdateCredUndo(p) PROVE FALSE
  BY <1>36 DEF UpdateCredUndo, Exact
<1> QED
  BY <1>1, <1>2, <1>3, <1>4, <1>5, <1>6, <1>7, <1>8, <1>9, <1>10, <1>11, <1>12, <1>13, <1>14, <1>15,
     <1>16, <1>17, <1>18, <1>19, <1>20, <1>21, <1>22, <1>23, <1>24, <1>25, <1>26, <1>27, <1>28,
     <1>29, <1>30, <1>31, <1>32, <1>33, <1>34, <1>35, <1>36 DEF Next, Begin, Step

(* Whatever calls have run beside each other, DelCred included, once they  *)
(* have returned the storage manager opens the files for the user's PIN    *)
(* and nothing else, when no service failed.                               *)
THEOREM ServicesAgree ==
    ASSUME AuthApart, DelCredApart, CrashIsFailure
    PROVE  Spec => []KeysAgreeWhenIdle
<1>1. TInv /\ AInv /\ [Next]_vars => (TInv /\ AInv)'
  BY StepTyping, StepAgree
<1>2. AInv => KeysAgreeWhenIdle
  BY DEF AInv, Quiet, Settled, KeysAgreeWhenIdle, Busy, UpdPlaces, Idle, At
<1>3. Init => AInv
  BY InitAgree
<1> QED BY <1>1, <1>2, <1>3, InitTyping, PTL DEF Spec
=============================================================================
