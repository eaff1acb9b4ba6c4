--------------------------- MODULE CredentialKeys ---------------------------
(***************************************************************************)
(* The PIN of one user and the key of its files: InnerAccountIAMManager,   *)
(* the callbacks of account_iam_callback.cpp and the unlocking of          *)
(* os_account_interface.cpp.                                               *)
(*                                                                         *)
(* A PIN lives in the user IDM, the key that its secret opens in the       *)
(* storage manager: two services that know nothing of each other.  The     *)
(* account service changes one, then the other, then its own record of     *)
(* the credential, and leaves the file iam_fault behind while it is        *)
(* between them.  A secret is named by its credential; Empty opens the key *)
(* of a user without a PIN.  The storage manager keeps every version of    *)
(* the key until the key context is updated, which keeps the latest.       *)
(*                                                                         *)
(* Calls of other biometric types and domain accounts that unlock the      *)
(* device leave the key alone and are not in this module.                  *)
(***************************************************************************)
EXTENDS Naturals, FiniteSets

CONSTANTS
    Proc,       \* threads of the service
    Cred,       \* credentials the user IDM may hand out
    Empty,      \* the secret of a user without a PIN
    None,       \* no credential, no thread
    Worlds,     \* which calls are made, what may fail, how often a crash
    Apart       \* pairs of calls that are not made at the same time

Calls == {"add", "update", "delUser", "delCred", "auth", "activate"}
FaultKinds == {"storage", "lost", "null", "idm", "info", "file"}

ASSUME ConstantsOK ==
    /\ Empty \notin Cred /\ None \notin Cred \cup {Empty} /\ None \notin Proc
    /\ Apart \subseteq SUBSET Calls
    /\ Worlds \subseteq [ops : SUBSET Calls, faults : SUBSET FaultKinds, crashes : Nat]

VARIABLES
    idm,      \* the PINs enrolled in the user IDM
    keys,     \* secrets that open some version of the key
    latest,   \* the secret of the latest version
    open,     \* the files of the user are decrypted
    record,   \* credentialId of the account file
    fault,    \* the file iam_fault exists
    lock,     \* the holder of the user's operating lock
    pc,       \* where each thread is: [call, at, cred, old]
    world     \* one of Worlds, and the crashes that are left

disk == <<record, fault>>
storage == <<keys, latest, open>>
vars == <<idm, keys, latest, open, record, fault, lock, pc, world>>

(* A thread's call, its place there, the credential it works for and the   *)
(* one that is replaced.                                                   *)
At(call, place, c, o) == [call |-> call, at |-> place, cred |-> c, old |-> o]
Idle == At("none", "idle", None, None)

Places == {"idle", "addIdm", "addRecord", "addKey", "addContext", "done",
           "updKey", "updUndo", "updDelete", "updRecord", "updContext",
           "delKey", "delIdm", "delDone", "delContext", "delRecord",
           "dcIdm", "dcRecord", "dcKey", "dcContext",
           "auInfo", "auKey", "auContext", "auDone", "auActivate",
           "acPin", "acDrop", "acActivate"}

(* A user who has just been created has no PIN.                            *)
Init ==
    /\ idm = {}
    /\ keys = {Empty} /\ latest = Empty /\ open = FALSE
    /\ record = None /\ fault = FALSE
    /\ lock = None /\ pc = [p \in Proc |-> Idle]
    /\ world \in Worlds

MayBegin(p, call) ==
    /\ pc[p] = Idle /\ call \in world.ops
    /\ \A q \in Proc : {call, pc[q].call} \notin Apart

Goto(p, place) == pc' = [pc EXCEPT ![p].at = place]
Return(p) == pc' = [pc EXCEPT ![p] = Idle]

(* std::lock_guard over GetOperatingUserLock: held until the call returns. *)
Lock(p) == lock = None /\ lock' = p
Unlock == lock' = None

(* A credential no service, file or thread remembers.                      *)
Fresh == {c \in Cred : c \notin idm \cup keys \cup {record, latest}
                       /\ \A p \in Proc : c \notin {pc[p].cred, pc[p].old}}

-----------------------------------------------------------------------------
(* The storage manager.  A call is repeated up to MAX_RETRY_TIMES while    *)
(* the connection fails, so that an error may also stand for a change that *)
(* was made ("lost").  E_PARAMS_NULLPTR_ERR counts as success, though      *)
(* nothing was changed ("null").                                           *)

(* A new version of the key, for whoever can open an old one.              *)
UpdateStorageUserAuth(may, new, code) ==
    \/ /\ code = "ok" /\ may
       /\ keys' = keys \cup {new} /\ latest' = new
    \/ /\ code = "ok" /\ "null" \in world.faults
       /\ UNCHANGED <<keys, latest>>
    \/ /\ code = "error" /\ (~may \/ "storage" \in world.faults)
       /\ UNCHANGED <<keys, latest>>
    \/ /\ code = "error" /\ may /\ "lost" \in world.faults
       /\ keys' = keys \cup {new} /\ latest' = new

(* Only the latest version is kept.                                        *)
UpdateStorageKeyContext(code) ==
    \/ code = "ok" /\ keys' = {latest}
    \/ code = "error" /\ "storage" \in world.faults /\ keys' = keys
    \/ code = "error" /\ "lost" \in world.faults /\ keys' = {latest}

(* iam_fault; a failure to create or to delete it is only reported.        *)
CreateSecretFaultFile == fault' = TRUE \/ ("file" \in world.faults /\ fault' = fault)
DeleteSecretFaultFile == fault' = FALSE \/ ("file" \in world.faults /\ fault' = fault)

-----------------------------------------------------------------------------
(* AddCredential and AddCredCallback::OnResult.                            *)

AddCredential(p) ==
    /\ MayBegin(p, "add")
    /\ Lock(p) /\ CreateSecretFaultFile
    /\ pc' = [pc EXCEPT ![p] = At("add", "addIdm", None, None)]
    /\ UNCHANGED <<idm, storage, record, world>>

(* The IDM enrols a PIN for a user who has none.                           *)
AddCredIdm(p) ==
    /\ pc[p].at = "addIdm"
    /\ \/ /\ idm = {}
          /\ \E c \in Fresh : /\ idm' = {c}
                              /\ pc' = [pc EXCEPT ![p] = At("add", "addRecord", c, None)]
       \/ (idm # {} \/ "idm" \in world.faults) /\ Goto(p, "done") /\ idm' = idm
    /\ UNCHANGED <<storage, disk, lock, world>>

AddCredRecord(p) ==
    /\ pc[p].at = "addRecord"
    /\ record' = pc[p].cred
    /\ Goto(p, "addKey")
    /\ UNCHANGED <<idm, storage, fault, lock, world>>

(* AddUserKey: on an error iam_fault stays.                                *)
AddUserKey(p) ==
    /\ pc[p].at = "addKey"
    /\ \/ /\ UpdateStorageUserAuth(Empty \in keys, pc[p].cred, "ok")
          /\ Goto(p, "addContext") /\ lock' = lock
       \/ /\ UpdateStorageUserAuth(Empty \in keys, pc[p].cred, "error")
          /\ Return(p) /\ Unlock
    /\ UNCHANGED <<idm, open, disk, world>>

AddUserKeyContext(p) ==
    /\ pc[p].at = "addContext"
    /\ \/ UpdateStorageKeyContext("ok") /\ Goto(p, "done") /\ lock' = lock
       \/ UpdateStorageKeyContext("error") /\ Return(p) /\ Unlock
    /\ UNCHANGED <<idm, latest, open, disk, world>>

(* The end of an addition, of an update and of a deletion whose key could  *)
(* not be changed: the flag goes when the key is in place, and also when   *)
(* the IDM or the storage manager refused.                                 *)
FaultFileDone(p) ==
    /\ pc[p].at = "done"
    /\ DeleteSecretFaultFile
    /\ Return(p) /\ Unlock
    /\ UNCHANGED <<idm, storage, record, world>>

-----------------------------------------------------------------------------
(* UpdateCredential, UpdateCredCallback and CommitCredUpdateCallback.      *)

(* The new PIN is enrolled beside the old one.                             *)
UpdateCredential(p) ==
    /\ MayBegin(p, "update")
    /\ Lock(p)
    /\ \E o \in idm, c \in Fresh :
          /\ idm' = idm \cup {c}
          /\ pc' = [pc EXCEPT ![p] = At("update", "updKey", c, o)]
    /\ UNCHANGED <<storage, disk, world>>

(* When the key cannot follow, the IDM is told to take the new PIN back,   *)
(* and nobody waits for it.  A caller without the old secret has the       *)
(* recovery key instead.                                                   *)
UpdateCredKey(p) ==
    /\ pc[p].at = "updKey"
    /\ \E recovery \in BOOLEAN :
          LET may == recovery \/ pc[p].old \in keys IN
          \/ /\ UpdateStorageUserAuth(may, pc[p].cred, "ok")
             /\ Goto(p, "updDelete") /\ lock' = lock
          \/ /\ UpdateStorageUserAuth(may, pc[p].cred, "error")
             /\ Goto(p, "updUndo") /\ Unlock
    /\ UNCHANGED <<idm, open, disk, world>>

(* The IDM does so later, when the call has returned; nobody looks whether *)
(* it did.  The thread stands for the IDM here.                            *)
UpdateCredUndo(p) ==
    /\ pc[p].at = "updUndo"
    /\ idm' = idm \ {pc[p].cred} \/ ("idm" \in world.faults /\ idm' = idm)
    /\ Return(p)
    /\ UNCHANGED <<storage, disk, lock, world>>

(* The commit: the IDM deletes the old PIN.                                *)
UpdateCredDelete(p) ==
    /\ pc[p].at = "updDelete"
    /\ \/ /\ pc[p].old \in idm /\ idm' = idm \ {pc[p].old}
          /\ Goto(p, "updRecord") /\ lock' = lock
       \/ /\ pc[p].old \notin idm \/ "idm" \in world.faults
          /\ Return(p) /\ Unlock /\ idm' = idm
    /\ UNCHANGED <<storage, disk, world>>

(* The record is written and the caller answered before the key context.   *)
CommitCredUpdate(p) ==
    /\ pc[p].at = "updRecord"
    /\ record' = pc[p].cred
    /\ Goto(p, "updContext")
    /\ UNCHANGED <<idm, storage, fault, lock, world>>

CommitCredUpdateContext(p) ==
    /\ pc[p].at = "updContext"
    /\ \/ UpdateStorageKeyContext("ok") /\ Goto(p, "done") /\ lock' = lock
       \/ UpdateStorageKeyContext("error") /\ Return(p) /\ Unlock
    /\ UNCHANGED <<idm, latest, open, disk, world>>

-----------------------------------------------------------------------------
(* DelUser, VerifyTokenCallbackWrapper and CommitDelCredCallback.          *)

(* The token is checked; it belongs to a PIN that was enrolled, c.         *)
DelUser(p) ==
    /\ MayBegin(p, "delUser")
    /\ Lock(p) /\ CreateSecretFaultFile
    /\ \E c \in idm : pc' = [pc EXCEPT ![p] = At("delUser", "delKey", c, None)]
    /\ UNCHANGED <<idm, storage, record, world>>

(* Mutant: the PIN goes although the key could not be opened.              *)
DelUserKeyIgnored(p) ==
    /\ pc[p].at = "delKey"
    /\ \E code \in {"ok", "error"} : UpdateStorageUserAuth(pc[p].cred \in keys, Empty, code)
    /\ Goto(p, "delIdm")
    /\ UNCHANGED <<idm, open, disk, lock, world>>

(* The key is opened to the empty secret before the PIN goes.              *)
DelUserKey(p) ==
    /\ pc[p].at = "delKey"
    /\ \/ /\ UpdateStorageUserAuth(pc[p].cred \in keys, Empty, "ok")
          /\ Goto(p, "delIdm")
       \/ /\ UpdateStorageUserAuth(pc[p].cred \in keys, Empty, "error")
          /\ Goto(p, "done")
    /\ UNCHANGED <<idm, open, disk, lock, world>>

(* When the IDM refuses, iam_fault stays for the next authentication.      *)
DelUserIdm(p) ==
    /\ pc[p].at = "delIdm"
    /\ \/ idm' = {} /\ Goto(p, "delDone") /\ lock' = lock
       \/ "idm" \in world.faults /\ Return(p) /\ Unlock /\ idm' = idm
    /\ UNCHANGED <<storage, disk, world>>

CommitDelCred(p) ==
    /\ pc[p].at = "delDone"
    /\ DeleteSecretFaultFile
    /\ Goto(p, "delContext")
    /\ UNCHANGED <<idm, storage, record, lock, world>>

CommitDelCredContext(p) ==
    /\ pc[p].at = "delContext"
    /\ \E code \in {"ok", "error"} : UpdateStorageKeyContext(code)
    /\ Goto(p, "delRecord")
    /\ UNCHANGED <<idm, latest, open, disk, lock, world>>

CommitDelCredRecord(p) ==
    /\ pc[p].at = "delRecord"
    /\ record' = None
    /\ Return(p) /\ Unlock
    /\ UNCHANGED <<idm, storage, fault, world>>

-----------------------------------------------------------------------------
(* DelCred and DelCredCallback: without the lock and without iam_fault.    *)

(* Mutant: no credential is taken for the PIN.                             *)
DelCredNeverPin(p) ==
    /\ MayBegin(p, "delCred")
    /\ \E c \in idm : pc' = [pc EXCEPT ![p] = At("delCred", "dcIdm", c, None)]
    /\ UNCHANGED <<idm, storage, disk, lock, world>>

(* Whether c is the PIN is read from the record, before the IDM is asked.  *)
DelCred(p) ==
    /\ MayBegin(p, "delCred")
    /\ \E c \in idm : pc' = [pc EXCEPT ![p] = At("delCred", "dcIdm", c, IF record = c THEN c ELSE None)]
    /\ UNCHANGED <<idm, storage, disk, lock, world>>

DelCredIdm(p) ==
    /\ pc[p].at = "dcIdm"
    /\ \/ /\ pc[p].cred \in idm /\ idm' = idm \ {pc[p].cred}
          /\ IF pc[p].old = None THEN Return(p) ELSE Goto(p, "dcRecord")
       \/ /\ pc[p].cred \notin idm \/ "idm" \in world.faults
          /\ Return(p) /\ idm' = idm
    /\ UNCHANGED <<storage, disk, lock, world>>

DelCredRecord(p) ==
    /\ pc[p].at = "dcRecord"
    /\ record' = None
    /\ Goto(p, "dcKey")
    /\ UNCHANGED <<idm, storage, fault, lock, world>>

(* Errors are reported, and the key context is updated all the same.       *)
DelCredKey(p) ==
    /\ pc[p].at = "dcKey"
    /\ \E code \in {"ok", "error"} : UpdateStorageUserAuth(pc[p].cred \in keys, Empty, code)
    /\ Goto(p, "dcContext")
    /\ UNCHANGED <<idm, open, disk, lock, world>>

DelCredContext(p) ==
    /\ pc[p].at = "dcContext"
    /\ \E code \in {"ok", "error"} : UpdateStorageKeyContext(code)
    /\ Return(p)
    /\ UNCHANGED <<idm, latest, open, disk, lock, world>>

-----------------------------------------------------------------------------
(* An authentication: AuthCallback::OnResult, UnlockUserStorage and        *)
(* HandleFileKeyException, which adds the key of a PIN that lacks it.      *)

(* iam_fault is looked at without the lock.                                *)
UnlockUserStorage(p) ==
    /\ MayBegin(p, "auth")
    /\ \E c \in idm :
          pc' = [pc EXCEPT ![p] = At("auth", IF fault THEN "auInfo" ELSE "auActivate", c, None)]
    /\ UNCHANGED <<idm, storage, disk, lock, world>>

(* GetSecUserInfo may fail or take too long; the lock is only tried.       *)
HandleFileKeyException(p) ==
    /\ pc[p].at = "auInfo"
    /\ \/ Lock(p) /\ Goto(p, "auKey")
       \/ (lock # None \/ "info" \in world.faults) /\ Goto(p, "auActivate") /\ lock' = lock
    /\ UNCHANGED <<idm, storage, disk, world>>

(* Mutant: the error is returned without unlock().                         *)
RestoreUserAuthKeepsLock(p) ==
    /\ pc[p].at = "auKey"
    /\ \/ /\ UpdateStorageUserAuth(Empty \in keys, pc[p].cred, "ok")
          /\ Goto(p, "auContext")
       \/ /\ UpdateStorageUserAuth(Empty \in keys, pc[p].cred, "error")
          /\ Goto(p, "auActivate")
    /\ UNCHANGED <<idm, open, disk, lock, world>>

(* The key of the PIN is added to the one that the empty secret opens.     *)
RestoreUserAuth(p) ==
    /\ pc[p].at = "auKey"
    /\ \/ /\ UpdateStorageUserAuth(Empty \in keys, pc[p].cred, "ok")
          /\ Goto(p, "auContext") /\ lock' = lock
       \/ /\ UpdateStorageUserAuth(Empty \in keys, pc[p].cred, "error")
          /\ Goto(p, "auActivate") /\ Unlock
    /\ UNCHANGED <<idm, open, disk, world>>

(* unlock() is called by hand on each of the three ways out.               *)
RestoreKeyContext(p) ==
    /\ pc[p].at = "auContext"
    /\ \/ UpdateStorageKeyContext("ok") /\ Goto(p, "auDone") /\ lock' = lock
       \/ UpdateStorageKeyContext("error") /\ Goto(p, "auActivate") /\ Unlock
    /\ UNCHANGED <<idm, latest, open, disk, world>>

RestoreDone(p) ==
    /\ pc[p].at = "auDone"
    /\ DeleteSecretFaultFile
    /\ Goto(p, "auActivate") /\ Unlock
    /\ UNCHANGED <<idm, storage, record, world>>

(* ActivateUserKey under the lock, unless the files are open already.      *)
ActivateUserKey(p) ==
    /\ pc[p].at = "auActivate"
    /\ open \/ lock = None
    /\ open' = (open \/ pc[p].cred \in keys)
    /\ Return(p)
    /\ UNCHANGED <<idm, keys, latest, disk, lock, world>>

-----------------------------------------------------------------------------
(* The activation of an account: OsAccountInterface::UnlockUser tries the  *)
(* empty secret, without the lock.                                         *)

(* NeedSkipActiveUserKey: with iam_fault the IDM is asked for a PIN; when  *)
(* it does not answer, the empty secret is tried.                          *)
NeedSkipActiveUserKey(p) ==
    /\ MayBegin(p, "activate") /\ ~open
    /\ pc' = [pc EXCEPT ![p] = At("activate", IF fault THEN "acPin" ELSE "acActivate", None, None)]
    /\ UNCHANGED <<idm, storage, disk, lock, world>>

IsExistPIN(p) ==
    /\ pc[p].at = "acPin"
    /\ \/ (idm # {} \/ open) /\ Return(p)
       \/ idm = {} /\ Goto(p, "acDrop")
       \/ "info" \in world.faults /\ Goto(p, "acActivate")
    /\ UNCHANGED <<idm, storage, disk, lock, world>>

DeleteSecretFlag(p) ==
    /\ pc[p].at = "acDrop"
    /\ DeleteSecretFaultFile
    /\ Goto(p, "acActivate")
    /\ UNCHANGED <<idm, storage, record, lock, world>>

ActiveUserKeyEmpty(p) ==
    /\ pc[p].at = "acActivate"
    /\ open' = (open \/ Empty \in keys)
    /\ Return(p)
    /\ UNCHANGED <<idm, keys, latest, disk, lock, world>>

-----------------------------------------------------------------------------
(* The user is deactivated or locked: its files are closed.                *)
StopUser ==
    /\ open /\ open' = FALSE
    /\ UNCHANGED <<idm, keys, latest, disk, lock, pc, world>>

(* The account service dies; IDM, storage manager and files remain.        *)
Crash ==
    /\ world.crashes > 0 /\ world' = [world EXCEPT !.crashes = @ - 1]
    /\ lock' = None /\ pc' = [p \in Proc |-> Idle]
    /\ UNCHANGED <<idm, storage, disk>>

(* What the call of thread p does next, once it has begun.                 *)
Step(p) ==
    \/ AddCredIdm(p) \/ AddCredRecord(p) \/ AddUserKey(p) \/ AddUserKeyContext(p) \/ FaultFileDone(p)
    \/ UpdateCredKey(p) \/ UpdateCredUndo(p) \/ UpdateCredDelete(p)
    \/ CommitCredUpdate(p) \/ CommitCredUpdateContext(p)
    \/ DelUserKey(p) \/ DelUserIdm(p) \/ CommitDelCred(p) \/ CommitDelCredContext(p) \/ CommitDelCredRecord(p)
    \/ DelCredIdm(p) \/ DelCredRecord(p) \/ DelCredKey(p) \/ DelCredContext(p)
    \/ HandleFileKeyException(p) \/ RestoreUserAuth(p) \/ RestoreKeyContext(p) \/ RestoreDone(p)
    \/ ActivateUserKey(p)
    \/ IsExistPIN(p) \/ DeleteSecretFlag(p) \/ ActiveUserKeyEmpty(p)

Begin(p) ==
    \/ AddCredential(p) \/ UpdateCredential(p) \/ DelUser(p) \/ DelCred(p)
    \/ UnlockUserStorage(p) \/ NeedSkipActiveUserKey(p)

Next ==
    \/ \E p \in Proc : Begin(p) \/ Step(p)
    \/ StopUser \/ Crash

Spec == Init /\ [][Next]_vars

-----------------------------------------------------------------------------
(* Every variable is in its range, and a thread that has returned holds no *)
(* lock.                                                                   *)
TypeOK ==
    /\ idm \subseteq Cred
    /\ keys \subseteq Cred \cup {Empty} /\ latest \in keys /\ open \in BOOLEAN
    /\ record \in Cred \cup {None} /\ fault \in BOOLEAN
    /\ lock \in Proc \cup {None} /\ (lock # None => pc[lock] # Idle)
    /\ pc \in [Proc -> [call : Calls \cup {"none"}, at : Places, cred : Cred \cup {None}, old : Cred \cup {None}]]
    /\ \E w \in Worlds : world \in [ops : {w.ops}, faults : {w.faults}, crashes : 0 .. w.crashes]

(* The files of a user are never lost: some version of the key opens with  *)
(* the empty secret or with the secret of a PIN the user still has.        *)
(* DelCred, which deletes the PIN first, is excepted, and so are updates   *)
(* and deletions of a PIN where the storage manager may change nothing and *)
(* count as having done so.                                                *)
DataReachable ==
    /\ "delCred" \notin world.ops
    /\ "null" \in world.faults => {"update", "delUser"} \cap world.ops = {}
    => Empty \in keys \/ idm \cap keys # {}

(* Between the calls the storage manager and the user IDM agree: without   *)
(* failures the key opens with the PIN alone, or with the empty secret     *)
(* alone when there is no PIN.                                             *)
KeysAgreeWhenIdle ==
    world.faults \subseteq {"info"} /\ (\A p \in Proc : pc[p] = Idle)
        => keys = IF idm = {} THEN {Empty} ELSE idm

(* The one place where a call waits: the lock_guard of ActivateUserKey.    *)
(* Every other step of a call that has begun can be taken at once, whether *)
(* it succeeds or fails; HandleFileKeyException only tries the lock.       *)
Waits(p) == pc[p].at = "auActivate" /\ ~open /\ lock # None

(* Nobody waits for a thread that waits or has gone: while calls are under *)
(* way one of them can go on.  No handler has a loop, so that every call   *)
(* returns unless the service dies.                                        *)
CallsGoOn == (\E p \in Proc : pc[p] # Idle) => \E p \in Proc : pc[p] # Idle /\ ~Waits(p)
=============================================================================
