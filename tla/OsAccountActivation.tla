------------------------- MODULE OsAccountActivation -------------------------
(***************************************************************************)
(* Activating, switching, deactivating, locking and unlocking OS accounts: *)
(* the state IInnerOsAccountManager keeps in memory about running accounts *)
(* (active list, foreground map, verified and logged-in accounts), guarded *)
(* by the operating marks and by one update lock for each account.         *)
(*                                                                         *)
(* A thread has two program counters.  apc runs ActivateOsAccount,         *)
(* LockOsAccount or the callback of an authentication; dpc runs            *)
(* DeactivateOsAccount, on its own or called by an activation for the      *)
(* account that leaves the foreground.  The calls to the ability manager,  *)
(* the storage manager and the lock plugin are steps between which other   *)
(* threads run.                                                            *)
(*                                                                         *)
(* The accounts exist during the whole run (creation and removal are in    *)
(* module OsAccountLifecycle), a fault "read" stands for any reason to     *)
(* refuse one.  Events that are only published are left out.  The builds   *)
(* modelled are those that cannot stop the main account and do not         *)
(* remember the last account that logged in (the defaults).                *)
(***************************************************************************)
EXTENDS Integers, Sequences, FiniteSets

CONSTANTS
    Proc,           \* threads of the service
    Account,        \* the OS accounts
    Main,           \* the account START_USER_ID
    Credentialed,   \* accounts with a PIN: unlocked by authentication only
    Private,        \* accounts of type PRIVATE
    Display,        \* all displays
    Default,        \* DEFAULT_DISPLAY_ID
    MaxLoggedIn,    \* config_.maxLoggedInOsAccountNum
    MaxListed,      \* bound on the active list, which may hold duplicates
    Builds,         \* the builds, and what is asked of them
    None            \* no thread, account or display

ASSUME ActivationConstants ==
    /\ Main \in Account
    /\ Credentialed \subseteq Account
    /\ Private \subseteq Account
    /\ Default \in Display
    /\ MaxLoggedIn \in Nat \ {0}
    /\ MaxListed \in Nat
    /\ \A b \in Builds :
          /\ b.multiple \in BOOLEAN
          /\ b.switches \in [Proc -> SUBSET Display]
          /\ b.ops \in [Proc -> SUBSET {"deactivate", "lock", "auth"}]
          /\ b.faults \subseteq {"read", "storage", "ams", "stop", "update", "plugin",
                            "unlock"}
    /\ None \notin Proc \cup Account \cup Display

\* A build: whether several accounts may be active
\* (ENABLE_MULTIPLE_ACTIVE_ACCOUNTS); which displays every thread is asked to
\* switch (other than the default one: multi-foreground build), what else it
\* is asked to do, and which steps may report an error.
VARIABLES
    build,
    activeAccountId,      \* the active list, newest first
    foregroundAccountMap, \* the account on each display
    verifiedAccounts,
    loggedInAccounts,
    deactivatingAccounts,
    lockingAccounts,
    el2,                  \* storage manager: accounts with decrypted files
    operating,            \* operatingId_
    updateLocks,          \* owner of the update lock of each account
    apc, aid, adisp, old, startStorage, isUpdateVerifiedStatus,
    dpc, did, dfg, isStopStorage, again

shown == <<activeAccountId, foregroundAccountMap>>
auth == <<verifiedAccounts, loggedInAccounts, el2>>
busy == <<deactivatingAccounts, lockingAccounts>>
act == <<aid, adisp, old, startStorage, isUpdateVerifiedStatus>>
deact == <<did, dfg, isStopStorage, again>>
vars == <<shown, auth, busy, operating, updateLocks, apc, act, dpc, deact, build>>

MultiForeground == \E p \in Proc : build.switches[p] \ {Default} # {}

Init ==
    /\ build \in Builds
    /\ activeAccountId = <<>>
    /\ foregroundAccountMap = [d \in Display |-> None]
    /\ verifiedAccounts = {} /\ loggedInAccounts = {} /\ el2 = {}
    /\ deactivatingAccounts = {} /\ lockingAccounts = {}
    /\ operating = {}
    /\ updateLocks = [i \in Account |-> None]
    /\ apc = [p \in Proc |-> "idle"]
    /\ aid = [p \in Proc |-> Main]
    /\ adisp = [p \in Proc |-> Default]
    /\ old = [p \in Proc |-> None]
    /\ startStorage = [p \in Proc |-> TRUE]
    /\ isUpdateVerifiedStatus = [p \in Proc |-> FALSE]
    /\ dpc = [p \in Proc |-> "idle"]
    /\ did = [p \in Proc |-> Main]
    /\ dfg = [p \in Proc |-> None]
    /\ isStopStorage = [p \in Proc |-> TRUE]
    /\ again = [p \in Proc |-> FALSE]

-----------------------------------------------------------------------------
Active == {activeAccountId[k] : k \in 1 .. Len(activeAccountId)}

\* The list without account i: place n is for the n-th of the others.
Without(list, i) ==
    LET others == {k \in 1 .. Len(list) : list[k] # i}
    IN  [n \in 1 .. Cardinality(others) |->
            list[CHOOSE k \in others : Cardinality({m \in others : m <= k}) = n]]

\* Mutant of EraseIdFromActiveList: only the first occurrence goes.
EraseIdFromActiveListFirst(i) ==
    LET k == CHOOSE n \in 1 .. Len(activeAccountId) : activeAccountId[n] = i
    IN  activeAccountId' =
          IF i \in Active
          THEN SubSeq(activeAccountId, 1, k - 1)
               \o SubSeq(activeAccountId, k + 1, Len(activeAccountId))
          ELSE activeAccountId

EraseIdFromActiveList(i) == activeAccountId' = Without(activeAccountId, i)

\* The callback of StartUser.  The default display moves the account to the
\* front (and forgets the others when only one may be active); the other
\* displays append it, whether it is in the list or not.
PushIdIntoActiveList(i, d) ==
    activeAccountId' =
        IF d # Default THEN Append(activeAccountId, i)
        ELSE IF build.multiple THEN <<i>> \o Without(activeAccountId, i)
        ELSE <<i>>

IsLoggedInAccountsOversize == Cardinality(loggedInAccounts) >= MaxLoggedIn

GoA(p, a) == apc' = [apc EXCEPT ![p] = a]
GoD(p, d) == dpc' = [dpc EXCEPT ![p] = d]

Idle(p) == apc[p] = "idle" /\ dpc[p] = "idle"

Acquire(p, i) == /\ updateLocks[i] = None
                 /\ updateLocks' = [updateLocks EXCEPT ![i] = p]
Release(i) == updateLocks' = [updateLocks EXCEPT ![i] = None]

-----------------------------------------------------------------------------
(***************************************************************************)
(* ActivateOsAccount.                                                      *)
(***************************************************************************)

\* CheckAndAddLocalIdOperating, then the wait for the account's update lock.
ActivateOsAccount(p, i, d) ==
    /\ Idle(p)
    /\ d \in build.switches[p]
    /\ d = Default \/ Len(activeAccountId) < MaxListed
    /\ i \notin operating
    /\ operating' = operating \cup {i}
    /\ aid' = [aid EXCEPT ![p] = i]
    /\ adisp' = [adisp EXCEPT ![p] = d]
    /\ startStorage' = [startStorage EXCEPT ![p] = TRUE]
    /\ GoA(p, "lock")
    /\ UNCHANGED <<shown, auth, busy, updateLocks, old, isUpdateVerifiedStatus,
                   dpc, deact>>

ActivateLock(p) ==
    /\ apc[p] = "lock"
    /\ Acquire(p, aid[p])
    /\ GoA(p, "prepare")
    /\ UNCHANGED <<shown, auth, busy, operating, act, dpc, deact>>

\* ValidateDisplayForActivation: in the foreground of no other display.
NotOnOtherDisplay(i, d) ==
    \A e \in Display \ {d} : foregroundAccountMap[e] # i

\* Mutant of PrepareActivateOsAccount: the other displays are not looked at.
PrepareActivateOsAccountAnyDisplay(p) ==
    /\ apc[p] = "prepare"
    /\ LET i == aid[p]
           d == adisp[p]
           ok == /\ ~(foregroundAccountMap[d] = i /\ i \in verifiedAccounts)
                 /\ i \in Active \/ ~IsLoggedInAccountsOversize
       IN  \/ ok /\ GoA(p, "storage")
           \/ (~ok \/ "read" \in build.faults) /\ GoA(p, "end")
    /\ UNCHANGED <<shown, auth, busy, operating, updateLocks, act, dpc, deact>>

\* PrepareActivateOsAccount: nothing to do for the verified account on the
\* display; no account may be on two displays; an inactive account needs
\* room among the logged-in ones.
PrepareActivateOsAccount(p) ==
    /\ apc[p] = "prepare"
    /\ LET i == aid[p]
           d == adisp[p]
           ok == /\ ~(foregroundAccountMap[d] = i /\ i \in verifiedAccounts)
                 /\ NotOnOtherDisplay(i, d)
                 /\ i \in Active \/ ~IsLoggedInAccountsOversize
       IN  \/ ok /\ GoA(p, "storage")
           \/ (~ok \/ "read" \in build.faults) /\ GoA(p, "end")
    /\ UNCHANGED <<shown, auth, busy, operating, updateLocks, act, dpc, deact>>

\* SendMsgForAccountActivate notes the account on the display and starts the
\* storage.  The storage of an account without PIN (or of one that is still
\* decrypted) is unlocked at once; the account is verified then and, without
\* a PIN, logged in.  Other accounts go on locked.
SendToStorageAccountStart(p) ==
    /\ apc[p] = "storage"
    /\ old' = [old EXCEPT ![p] = foregroundAccountMap[adisp[p]]]
    /\ LET i == aid[p]
       IN  \/ /\ startStorage[p]
              /\ i \notin Credentialed \/ i \in el2
              /\ verifiedAccounts' = verifiedAccounts \cup {i}
              /\ loggedInAccounts' = IF i \in verifiedAccounts \cup Credentialed
                                     THEN loggedInAccounts
                                     ELSE loggedInAccounts \cup {i}
              /\ el2' = el2 \cup {i}
              /\ GoA(p, "ams")
           \/ /\ i \in Credentialed \/ ~startStorage[p]
              /\ GoA(p, "ams")
              /\ UNCHANGED auth
           \/ /\ startStorage[p]
              /\ "storage" \in build.faults
              /\ GoA(p, "end")
              /\ UNCHANGED auth
    /\ UNCHANGED <<shown, busy, operating, updateLocks, aid, adisp,
                   startStorage, isUpdateVerifiedStatus, dpc, deact>>

\* SendToAMSAndSamgrAccountStart: the ability manager calls back.  The
\* account enters the active list ...
SendToAMSAccountStart(p) ==
    /\ apc[p] = "ams"
    /\ \/ PushIdIntoActiveList(aid[p], adisp[p]) /\ GoA(p, "foreground")
       \/ "ams" \in build.faults /\ GoA(p, "end") /\ UNCHANGED activeAccountId
    /\ UNCHANGED <<foregroundAccountMap, auth, busy, operating, updateLocks,
                   act, dpc, deact>>

\* ... and then the foreground map.
ForegroundInsert(p) ==
    /\ apc[p] = "foreground"
    /\ foregroundAccountMap' = [foregroundAccountMap EXCEPT ![adisp[p]] = aid[p]]
    /\ GoA(p, IF old[p] \in {None, aid[p]} THEN "end" ELSE "background")
    /\ UNCHANGED <<activeAccountId, auth, busy, operating, updateLocks, act,
                   dpc, deact>>

\* UpdateAccountToBackground reads the old account under its update lock,
\* still holding the lock of the new one.
UpdateAccountToBackground(p) ==
    /\ apc[p] = "background"
    /\ updateLocks[old[p]] = None
    /\ \/ GoA(p, "leave")
       \/ "read" \in build.faults /\ GoA(p, "end")
    /\ UNCHANGED <<shown, auth, busy, operating, updateLocks, act, dpc, deact>>

\* Then it looks whether the account ever logged in; where one account is
\* active at a time it takes the account's state away without mark or lock.
LeaveForeground(p) ==
    /\ apc[p] = "leave"
    /\ IF build.multiple
       THEN /\ GoA(p, IF old[p] \in {Main} \cup Private \cup loggedInAccounts
                      THEN "end" ELSE "deactivateOld")
            /\ UNCHANGED <<dpc, deact>>
       ELSE /\ did' = [did EXCEPT ![p] = old[p]]
            /\ dfg' = [dfg EXCEPT ![p] = None]
            /\ GoD(p, "logOut")
            /\ GoA(p, "wait")
            /\ UNCHANGED <<isStopStorage, again>>
    /\ UNCHANGED <<shown, auth, busy, operating, updateLocks, act>>

\* Mutant of DeactivateOldAccount: the mark is not looked at.
DeactivateOldAccountUnmarked(p) ==
    /\ apc[p] = "deactivateOld"
    /\ operating' = operating \cup {old[p]}
    /\ did' = [did EXCEPT ![p] = old[p]]
    /\ isStopStorage' = [isStopStorage EXCEPT ![p] = FALSE]
    /\ GoD(p, "lock")
    /\ GoA(p, "wait")
    /\ UNCHANGED <<shown, auth, busy, updateLocks, act, dfg, again>>

\* Half a second later DeactivateOsAccount is called, storage excepted.
DeactivateOldAccount(p) ==
    /\ apc[p] = "deactivateOld"
    /\ IF old[p] \in operating
       THEN GoA(p, "end") /\ UNCHANGED <<operating, dpc, deact>>
       ELSE /\ operating' = operating \cup {old[p]}
            /\ did' = [did EXCEPT ![p] = old[p]]
            /\ isStopStorage' = [isStopStorage EXCEPT ![p] = FALSE]
            /\ GoD(p, "lock")
            /\ GoA(p, "wait")
            /\ UNCHANGED <<dfg, again>>
    /\ UNCHANGED <<shown, auth, busy, updateLocks, act>>

LeaveForegroundDone(p) ==
    /\ apc[p] = "wait"
    /\ dpc[p] = "idle"
    /\ GoA(p, "end")
    /\ UNCHANGED <<shown, auth, busy, operating, updateLocks, act, dpc, deact>>

\* RemoveLocalIdToOperating and the release of the update lock.
ActivateReturn(p) ==
    /\ apc[p] = "end"
    /\ operating' = operating \ {aid[p]}
    /\ Release(aid[p])
    /\ aid' = [aid EXCEPT ![p] = Main]
    /\ adisp' = [adisp EXCEPT ![p] = Default]
    /\ old' = [old EXCEPT ![p] = None]
    /\ startStorage' = [startStorage EXCEPT ![p] = TRUE]
    /\ GoA(p, "idle")
    /\ UNCHANGED <<shown, auth, busy, isUpdateVerifiedStatus, dpc, deact>>

-----------------------------------------------------------------------------
(***************************************************************************)
(* DeactivateOsAccount of the service: the manager's DeactivateOsAccount,  *)
(* and then, if the account was the current one, the main account takes    *)
(* its place (single-foreground builds).                                   *)
(***************************************************************************)

\* GetCurrentLocalId, read before the deactivation.
CurrentId == IF activeAccountId = <<>> THEN Main ELSE Head(activeAccountId)

DeactivateOsAccount(p, i) ==
    /\ Idle(p)
    /\ "deactivate" \in build.ops[p]
    /\ i # Main
    /\ again' = [again EXCEPT ![p] = (CurrentId = i)]
    /\ IF i \in operating
       THEN GoD(p, "again") /\ UNCHANGED <<operating, did, isStopStorage>>
       ELSE /\ operating' = operating \cup {i}
            /\ did' = [did EXCEPT ![p] = i]
            /\ isStopStorage' = [isStopStorage EXCEPT ![p] = TRUE]
            /\ GoD(p, "lock")
    /\ UNCHANGED <<shown, auth, busy, updateLocks, apc, act, dfg>>

DeactivateLock(p) ==
    /\ dpc[p] = "lock"
    /\ Acquire(p, did[p])
    /\ GoD(p, "read")
    /\ UNCHANGED <<shown, auth, busy, operating, apc, act, deact>>

\* GetRealOsAccountInfoById notes the display the account is on.
DeactivateRead(p) ==
    /\ dpc[p] = "read"
    /\ LET i == did[p]
       IN  \/ /\ i \in Active \cup verifiedAccounts
              /\ deactivatingAccounts' = deactivatingAccounts \cup {i}
              /\ dfg' = [dfg EXCEPT ![p] =
                    IF i \in Active /\ \E d \in Display : foregroundAccountMap[d] = i
                    THEN CHOOSE d \in Display : foregroundAccountMap[d] = i
                    ELSE None]
              /\ GoD(p, "clean")
           \/ /\ i \notin Active \cup verifiedAccounts \/ "read" \in build.faults
              /\ GoD(p, "out")
              /\ UNCHANGED <<deactivatingAccounts, dfg>>
    /\ UNCHANGED <<shown, auth, lockingAccounts, operating, updateLocks, apc,
                   act, did, isStopStorage, again>>

\* Mutant of CleanForegroundAccountMap: only the default display is cleaned.
CleanForegroundAccountMapDefault(p) ==
    foregroundAccountMap' =
        [d \in Display |-> IF d = Default /\ foregroundAccountMap[d] = did[p]
                           THEN None ELSE foregroundAccountMap[d]]

\* The account leaves the display it was seen on, if it is still there.
CleanForegroundAccountMap(p) ==
    foregroundAccountMap' =
        [d \in Display |-> IF d = dfg[p] /\ foregroundAccountMap[d] = did[p]
                           THEN None ELSE foregroundAccountMap[d]]

\* SendMsgForAccountDeactivate.
DeactivateClean(p) ==
    /\ dpc[p] = "clean"
    /\ CleanForegroundAccountMap(p)
    /\ GoD(p, "ams")
    /\ UNCHANGED <<activeAccountId, auth, busy, operating, updateLocks, apc,
                   act, deact>>

SendToAMSAccountDeactivate(p) ==
    /\ dpc[p] = "ams"
    /\ \/ GoD(p, IF isStopStorage[p] THEN "stop" ELSE "logOut")
       \/ "ams" \in build.faults /\ GoD(p, "out")
    /\ UNCHANGED <<shown, auth, busy, operating, updateLocks, apc, act, deact>>

\* A failing storage manager does not keep the account active.
SendToStorageAccountStop(p) ==
    /\ dpc[p] = "stop"
    /\ LET i == did[p]
       IN  \/ /\ el2' = el2 \ {i}
              /\ GoD(p, "logOut")
              /\ UNCHANGED <<loggedInAccounts, verifiedAccounts, activeAccountId>>
           \/ /\ "stop" \in build.faults
              /\ loggedInAccounts' = loggedInAccounts \ {i}
              /\ verifiedAccounts' = verifiedAccounts \ {i}
              /\ EraseIdFromActiveList(i)
              /\ GoD(p, "out")
              /\ UNCHANGED el2
    /\ UNCHANGED <<foregroundAccountMap, busy, operating, updateLocks, apc, act,
                   deact>>

\* DeactivateOsAccountByInfo: logged-in, verified, foreground, active.
DeactivateLogOut(p) ==
    /\ dpc[p] = "logOut"
    /\ loggedInAccounts' = loggedInAccounts \ {did[p]}
    /\ GoD(p, "unverify")
    /\ UNCHANGED <<shown, verifiedAccounts, el2, busy, operating, updateLocks,
                   apc, act, deact>>

DeactivateUnverify(p) ==
    /\ dpc[p] = "unverify"
    /\ verifiedAccounts' = verifiedAccounts \ {did[p]}
    /\ GoD(p, "unshow")
    /\ UNCHANGED <<shown, loggedInAccounts, el2, busy, operating, updateLocks,
                   apc, act, deact>>

DeactivateUnshow(p) ==
    /\ dpc[p] = "unshow"
    /\ CleanForegroundAccountMap(p)
    /\ GoD(p, "erase")
    /\ UNCHANGED <<activeAccountId, auth, busy, operating, updateLocks, apc,
                   act, deact>>

\* Then the record is written; only a call that holds the update lock heeds an
\* error.
DeactivateErase(p) ==
    /\ dpc[p] = "erase"
    /\ EraseIdFromActiveList(did[p])
    /\ IF updateLocks[did[p]] = p
       THEN \/ GoD(p, "done")
            \/ "update" \in build.faults /\ GoD(p, "out")
       ELSE GoD(p, "idle")
    /\ UNCHANGED <<foregroundAccountMap, auth, busy, operating, updateLocks,
                   apc, act, deact>>

\* Mutant of DeactivateReturn: only the return with ERR_OK cleans up.
DeactivateReturnOkOnly(p) ==
    /\ dpc[p] \in {"done", "out"}
    /\ deactivatingAccounts' = IF dpc[p] = "done"
                               THEN deactivatingAccounts \ {did[p]}
                               ELSE deactivatingAccounts
    /\ operating' = operating \ {did[p]}
    /\ Release(did[p])
    /\ did' = [did EXCEPT ![p] = Main]
    /\ dfg' = [dfg EXCEPT ![p] = None]
    /\ isStopStorage' = [isStopStorage EXCEPT ![p] = TRUE]
    /\ GoD(p, IF apc[p] = "wait" THEN "idle" ELSE "again")
    /\ UNCHANGED <<shown, auth, lockingAccounts, apc, act, again>>

\* Mutant of DeactivateReturn: the update lock is kept after an error.
DeactivateReturnKeepsLock(p) ==
    /\ dpc[p] \in {"done", "out"}
    /\ deactivatingAccounts' = deactivatingAccounts \ {did[p]}
    /\ operating' = operating \ {did[p]}
    /\ IF dpc[p] = "done" THEN Release(did[p]) ELSE UNCHANGED updateLocks
    /\ did' = [did EXCEPT ![p] = Main]
    /\ dfg' = [dfg EXCEPT ![p] = None]
    /\ isStopStorage' = [isStopStorage EXCEPT ![p] = TRUE]
    /\ GoD(p, IF apc[p] = "wait" THEN "idle" ELSE "again")
    /\ UNCHANGED <<shown, auth, lockingAccounts, apc, act, again>>

\* deactivatingAccounts_.Erase, RemoveLocalIdToOperating, unlock.  "done" is
\* the return with ERR_OK, "out" every other one.
DeactivateReturn(p) ==
    /\ dpc[p] \in {"done", "out"}
    /\ deactivatingAccounts' = deactivatingAccounts \ {did[p]}
    /\ operating' = operating \ {did[p]}
    /\ Release(did[p])
    /\ did' = [did EXCEPT ![p] = Main]
    /\ dfg' = [dfg EXCEPT ![p] = None]
    /\ isStopStorage' = [isStopStorage EXCEPT ![p] = TRUE]
    /\ GoD(p, IF apc[p] = "wait" THEN "idle" ELSE "again")
    /\ UNCHANGED <<shown, auth, lockingAccounts, apc, act, again>>

\* The service activates the main account; the storage is left alone.
ActivateMainAgain(p) ==
    /\ dpc[p] = "again"
    /\ GoD(p, "idle")
    /\ again' = [again EXCEPT ![p] = FALSE]
    /\ IF again[p] /\ ~MultiForeground /\ Main \notin operating
       THEN /\ operating' = operating \cup {Main}
            /\ aid' = [aid EXCEPT ![p] = Main]
            /\ adisp' = [adisp EXCEPT ![p] = Default]
            /\ startStorage' = [startStorage EXCEPT ![p] = FALSE]
            /\ GoA(p, "lock")
       ELSE UNCHANGED <<operating, apc, aid, adisp, startStorage>>
    /\ UNCHANGED <<shown, auth, busy, updateLocks, old, isUpdateVerifiedStatus,
                   did, dfg, isStopStorage>>

-----------------------------------------------------------------------------
(***************************************************************************)
(* LockOsAccount: the mark, but no update lock.                            *)
(***************************************************************************)

LockOsAccount(p, i) ==
    /\ Idle(p)
    /\ "lock" \in build.ops[p]
    /\ i \notin operating
    /\ i \in verifiedAccounts
    /\ operating' = operating \cup {i}
    /\ lockingAccounts' = lockingAccounts \cup {i}
    /\ aid' = [aid EXCEPT ![p] = i]
    /\ GoA(p, "plugin")
    /\ UNCHANGED <<shown, auth, deactivatingAccounts, updateLocks, adisp, old,
                   startStorage, isUpdateVerifiedStatus, dpc, deact>>

\* The plugin encrypts the account's storage, or refuses.
LockPlugin(p) ==
    /\ apc[p] = "plugin"
    /\ \/ el2' = el2 \ {aid[p]} /\ GoA(p, "locked") /\ UNCHANGED operating
       \/ /\ "plugin" \in build.faults
          /\ operating' = operating \ {aid[p]}
          /\ GoA(p, "idle")
          /\ UNCHANGED el2
    /\ lockingAccounts' = IF apc'[p] = "idle" THEN lockingAccounts \ {aid[p]}
                                              ELSE lockingAccounts
    /\ UNCHANGED <<shown, verifiedAccounts, loggedInAccounts,
                   deactivatingAccounts, updateLocks, act, dpc, deact>>

\* Mutant of LockReturn: the account stays verified.
LockReturnVerified(p) ==
    /\ apc[p] = "locked"
    /\ lockingAccounts' = lockingAccounts \ {aid[p]}
    /\ operating' = operating \ {aid[p]}
    /\ GoA(p, "idle")
    /\ UNCHANGED <<shown, auth, deactivatingAccounts, updateLocks, act, dpc,
                   deact>>

\* LockOsAccount ends: no longer locking, no longer verified.
LockReturn(p) ==
    /\ apc[p] = "locked"
    /\ lockingAccounts' = lockingAccounts \ {aid[p]}
    /\ verifiedAccounts' = verifiedAccounts \ {aid[p]}
    /\ operating' = operating \ {aid[p]}
    /\ GoA(p, "idle")
    /\ UNCHANGED <<shown, loggedInAccounts, el2, deactivatingAccounts,
                   updateLocks, act, dpc, deact>>

-----------------------------------------------------------------------------
(***************************************************************************)
(* AuthCallback::OnResult: a PIN has been accepted.                        *)
(***************************************************************************)

\* IsOsAccountDeactivatingOrLocking; the rest is not done for such accounts.
AuthOnResult(p, i) ==
    /\ Idle(p)
    /\ "auth" \in build.ops[p]
    /\ i \in Credentialed
    /\ i \notin deactivatingAccounts \cup lockingAccounts
    /\ aid' = [aid EXCEPT ![p] = i]
    /\ GoA(p, "unlock")
    /\ UNCHANGED <<shown, auth, busy, operating, updateLocks, adisp, old,
                   startStorage, isUpdateVerifiedStatus, dpc, deact>>

\* UnlockUserStorage: a verified account that is still decrypted needs
\* nothing, any other is decrypted and shall become verified.
UnlockUserStorage(p) ==
    /\ apc[p] = "unlock"
    /\ \/ /\ el2' = el2 \cup {aid[p]}
          /\ isUpdateVerifiedStatus' = [isUpdateVerifiedStatus EXCEPT ![p] =
                                           aid[p] \notin verifiedAccounts \cap el2]
          /\ GoA(p, "verify")
       \/ /\ "unlock" \in build.faults
          /\ GoA(p, "idle")
          /\ UNCHANGED <<el2, isUpdateVerifiedStatus>>
    /\ UNCHANGED <<shown, verifiedAccounts, loggedInAccounts, busy, operating,
                   updateLocks, aid, adisp, old, startStorage, dpc, deact>>

\* SetOsAccountIsVerified, under the update lock, if the storage was opened.
SetOsAccountIsVerified(p) ==
    /\ apc[p] = "verify"
    /\ isUpdateVerifiedStatus[p] => updateLocks[aid[p]] = None
    /\ verifiedAccounts' = IF isUpdateVerifiedStatus[p]
                           THEN verifiedAccounts \cup {aid[p]}
                           ELSE verifiedAccounts
    /\ isUpdateVerifiedStatus' = [isUpdateVerifiedStatus EXCEPT ![p] = FALSE]
    /\ GoA(p, "login")
    /\ UNCHANGED <<shown, loggedInAccounts, el2, busy, operating, updateLocks,
                   aid, adisp, old, startStorage, dpc, deact>>

\* SetOsAccountIsLoggedIn, under the update lock.
SetOsAccountIsLoggedIn(p) ==
    /\ apc[p] = "login"
    /\ updateLocks[aid[p]] = None
    /\ loggedInAccounts' = loggedInAccounts \cup {aid[p]}
    /\ aid' = [aid EXCEPT ![p] = Main]
    /\ GoA(p, "idle")
    /\ UNCHANGED <<shown, verifiedAccounts, el2, busy, operating, updateLocks,
                   adisp, old, startStorage, isUpdateVerifiedStatus, dpc, deact>>

-----------------------------------------------------------------------------
ActivateStep(p) ==
    \/ ActivateLock(p) \/ PrepareActivateOsAccount(p)
    \/ SendToStorageAccountStart(p) \/ SendToAMSAccountStart(p)
    \/ ForegroundInsert(p) \/ UpdateAccountToBackground(p)
    \/ LeaveForeground(p) \/ DeactivateOldAccount(p)
    \/ LeaveForegroundDone(p) \/ ActivateReturn(p)

DeactivateStep(p) ==
    \/ DeactivateLock(p) \/ DeactivateRead(p) \/ DeactivateClean(p)
    \/ SendToAMSAccountDeactivate(p) \/ SendToStorageAccountStop(p)
    \/ DeactivateLogOut(p) \/ DeactivateUnverify(p) \/ DeactivateUnshow(p)
    \/ DeactivateErase(p) \/ DeactivateReturn(p) \/ ActivateMainAgain(p)

OtherStep(p) ==
    \/ LockPlugin(p) \/ LockReturn(p)
    \/ UnlockUserStorage(p) \/ SetOsAccountIsVerified(p)
    \/ SetOsAccountIsLoggedIn(p)

Step(p) ==
    /\ UNCHANGED build
    /\ ActivateStep(p) \/ DeactivateStep(p) \/ OtherStep(p)

Call(p) ==
    /\ UNCHANGED build
    /\ \E i \in Account :
          \/ \E d \in Display : ActivateOsAccount(p, i, d)
          \/ DeactivateOsAccount(p, i) \/ LockOsAccount(p, i)
          \/ AuthOnResult(p, i)

Next == \E p \in Proc : Call(p) \/ Step(p)

Spec == Init /\ [][Next]_vars

\* A thread inside a handler keeps running and gets a std::mutex that is
\* released again and again; the ability manager and the storage manager
\* answer every call.
FairSpec == Spec /\ \A p \in Proc : SF_vars(Step(p))

-----------------------------------------------------------------------------
\* The account on a display is an active one, in builds with several active
\* accounts at every moment of a switch or a deactivation: the callback of
\* StartUser fills the active list first, a deactivation empties the foreground
\* map first.  In builds with one active account a switch replaces the list
\* before the map: there it is true again once the calls are over.
ForegroundIsActive ==
    build.multiple \/ (\A p \in Proc : Idle(p)) =>
        \A d \in Display : foregroundAccountMap[d] \in Active \cup {None}

\* No account is shown on two displays, though the check of
\* PrepareActivateOsAccount and the entry in the map are far apart.
OneDisplay ==
    \A d, e \in Display : foregroundAccountMap[d] = foregroundAccountMap[e]
                              => d = e \/ foregroundAccountMap[d] = None

\* When DeactivateOsAccount reports success, the account is gone from the
\* active list, however often it was entered, from the displays and from the
\* verified and logged-in accounts, whoever unlocked it meanwhile.
DeactivatedIsGone ==
    \A p \in Proc : dpc[p] = "done" =>
        /\ did[p] \notin Active \cup verifiedAccounts \cup loggedInAccounts
        /\ \A d \in Display : foregroundAccountMap[d] # did[p]

\* Accounts a thread activates, locks or deactivates.
Handles(p) ==
    {i \in Account :
        \/ i = aid[p] /\ apc[p] \notin {"idle", "unlock", "verify", "login"}
        \/ i = did[p] /\ dpc[p] \notin {"idle", "again"}}

\* No account is activated, deactivated or locked by two threads at a time,
\* the account that leaves the foreground included (builds with several
\* active accounts).
OneOperation ==
    build.multiple =>
        \A p, q \in Proc : p # q => Handles(p) \cap Handles(q) = {}

\* Thread p waits for an update lock that thread q holds.
WaitsFor(p, q) ==
    \/ apc[p] = "lock" /\ updateLocks[aid[p]] = q
    \/ apc[p] = "background" /\ updateLocks[old[p]] = q
    \/ dpc[p] = "lock" /\ updateLocks[did[p]] = q

\* "Standard lock order to avoid deadlock": no two threads wait for each
\* other's update lock.
NoLockCycle ==
    \A p, q \in Proc : ~(WaitsFor(p, q) /\ WaitsFor(q, p))

\* Nothing stays marked, locked, deactivating or locking after the calls.
NothingLeftWhenIdle ==
    (\A p \in Proc : Idle(p)) =>
        /\ operating = {} /\ deactivatingAccounts = {} /\ lockingAccounts = {}
        /\ \A i \in Account : updateLocks[i] = None

\* A verified account has its files decrypted, once the calls are over
\* (builds with several active accounts, whose threads are not asked to
\* authenticate: the callback of an authentication beside a lock or a
\* deactivation breaks it).
VerifiedIsDecrypted ==
    build.multiple /\ (\A p \in Proc : Idle(p)) => verifiedAccounts \subseteq el2

\* Every call returns.
CallsReturn == \A p \in Proc : ~Idle(p) ~> Idle(p)

=============================================================================
