------------------------------ MODULE SubProfile ------------------------------
(***************************************************************************)
(* The sub-profiles of one OS account (OsAccountSubProfileManager) and the *)
(* distributed accounts that log in to them (OhosAccountManager), in the   *)
(* build with ENABLE_MULTIPLE_OS_ACCOUNT_SUBSPACE.                         *)
(*                                                                         *)
(* A sub-profile is a directory with a file (files), and an entry of       *)
(* subprofile_info.json (ctx).  Creation, removal and every save of a file *)
(* hold subProfileOpMutex_ (op); logins and the removal of a package hold  *)
(* mgrMutex_ (mgr) from the load of a file to its save, and take op for    *)
(* the save alone; switching holds neither.  A step ends where another     *)
(* thread can see or change something, or where a crash leaves something   *)
(* else behind.  Files are written by transactions, hence at once.         *)
(*                                                                         *)
(* Sub-profile ids are offsets to the base id of the account: 0 is the     *)
(* headless sub-profile, which has no directory, cannot be switched to and *)
(* is always listed.  isCreateCompleted is TRUE in every file written, and *)
(* an empty directory is not told apart from none.  The checks of the      *)
(* caller, the events that are published and the avatar are left out.      *)
(*                                                                         *)
(* Faults: "ctx" a context that is not written, "read" one that cannot be  *)
(* read (and is then taken for missing), "parse" one that is no JSON,      *)
(* "scan" files that cannot be loaded while the valid sub-profiles are     *)
(* looked for, "save" and "delete" a file and a directory, "iam" the       *)
(* credentials, "bms" the bundle manager, and "fg" the foreground          *)
(* sub-profile, which is not persisted.                                    *)
(***************************************************************************)
EXTENDS Integers, FiniteSets

CONSTANTS
    Thread,
    Account,    \* distributed accounts
    App,        \* applications that log in, a calling uid each
    MaxId,      \* OS_ACCOUNT_SUB_PROFILE_ID_MAX
    MaxCount,   \* MAX_OS_ACCOUNT_SUB_PROFILE_COUNT
    Faults,     \* which steps may fail
    MaxCrashes, \* bound on the crashes of the service
    Operations, \* which calls are made
    None        \* no file, no context, no holder, no account, no application

Id == 1..MaxId
Index == 1..MaxCount

ASSUME SubProfileConstants ==
    /\ MaxId \in Nat /\ MaxCount \in 1..MaxId /\ MaxCrashes \in Nat
    /\ Faults \subseteq {"ctx", "read", "parse", "scan", "save", "delete", "iam",
                    "bms", "fg"}
    /\ None \notin Thread \cup Account \cup App

State == {"UNBOUND", "LOGIN", "NOTLOGIN", "TOKEN_EXPIRED", "LOGOFF"}

\* OsAccountSubspaceInfo.
Info == [rem : BOOLEAN, st : State, acct : Account \cup {None},
         app : App \cup {None}]

\* SubProfileContext; index 0 and the headless sub-profile are left out.
Context == [next : 1..MaxId + 1, list : SUBSET Id,
            nextIndex : 1..MaxCount + 1, index : [Index -> 0..MaxId]]

VARIABLES
    ctx,       \* subprofile_info.json
    files,     \* account.json of every sub-profile
    fg,        \* foreground sub-profile in the file of the OS account
    rt,        \* foregroundSubProfileRuntimeMap_
    switching, \* switchingAccounts_ has the account
    op,        \* holder of subProfileOpMutex_
    mgr,       \* holder of mgrMutex_
    call,      \* the call of every thread
    cleanup,   \* does the start of the service still have to clean up?
    crashes

vars == <<ctx, files, fg, rt, switching, op, mgr, call, cleanup, crashes>>

Idle == [pc |-> "idle", s |-> 0, acct |-> None, app |-> None, ev |-> "none",
         from |-> -1, info |-> None, todo |-> {}, ids |-> {}]

Blank == [rem |-> FALSE, st |-> "UNBOUND", acct |-> None, app |-> None]

\* SubProfileContext::CreateWithHeadlessDefault.
Headless == [next |-> 1, list |-> {}, nextIndex |-> 1,
             index |-> [i \in Index |-> 0]]

\* An account created by this build has sub-profile 1 in the foreground, an
\* account that was there before has none.
Init ==
    /\ \/ /\ ctx = [next |-> 2, list |-> {1}, nextIndex |-> 2,
                    index |-> [i \in Index |-> IF i = 1 THEN 1 ELSE 0]]
          /\ files = [s \in Id |-> IF s = 1 THEN Blank ELSE None]
          /\ fg = 1
       \/ /\ ctx = None
          /\ files = [s \in Id |-> None]
          /\ fg = -1
    /\ rt = None /\ switching = FALSE
    /\ op = None /\ mgr = None
    /\ call = [t \in Thread |-> Idle]
    /\ cleanup = FALSE /\ crashes = 0

-----------------------------------------------------------------------------
Valid(s) == s \in Id /\ files[s] # None /\ ~files[s].rem

PendingRemoval == {s \in Id : files[s] # None /\ files[s].rem}

At(t, pc) == call[t].pc = pc
Goto(t, pc) == call' = [call EXCEPT ![t].pc = pc]
Return(t) == call' = [call EXCEPT ![t] = Idle]

\* What ReadSubProfileContext may give: when the file cannot be read, the error
\* of a file that is not there.  A file that is no JSON has an error of its own,
\* with which a creation ends (CreateRetry, and CreateBegin, which then does
\* nothing) and the others do as if there were no file.
ReadSubProfileContext ==
    (IF "read" \in Faults THEN {None} ELSE {}) \cup {ctx}

WriteSubProfileContext(c) ==
    \/ ctx' = c
    \/ "ctx" \in Faults /\ UNCHANGED ctx

Full(c) == Cardinality(c.list) >= MaxCount

\* The first of lo..hi from start on, cyclically, that is not used.
FirstFree(start, lo, hi, used) ==
    LET free == (lo..hi) \ used
        from == IF start \in lo..hi THEN start ELSE lo
        up == {x \in free : x >= from}
        Least(S) == CHOOSE x \in S : \A y \in S : x <= y
    IN  IF up # {} THEN Least(up) ELSE Least(free)

AllocateOsAccountSubProfileId(c) == FirstFree(c.next, 1, MaxId, c.list)

AllocateSubProfileIndex(c) ==
    FirstFree(c.nextIndex, 1, MaxCount, {i \in Index : c.index[i] # 0})

Allocated(c) ==
    LET s == AllocateOsAccountSubProfileId(c)
        i == AllocateSubProfileIndex(c)
    IN  [next |-> s + 1, list |-> c.list \cup {s},
         nextIndex |-> i + 1, index |-> [c.index EXCEPT ![i] = s]]

WithoutKeepIndex(c, S) == [c EXCEPT !.list = @ \ S]

\* The context c without the sub-profiles S.
Without(c, S) ==
    [c EXCEPT !.list = @ \ S,
              !.index = [i \in Index |-> IF @[i] \in S THEN 0 ELSE @[i]]]

\* The result r of a read, or the default when the file is missing.
OrHeadless(r) == IF r = None THEN Headless ELSE r

-----------------------------------------------------------------------------
\* CreateSubProfile.  The allocation with the context c that was read: the new
\* id is persisted before its directory exists.
Allocate(t, c) ==
    LET s == AllocateOsAccountSubProfileId(c) IN
    \/ /\ ctx' = Allocated(c)
       /\ call' = [call EXCEPT ![t] = [Idle EXCEPT !.pc = "create", !.s = s, !.info = c]]
       /\ op' = t
    \/ /\ "ctx" \in Faults
       /\ Return(t) /\ op' = None
       /\ UNCHANGED ctx

CreateBegin(t) ==
    /\ "create" \in Operations
    /\ At(t, "idle") /\ op = None
    /\ \E r \in ReadSubProfileContext :
         LET c == OrHeadless(r) IN
         \/ ~Full(c) /\ Allocate(t, c)
         \/ /\ Full(c) /\ PendingRemoval # {}
            /\ call' = [call EXCEPT ![t] = [Idle EXCEPT !.pc = "reclaim",
                          !.todo = PendingRemoval, !.ids = PendingRemoval]]
            /\ op' = t
            /\ UNCHANGED ctx
    /\ UNCHANGED <<files, fg, rt, switching, mgr, cleanup, crashes>>

\* RemoveGarbageSubProfiles, one directory after the other; from counts the
\* removed ones (-1: none).
ReclaimDir(t) ==
    /\ At(t, "reclaim")
    /\ \E s \in call[t].todo :
         \/ /\ files' = [files EXCEPT ![s] = None]
            /\ call' = [call EXCEPT ![t].todo = @ \ {s}, ![t].from = 0]
         \/ /\ "delete" \in Faults
            /\ call' = [call EXCEPT ![t].todo = @ \ {s}]
            /\ UNCHANGED files
    /\ UNCHANGED <<ctx, fg, rt, switching, op, mgr, cleanup, crashes>>

\* PurgeGarbageIdsFromContext drops every garbage id, removed or not.
Purge(t) ==
    /\ At(t, "reclaim") /\ call[t].todo = {}
    /\ \/ /\ call[t].from = -1
          /\ Return(t) /\ op' = None
          /\ UNCHANGED ctx
       \/ /\ call[t].from # -1
          /\ \E r \in ReadSubProfileContext :
               IF r = None THEN UNCHANGED ctx
               ELSE WriteSubProfileContext(Without(r, call[t].ids))
          /\ Goto(t, "retry")
          /\ UNCHANGED op
    /\ UNCHANGED <<files, fg, rt, switching, mgr, cleanup, crashes>>

\* TryReclaimSubProfileSlots reads the context again.
CreateRetry(t) ==
    /\ At(t, "retry")
    /\ \E r \in ReadSubProfileContext :
         LET c == OrHeadless(r) IN
         \/ ~Full(c) /\ Allocate(t, c)
         \/ /\ Full(c) \/ "parse" \in Faults
            /\ Return(t) /\ op' = None
            /\ UNCHANGED ctx
    /\ UNCHANGED <<files, fg, rt, switching, mgr, cleanup, crashes>>

CreateSave(t) ==
    /\ At(t, "create")
    /\ \/ /\ files' = [files EXCEPT ![call[t].s] = Blank]
          /\ Return(t) /\ op' = None
       \/ /\ "save" \in Faults
          /\ Goto(t, "undo")
          /\ UNCHANGED <<files, op>>
    /\ UNCHANGED <<ctx, fg, rt, switching, mgr, cleanup, crashes>>

\* RollbackSubProfileCreation.
RollbackDir(t) ==
    /\ At(t, "undo")
    /\ \/ files' = [files EXCEPT ![call[t].s] = None]
       \/ "delete" \in Faults /\ UNCHANGED files
    /\ Goto(t, "undoctx")
    /\ UNCHANGED <<ctx, fg, rt, switching, op, mgr, cleanup, crashes>>

RollbackContext(t) ==
    /\ At(t, "undoctx")
    /\ WriteSubProfileContext(call[t].info)
    /\ Return(t) /\ op' = None
    /\ UNCHANGED <<files, fg, rt, switching, mgr, cleanup, crashes>>

-----------------------------------------------------------------------------
\* RemoveSubProfileLocked up to the credentials.
DeleteBegin(t, s) ==
    /\ "delete" \in Operations
    /\ At(t, "idle") /\ op = None
    /\ Valid(s) /\ fg # s
    /\ call' = [call EXCEPT ![t] = [Idle EXCEPT !.pc = "cred", !.s = s]]
    /\ op' = t
    /\ UNCHANGED <<ctx, files, fg, rt, switching, mgr, cleanup, crashes>>

\* DeleteSubProfileCred has answered; the sub-profile is marked.
DeleteMark(t) ==
    /\ At(t, "cred")
    /\ \/ /\ files' = [files EXCEPT ![call[t].s].rem = TRUE]
          /\ Goto(t, "rmdir")
          /\ UNCHANGED op
       \/ /\ Faults \cap {"iam", "save"} # {}
          /\ Return(t) /\ op' = None
          /\ UNCHANGED files
    /\ UNCHANGED <<ctx, fg, rt, switching, mgr, cleanup, crashes>>

DeleteDir(t) ==
    /\ At(t, "rmdir")
    /\ \/ /\ files' = [files EXCEPT ![call[t].s] = None]
          /\ Goto(t, "forget")
          /\ UNCHANGED op
       \/ /\ "delete" \in Faults
          /\ Return(t) /\ op' = None
          /\ UNCHANGED files
    /\ UNCHANGED <<ctx, fg, rt, switching, mgr, cleanup, crashes>>

\* UpdateContextAfterRemove.
DeleteForget(t) ==
    /\ At(t, "forget")
    /\ \E r \in ReadSubProfileContext :
         IF r = None \/ call[t].s \notin r.list THEN UNCHANGED ctx
         ELSE WriteSubProfileContext(Without(r, {call[t].s}))
    /\ Return(t) /\ op' = None
    /\ UNCHANGED <<files, fg, rt, switching, mgr, cleanup, crashes>>

-----------------------------------------------------------------------------
\* GetRuntimeForegroundSubProfileId, which also fills the map.
RuntimeForeground == IF rt = None THEN fg ELSE rt

\* SwitchOsAccountSubspace: the checks, and the sub-profile to switch from.
\* An activation switches from none (-1) to the foreground sub-profile.
SwitchBegin(t, s, activate) ==
    /\ "switch" \in Operations
    /\ At(t, "idle") /\ Valid(s)
    /\ IF activate
         THEN /\ fg = s
              /\ call' = [call EXCEPT ![t] = [Idle EXCEPT !.pc = "enter", !.s = s]]
              /\ UNCHANGED rt
         ELSE /\ fg # s
              /\ rt' = RuntimeForeground
              /\ IF RuntimeForeground = s THEN UNCHANGED call
                 ELSE call' = [call EXCEPT ![t] = [Idle EXCEPT !.pc = "enter",
                                          !.s = s, !.from = RuntimeForeground]]
    /\ UNCHANGED <<ctx, files, fg, switching, op, mgr, cleanup, crashes>>

\* CheckActiveSessionStatus.
ActiveSession(s) == s \in Id /\ files[s] # None /\ files[s].st = "LOGIN"

SwitchEnter(t) ==
    /\ At(t, "enter")
    /\ IF ActiveSession(call[t].from) \/ switching
         THEN Return(t) /\ UNCHANGED switching
         ELSE Goto(t, "resolve") /\ switching' = TRUE
    /\ UNCHANGED <<ctx, files, fg, rt, op, mgr, cleanup, crashes>>

\* ResolveSwitchAppIndices finds sub-profile s.
Resolved(s) == ctx # None /\ \E i \in Index : ctx.index[i] = s

\* SyncBMSApplicationState, after its retries.
BmsFails == "bms" \in Faults

\* The runtime foreground becomes what it was thought to be.
RollbackSubProfileSwitch(t) == rt' = call[t].from

SwitchSync(t) ==
    /\ At(t, "resolve")
    /\ \/ /\ Resolved(call[t].s)
          /\ rt' = call[t].s
          /\ Goto(t, "persist")
          /\ UNCHANGED switching
       \/ /\ ~Resolved(call[t].s) \/ "read" \in Faults \/ BmsFails
          /\ RollbackSubProfileSwitch(t)
          /\ Return(t) /\ switching' = FALSE
    /\ UNCHANGED <<ctx, files, fg, op, mgr, cleanup, crashes>>

\* SetOsAccountForegroundSubspaceId; its error is not reported.
SwitchPersist(t) ==
    /\ At(t, "persist")
    /\ \/ fg' = call[t].s
       \/ "fg" \in Faults /\ UNCHANGED fg
    /\ Return(t) /\ switching' = FALSE
    /\ UNCHANGED <<ctx, files, rt, op, mgr, cleanup, crashes>>

-----------------------------------------------------------------------------
\* The state machine, for a bound sub-profile and the event ev.
StateChange(ev) ==
    CASE ev = "login" -> "LOGIN"
      [] ev = "logout" -> "NOTLOGIN"
      [] ev = "logoff" -> "LOGOFF"
      [] ev = "token_invalid" -> "TOKEN_EXPIRED"

\* ProcDistributedAccountSpaceStateChange reads the foreground sub-profile
\* before mgrMutex_ is taken.
EventBegin(t, ev, a, u) ==
    /\ ev \in Operations
    /\ At(t, "idle") /\ fg \in Id
    /\ call' = [call EXCEPT ![t] = [Idle EXCEPT !.pc = "event", !.s = fg,
                                      !.ev = ev, !.acct = a, !.app = u]]
    /\ UNCHANGED <<ctx, files, fg, rt, switching, op, mgr, cleanup, crashes>>

\* The valid sub-profiles that ScanOsAccountSubProfileIds may give: one whose
\* file it cannot load is left out.
ScanOsAccountSubProfileIds ==
    LET valid == {s \in Id : Valid(s)}
    IN  IF "scan" \in Faults THEN SUBSET valid ELSE {valid}

\* VerifySpaceAccountBinding: sub-profile s is bound to a, or neither of them
\* is bound, as far as the scanned sub-profiles S show.
VerifySpaceAccountBinding(s, a, S) ==
    IF files[s].st # "UNBOUND" THEN files[s].acct = a
    ELSE \A r \in S \ {s} : files[r].acct # a

\* CheckSameDistributedAccount.
CheckSameDistributedAccount(s, a) == files[s].acct = a

MayChange(s, a, ev, S) ==
    IF ev = "login" THEN VerifySpaceAccountBinding(s, a, S)
    ELSE CheckSameDistributedAccount(s, a)

\* The file after the event; a login replaces the caller as well.
Changed(c) ==
    IF c.ev = "login"
      THEN [files[c.s] EXCEPT !.st = "LOGIN", !.acct = c.acct, !.app = c.app]
      ELSE [files[c.s] EXCEPT !.st = StateChange(c.ev)]

EventLoadUnlocked(t) ==
    /\ At(t, "event")
    /\ \E S \in ScanOsAccountSubProfileIds :
         IF files[call[t].s] # None /\ MayChange(call[t].s, call[t].acct, call[t].ev, S)
         THEN call' = [call EXCEPT ![t].pc = "eventsave", ![t].info = Changed(call[t])]
         ELSE Return(t)
    /\ UNCHANGED <<ctx, files, fg, rt, switching, op, mgr, cleanup, crashes>>

\* Under mgrMutex_: the file is loaded, checked and changed in memory.
EventLoad(t) ==
    /\ At(t, "event") /\ mgr = None
    /\ \E S \in ScanOsAccountSubProfileIds :
         IF files[call[t].s] # None /\ MayChange(call[t].s, call[t].acct, call[t].ev, S)
         THEN /\ call' = [call EXCEPT ![t].pc = "eventsave", ![t].info = Changed(call[t])]
              /\ mgr' = t
         ELSE Return(t) /\ UNCHANGED mgr
    /\ UNCHANGED <<ctx, files, fg, rt, switching, op, cleanup, crashes>>

\* SetDistributedAccountSpaceInfo takes subProfileOpMutex_ for the save, and
\* makes the directory if it is not there.
EventSave(t) ==
    /\ At(t, "eventsave") /\ op = None
    /\ \/ files' = [files EXCEPT ![call[t].s] = call[t].info]
       \/ "save" \in Faults /\ UNCHANGED files
    /\ Return(t) /\ mgr' = None
    /\ UNCHANGED <<ctx, fg, rt, switching, op, cleanup, crashes>>

-----------------------------------------------------------------------------
\* OnPackageRemoved: the valid sub-profiles are scanned under mgrMutex_, then
\* loaded and cleared one by one.
PackageBegin(t, u) ==
    /\ "package" \in Operations
    /\ At(t, "idle") /\ mgr = None
    /\ \E S \in ScanOsAccountSubProfileIds :
         call' = [call EXCEPT ![t] = [Idle EXCEPT !.pc = "package", !.app = u, !.todo = S]]
    /\ mgr' = t
    /\ UNCHANGED <<ctx, files, fg, rt, switching, op, cleanup, crashes>>

Matches(s, u) == files[s] # None /\ files[s].app = u /\ files[s].st # "UNBOUND"

\* ClearDistributedAccountSpaceIfMatch up to the load.
PackageLoad(t) ==
    /\ At(t, "package")
    /\ \E s \in call[t].todo :
         call' = [call EXCEPT ![t].todo = @ \ {s},
                    ![t].pc = IF Matches(s, call[t].app) THEN "clear" ELSE @,
                    ![t].s = IF Matches(s, call[t].app) THEN s ELSE 0,
                    ![t].info = IF Matches(s, call[t].app)
                                  THEN [files[s] EXCEPT !.st = "UNBOUND",
                                          !.acct = None, !.app = None]
                                  ELSE None]
    /\ UNCHANGED <<ctx, files, fg, rt, switching, op, mgr, cleanup, crashes>>

PackageClear(t) ==
    /\ At(t, "clear") /\ op = None
    /\ \/ files' = [files EXCEPT ![call[t].s] = call[t].info]
       \/ "save" \in Faults /\ UNCHANGED files
    /\ call' = [call EXCEPT ![t].pc = "package", ![t].s = 0, ![t].info = None]
    /\ UNCHANGED <<ctx, fg, rt, switching, op, mgr, cleanup, crashes>>

PackageEnd(t) ==
    /\ At(t, "package") /\ call[t].todo = {}
    /\ Return(t) /\ mgr' = None
    /\ UNCHANGED <<ctx, files, fg, rt, switching, op, cleanup, crashes>>

-----------------------------------------------------------------------------
\* The service starts again after a crash; a thread of its own cleans up.
Crash ==
    /\ crashes < MaxCrashes
    /\ crashes' = crashes + 1
    /\ call' = [t \in Thread |-> Idle]
    /\ op' = None /\ mgr' = None
    /\ rt' = None /\ switching' = FALSE
    /\ cleanup' = TRUE
    /\ UNCHANGED <<ctx, files, fg>>

\* CleanupOrphanedSubProfiles deletes directories and leaves the context.
CleanupOrphanedSubProfiles ==
    /\ cleanup /\ op = None
    /\ \E S \in IF "delete" \in Faults THEN SUBSET PendingRemoval ELSE {PendingRemoval} :
         files' = [s \in Id |-> IF s \in S THEN None ELSE files[s]]
    /\ cleanup' = FALSE
    /\ UNCHANGED <<ctx, fg, rt, switching, op, mgr, call, crashes>>

-----------------------------------------------------------------------------
\* What a thread in a call does next.
Step(t) ==
    \/ ReclaimDir(t) \/ Purge(t) \/ CreateRetry(t)
    \/ CreateSave(t) \/ RollbackDir(t) \/ RollbackContext(t)
    \/ DeleteMark(t) \/ DeleteDir(t) \/ DeleteForget(t)
    \/ SwitchEnter(t) \/ SwitchSync(t) \/ SwitchPersist(t)
    \/ EventLoad(t) \/ EventSave(t)
    \/ PackageLoad(t) \/ PackageClear(t) \/ PackageEnd(t)

Begin(t) ==
    \/ CreateBegin(t)
    \/ \E s \in Id : DeleteBegin(t, s) \/ \E b \in BOOLEAN : SwitchBegin(t, s, b)
    \/ \E ev \in {"login", "logout", "logoff", "token_invalid"} :
         \E a \in Account : \E u \in App : EventBegin(t, ev, a, u)
    \/ \E u \in App : PackageBegin(t, u)

Next ==
    \/ \E t \in Thread : Begin(t) \/ Step(t)
    \/ Crash
    \/ CleanupOrphanedSubProfiles

Spec == Init /\ [][Next]_vars

-----------------------------------------------------------------------------
\* Types; a sub-profile has an account and an application exactly while it is
\* bound.
TypeOK ==
    /\ ctx \in Context \cup {None}
    /\ files \in [Id -> Info \cup {None}]
    /\ \A s \in Id : files[s] # None =>
         (files[s].st = "UNBOUND") = (files[s].acct = None)
    /\ fg \in Id \cup {-1} /\ rt \in Id \cup {-1, None}
    /\ switching \in BOOLEAN /\ cleanup \in BOOLEAN
    /\ op \in Thread \cup {None} /\ mgr \in Thread \cup {None}

\* The context is consistent whatever fails and wherever the service stops:
\* the listed sub-profiles are those with an index, each has one index, and
\* so every one of the MaxCount indexes can be given away once.
ContextConsistent ==
    ctx # None =>
        /\ ctx.list = {ctx.index[i] : i \in Index} \ {0}
        /\ \A i, j \in Index : ctx.index[i] = ctx.index[j] /\ i # j => ctx.index[i] = 0

\* The account that sub-profile s is bound to, as queries see it.
BoundAccount(s) == IF Valid(s) THEN files[s].acct ELSE None

Binding == INSTANCE DistributedBinding WITH
    Profile <- Id, Unbound <- None, bound <- [s \in Id |-> BoundAccount(s)]

\* Logins, package removals, creations, removals and crashes keep the promise
\* of DistributedBinding, though VerifySpaceAccountBinding looks at the other
\* sub-profiles long before the login is saved, as long as the scan can load
\* their files (without the fault "scan").
BindingRefined == Binding!Spec
===============================================================================
