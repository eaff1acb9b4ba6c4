------------------------- MODULE OsAccountLifecycle -------------------------
(***************************************************************************)
(* Creation, removal and garbage cleaning of OS accounts, as done by the   *)
(* threads of IInnerOsAccountManager on the files that                     *)
(* OsAccountControlFileManager keeps and on the services (TEE, storage,    *)
(* bundle manager) that hold a user's data.  A crash loses everything but  *)
(* the files and the services' data.                                       *)
(*                                                                         *)
(* Every thread owns two program counters: cpc runs an account creation    *)
(* (or a plain update of an account record), rpc runs a removal or the     *)
(* garbage collector.  Creation calls the garbage collector at four        *)
(* places, and waits for rpc to be idle again.                             *)
(*                                                                         *)
(* Abstractions: local id i stands for START_USER_ID + i, the base account *)
(* 100 (always present, never removed) is left out and counted by hand in  *)
(* the quota.  The steps that read, change and write account_list.json are *)
(* atomic here, so that updates of the list lost between two writers are   *)
(* not seen.                                                               *)
(***************************************************************************)
EXTENDS Integers, FiniteSets

CONSTANTS
    Proc,            \* binder and worker threads of the service
    MaxId,           \* MAX_CREATABLE_USER_ID - START_USER_ID
    MaxOsAccountNum, \* config_.maxOsAccountNum
    Ops,             \* which operations the threads are asked to run
    Faults,          \* which steps may report an error ("lost": though it is done)
    IdReuse,         \* may the id allocator wrap around?
    MaxCrash,        \* bound on the number of crashes
    None             \* "no thread", "no record"

AllOps == {"create", "createWithId", "bind", "remove", "clean", "setInfo",
           "setToBeRemoved", "clearToBeRemoved", "activate"}

AllFaults == {"io", "name", "cons", "tee", "teeFull", "storage", "bms", "lost", "stop"}

ASSUME LifecycleConstants ==
    /\ MaxId \in Nat \ {0}
    /\ MaxOsAccountNum \in Nat
    /\ MaxCrash \in Nat
    /\ Ops \subseteq AllOps
    /\ Faults \subseteq AllFaults
    /\ IdReuse \in BOOLEAN
    /\ None \notin Proc

Ids == 1 .. MaxId

\* The account types the quota tells apart.
Types == {"NORMAL", "PRIVATE"}

\* What the properties need of an OsAccountInfo (its localId is the index).
Info == [completed : BOOLEAN, toBeRemoved : BOOLEAN, type : Types]

ASSUME NoneIsNoInfo == None \notin Info

VARIABLES
    acctList,    \* ACCOUNT_LIST of account_list.json
    nextLocalId, \* NEXT_LOCAL_ID of account_list.json
    info,        \* the account_info.json files; None: no such file
    cons,        \* ids with an entry in the base constraints file
    tee,         \* ids whose type is recorded in the TEE
    sto,         \* ids with user data in the storage manager
    bms,         \* ids known to the bundle manager
    operating,   \* operatingId_
    createMutex, \* owner of createOsAccountMutex_
    bindMutex,   \* owner of createOrBindDomainAccountMutex_
    fileLock,    \* owner of accountInfoFileLock_
    cpc, call, cid, ctyp, want, lvl, snap, \* a thread's creation or update
    rpc, rid, todo, mode, cleaned,         \* a thread's removal or cleaning
    crashes

disk == <<acctList, nextLocalId, info, cons>>
services == <<tee, sto, bms>>
locks == <<createMutex, bindMutex, fileLock>>
create == <<call, cid, ctyp, want, lvl, snap>>
remove == <<rid, todo, mode, cleaned>>
vars == <<disk, services, operating, locks, cpc, create, rpc, remove, crashes>>

CreatePc == {"idle", "cap", "capWait", "fill", "assignWait", "check", "mark",
             "insert", "insInfo", "cons", "bound", "bindUpd", "bindWrite",
             "tee", "teeWait", "sto", "stoWait", "bms", "fin", "finWrite", "rbTee",
             "rbBms", "rbSto", "rbDel", "rbDelList", "unbind", "end", "updCheck", "updWrite", "updEnd"}

RemovePc == {"idle", "activating", "next", "read", "flag",
             "flagWrite", "opTee", "opPrep", "opBms", "opSto", "opDel",
             "opDelList", "opCons", "opEnd"}

\* Mutant of NewInfo: the record is inserted as a completed account.
NewInfoCompleted(t) == [completed |-> TRUE, toBeRemoved |-> FALSE, type |-> t]

NewInfo(t) == [completed |-> FALSE, toBeRemoved |-> FALSE, type |-> t]

\* SetIsCreateCompleted(true) and SetToBeRemoved(b) on a copy of a record.
Completed(r) == [r EXCEPT !.completed = TRUE]
Flagged(r, b) == [r EXCEPT !.toBeRemoved = b]

Init ==
    /\ acctList = {}
    /\ nextLocalId = 1
    /\ info = [i \in Ids |-> None]
    /\ cons = {} /\ tee = {} /\ sto = {} /\ bms = {}
    /\ operating = {}
    /\ createMutex = None /\ bindMutex = None /\ fileLock = None
    /\ cpc = [p \in Proc |-> "idle"]
    /\ call = [p \in Proc |-> "create"]
    /\ cid = [p \in Proc |-> 0]
    /\ ctyp = [p \in Proc |-> "NORMAL"]
    /\ want = [p \in Proc |-> 0]
    /\ lvl = [p \in Proc |-> 0]
    /\ snap = [p \in Proc |-> None]
    /\ rpc = [p \in Proc |-> "idle"]
    /\ rid = [p \in Proc |-> 0]
    /\ todo = [p \in Proc |-> {}]
    /\ mode = [p \in Proc |-> "remove"]
    /\ cleaned = [p \in Proc |-> FALSE]
    /\ crashes = 0

-----------------------------------------------------------------------------
(***************************************************************************)
(* What the handlers compute from the files.                               *)
(***************************************************************************)

\* An account the queries return: created completely, not to be removed.
Live(i) == /\ info[i] # None
           /\ info[i].completed
           /\ ~info[i].toBeRemoved

\* QueryAllCreatedOsAccounts, GetTypeNumber: listed live accounts of a type.
TypeNumber(t) == Cardinality({i \in acctList : Live(i) /\ info[i].type = t})

\* Mutant of CheckTypeNumber: off by one.
CheckTypeNumberOffByOne(t) == t = "PRIVATE" => TypeNumber(t) <= 1

\* CheckTypeNumber: MAX_PRIVATE_TYPE_NUMBER is 1, normal accounts are free.
CheckTypeNumber(t) == t = "PRIVATE" => TypeNumber(t) < 1

\* Steps from s to i, upwards and wrapping from MaxId to 1.
Distance(s, i) == IF i >= s THEN i - s ELSE i + MaxId - s

\* The first id from startId on that is not in the list; MaxId + 1 if none.
GetNextLocalId(list, startId) ==
    LET s == IF startId \in Ids THEN startId ELSE 1
    IN  IF Ids \subseteq list
        THEN MaxId + 1
        ELSE CHOOSE i \in Ids \ list :
                \A j \in Ids \ list : Distance(s, i) <= Distance(s, j)

\* A creation or update of thread p moves to c and leaves everything else.
GoC(p, c) == cpc' = [cpc EXCEPT ![p] = c]
GoR(p, r) == rpc' = [rpc EXCEPT ![p] = r]

Idle(p) == cpc[p] = "idle" /\ rpc[p] = "idle"

\* Mutant of StartClean: an id whose account file is gone is skipped.
StartCleanSkipsGhosts(p, excludeId) ==
    /\ GoR(p, "next")
    /\ todo' = [todo EXCEPT ![p] =
                    {i \in acctList \ {excludeId} : info[i] # None}]
    /\ mode' = [mode EXCEPT ![p] = "clean"]
    /\ cleaned' = [cleaned EXCEPT ![p] = FALSE]
    /\ UNCHANGED rid

\* CleanGarbageOsAccounts is entered with a copy of the id list; when the
\* list cannot be read it does nothing and reports 0 accounts.
StartClean(p, excludeId) ==
    /\ GoR(p, "next")
    /\ \/ todo' = [todo EXCEPT ![p] = acctList \ {excludeId}]
       \/ "io" \in Faults /\ todo' = [todo EXCEPT ![p] = {}]
    /\ mode' = [mode EXCEPT ![p] = "clean"]
    /\ cleaned' = [cleaned EXCEPT ![p] = FALSE]
    /\ UNCHANGED rid

-----------------------------------------------------------------------------
(***************************************************************************)
(* CreateOsAccount and the domain variant (BindDomainAccount followed by   *)
(* BindDomainAccountCallback::OnResult).                                   *)
(***************************************************************************)

\* CreateOsAccount takes createOsAccountMutex_; w = 0 when the caller leaves
\* the choice of the id to the service.
CreateOsAccount(p, t, w) ==
    /\ Idle(p)
    /\ createMutex = None
    /\ IF w = 0 THEN "create" \in Ops /\ (IdReuse \/ nextLocalId \in Ids)
                ELSE "createWithId" \in Ops
    /\ createMutex' = p
    /\ call' = [call EXCEPT ![p] = "create"]
    /\ ctyp' = [ctyp EXCEPT ![p] = t]
    /\ want' = [want EXCEPT ![p] = w]
    /\ cid' = [cid EXCEPT ![p] = 0]
    /\ GoC(p, "cap")
    /\ UNCHANGED <<disk, services, operating, bindMutex, fileLock, lvl, snap,
                   rpc, remove, crashes>>

\* BindDomainAccount, called back by the domain plugin: it takes only
\* createOrBindDomainAccountMutex_, and does not check the quota again.
BindDomainAccount(p, t, w) ==
    /\ Idle(p)
    /\ "bind" \in Ops
    /\ IF w = 0 THEN IdReuse \/ nextLocalId \in Ids
                ELSE "createWithId" \in Ops
    /\ bindMutex = None
    /\ bindMutex' = p
    /\ call' = [call EXCEPT ![p] = "bind"]
    /\ ctyp' = [ctyp EXCEPT ![p] = t]
    /\ want' = [want EXCEPT ![p] = w]
    /\ cid' = [cid EXCEPT ![p] = 0]
    /\ GoC(p, "fill")
    /\ UNCHANGED <<disk, services, operating, createMutex, fileLock, lvl, snap,
                   rpc, remove, crashes>>

\* CheckAndCleanOsAccounts for a caller that is not a system ability; the
\* base account is in the id list too.  The result of GetNonSACreatedOACount
\* is not looked at: a list that cannot be read counts as empty.
CheckAndCleanOsAccounts(p) ==
    /\ cpc[p] = "cap"
    /\ \/ /\ Cardinality(acctList) + 1 < MaxOsAccountNum \/ "io" \in Faults
          /\ GoC(p, "fill")
          /\ UNCHANGED <<rpc, remove>>
       \/ /\ Cardinality(acctList) + 1 >= MaxOsAccountNum
          /\ GoC(p, "capWait")
          /\ StartClean(p, 0)
    /\ UNCHANGED <<disk, services, operating, locks, create, crashes>>

\* Mutant of CheckAndCleanDone: the number of cleaned accounts is ignored.
CheckAndCleanDoneAlways(p) ==
    /\ cpc[p] = "capWait"
    /\ rpc[p] = "idle"
    /\ GoC(p, "fill")
    /\ UNCHANGED <<disk, services, operating, locks, create, rpc, remove,
                   crashes>>

\* ... and its answer once the cleaning is over.
CheckAndCleanDone(p) ==
    /\ cpc[p] = "capWait"
    /\ rpc[p] = "idle"
    /\ GoC(p, IF cleaned[p] THEN "fill" ELSE "end")
    /\ UNCHANGED <<disk, services, operating, locks, create, rpc, remove,
                   crashes>>

\* Mutant of GetAllowCreateId: off by one in the range check.
GetAllowCreateIdOffByOne(p) ==
    /\ cpc[p] = "fill"
    /\ want[p] = 0
    /\ LET i == GetNextLocalId(acctList, nextLocalId)
       IN  IF i > MaxId + 1
           THEN GoC(p, "end") /\ UNCHANGED <<nextLocalId, cid>>
           ELSE /\ GoC(p, "check")
                /\ nextLocalId' = i + 1
                /\ cid' = [cid EXCEPT ![p] = i]
    /\ UNCHANGED <<acctList, info, cons, services, operating, locks, call,
                   ctyp, want, lvl, snap, rpc, remove, crashes>>

\* FillOsAccountInfo with GetAllowCreateId: the id is reserved by advancing
\* NEXT_LOCAL_ID.
GetAllowCreateId(p) ==
    /\ cpc[p] = "fill"
    /\ want[p] = 0
    /\ LET i == GetNextLocalId(acctList, nextLocalId)
       IN  IF i > MaxId
           THEN GoC(p, "end") /\ UNCHANGED <<nextLocalId, cid>>
           ELSE /\ GoC(p, "check")
                /\ nextLocalId' = i + 1
                /\ cid' = [cid EXCEPT ![p] = i]
    /\ UNCHANGED <<acctList, info, cons, services, operating, locks, call,
                   ctyp, want, lvl, snap, rpc, remove, crashes>>

\* FillOsAccountInfo with AssignSpecifiedLocalId: a live account is in the
\* way, or the garbage is collected first.
AssignSpecifiedLocalId(p) ==
    /\ cpc[p] = "fill"
    /\ want[p] # 0
    /\ IF Live(want[p])
       THEN GoC(p, "end") /\ UNCHANGED <<rpc, remove>>
       ELSE GoC(p, "assignWait") /\ StartClean(p, 0)
    /\ UNCHANGED <<disk, services, operating, locks, create, crashes>>

AssignSpecifiedLocalIdDone(p) ==
    /\ cpc[p] = "assignWait"
    /\ rpc[p] = "idle"
    /\ IF info[want[p]] # None
       THEN GoC(p, "end") /\ UNCHANGED <<nextLocalId, cid>>
       ELSE /\ GoC(p, "check")
            /\ nextLocalId' = IF want[p] + 1 > nextLocalId THEN want[p] + 1
                                                           ELSE nextLocalId
            /\ cid' = [cid EXCEPT ![p] = want[p]]
    /\ UNCHANGED <<acctList, info, cons, services, operating, locks, call,
                   ctyp, want, lvl, snap, rpc, remove, crashes>>

\* ValidateOsAccount (a name clash is a caller's choice) and CheckTypeNumber.
ValidateOsAccount(p) ==
    /\ cpc[p] = "check"
    /\ \/ CheckTypeNumber(ctyp[p]) /\ GoC(p, "mark")
       \/ (~CheckTypeNumber(ctyp[p]) \/ "name" \in Faults) /\ GoC(p, "end")
    /\ UNCHANGED <<disk, services, operating, locks, create, rpc, remove,
                   crashes>>

\* CheckAndAddLocalIdOperating.  On failure too, CreateOsAccount goes on to
\* RemoveLocalIdToOperating.
MarkCreating(p) ==
    /\ cpc[p] = "mark"
    /\ IF cid[p] \in operating
       THEN GoC(p, "end") /\ UNCHANGED operating
       ELSE GoC(p, "insert") /\ operating' = operating \cup {cid[p]}
    /\ UNCHANGED <<disk, services, locks, create, rpc, remove, crashes>>

\* InsertOsAccount: the id enters the list first ...
InsertOsAccount(p) ==
    /\ cpc[p] = "insert"
    /\ fileLock = None
    /\ IF info[cid[p]] # None
       THEN GoC(p, "end") /\ UNCHANGED <<acctList, fileLock>>
       ELSE \/ /\ acctList' = acctList \cup {cid[p]}
               /\ fileLock' = p
               /\ GoC(p, "insInfo")
            \/ /\ "io" \in Faults
               /\ GoC(p, "end")
               /\ UNCHANGED <<acctList, fileLock>>
    /\ UNCHANGED <<nextLocalId, info, cons, services, operating, createMutex,
                   bindMutex, create, rpc, remove, crashes>>

\* Mutant of InsertOsAccountInfo: accountInfoFileLock_ is not released.
InsertOsAccountInfoKeepsLock(p) ==
    /\ cpc[p] = "insInfo"
    /\ info' = [info EXCEPT ![cid[p]] = NewInfo(ctyp[p])]
    /\ GoC(p, "cons")
    /\ UNCHANGED <<acctList, nextLocalId, cons, services, operating,
                   locks, create, rpc, remove, crashes>>

\* ... then the account file is written.
InsertOsAccountInfo(p) ==
    /\ cpc[p] = "insInfo"
    /\ fileLock' = None
    /\ \/ /\ info' = [info EXCEPT ![cid[p]] = NewInfo(ctyp[p])]
          /\ GoC(p, "cons")
       \/ /\ "io" \in Faults
          /\ GoC(p, "end")
          /\ UNCHANGED info
    /\ UNCHANGED <<acctList, nextLocalId, cons, services, operating,
                   createMutex, bindMutex, create, rpc, remove, crashes>>

\* UpdateBaseOAConstraints, the last step of PrepareOsAccountInfo.
UpdateBaseOAConstraints(p) ==
    /\ cpc[p] = "cons"
    /\ \/ /\ cons' = cons \cup {cid[p]}
          /\ GoC(p, IF call[p] = "bind" THEN "bound" ELSE "tee")
       \/ "cons" \in Faults /\ GoC(p, "end") /\ UNCHANGED cons
    /\ UNCHANGED <<acctList, nextLocalId, info, services, operating, locks,
                   create, rpc, remove, crashes>>

\* Mutant of BindDomainAccountUnmark: the mark stays.
BindDomainAccountUnmarkNot(p) ==
    /\ cpc[p] = "bound"
    /\ GoC(p, "bindUpd")
    /\ UNCHANGED <<disk, services, operating, locks, create, rpc, remove,
                   crashes>>

\* BindDomainAccount gives up the mark as soon as the record is prepared ...
BindDomainAccountUnmark(p) ==
    /\ cpc[p] = "bound"
    /\ operating' = operating \ {cid[p]}
    /\ GoC(p, "bindUpd")
    /\ UNCHANGED <<disk, services, locks, create, rpc, remove, crashes>>

\* ... then looks for the file, which the collector may have deleted ...
BindDomainAccountUpdate(p) ==
    /\ cpc[p] = "bindUpd"
    /\ IF info[cid[p]] # None
       THEN GoC(p, "bindWrite") /\ UNCHANGED bindMutex
       ELSE GoC(p, "end") /\ bindMutex' = None
    /\ UNCHANGED <<disk, services, operating, createMutex, fileLock, create,
                   rpc, remove, crashes>>

\* ... and writes the record.  The creation goes on in BindDomainAccount-
\* Callback::OnResult without mark and mutex.  The plugin may refuse the
\* binding (the record is deleted) or be out of reach (the record is left to
\* the collector).
BindDomainAccountReturn(p) ==
    /\ cpc[p] = "bindWrite"
    /\ fileLock = None
    /\ bindMutex' = None
    /\ \/ /\ info' = [info EXCEPT ![cid[p]] = NewInfo(ctyp[p])]
          /\ \E c \in {"tee", "rbDel", "end"} : GoC(p, c)
       \/ "io" \in Faults /\ GoC(p, "end") /\ UNCHANGED info
    /\ UNCHANGED <<acctList, nextLocalId, cons, services, operating,
                   createMutex, fileLock, create, rpc, remove, crashes>>

\* HandleCreateOsAccountToken: the type goes to the TEE, except for an EDM
\* caller; a full TEE is retried after a garbage collection.
HandleCreateOsAccountToken(p) ==
    /\ cpc[p] = "tee"
    /\ \/ /\ tee' = tee \cup {cid[p]}
          /\ GoC(p, "sto")
          /\ UNCHANGED <<rpc, remove>>
       \/ /\ call[p] = "create"
          /\ GoC(p, "sto")
          /\ UNCHANGED <<tee, rpc, remove>>
       \/ /\ "tee" \in Faults
          /\ GoC(p, IF call[p] = "bind" THEN "unbind" ELSE "end")
          /\ UNCHANGED <<tee, rpc, remove>>
       \/ /\ "teeFull" \in Faults
          /\ call[p] = "create"
          /\ GoC(p, "teeWait")
          /\ StartClean(p, 0)
          /\ UNCHANGED tee
    /\ UNCHANGED <<disk, sto, bms, operating, locks, create, crashes>>

InsertOsAccountTypeRetry(p) ==
    /\ cpc[p] = "teeWait"
    /\ rpc[p] = "idle"
    /\ \/ cleaned[p] /\ tee' = tee \cup {cid[p]} /\ GoC(p, "sto")
       \/ GoC(p, "end") /\ UNCHANGED tee
    /\ UNCHANGED <<disk, sto, bms, operating, locks, create, rpc, remove,
                   crashes>>

\* What a service keeps of an id when its answer is an error: nothing, or all
\* of it when the answer was lost (E_IPC_ERROR after MAX_RETRY_TIMES calls).
Refused(p, ids) == IF "lost" \in Faults THEN {ids, ids \cup {cid[p]}} ELSE {ids}

\* SendMsgForAccountCreate: SendToStorageAccountCreate, then
\* SendToBMSAccountCreate; lvl says how much a rollback has to delete.
\* A storage manager that refuses is asked again after a garbage collection,
\* which spares the new id, marked or not.
SendToStorageAccountCreate(p) ==
    /\ cpc[p] = "sto"
    /\ \/ /\ sto' = sto \cup {cid[p]}
          /\ GoC(p, "bms")
          /\ UNCHANGED <<lvl, rpc, remove>>
       \/ /\ "storage" \in Faults
          /\ GoC(p, "rbTee")
          /\ lvl' = [lvl EXCEPT ![p] = 0]
          /\ sto' \in Refused(p, sto)
          /\ UNCHANGED <<rpc, remove>>
       \/ /\ "storage" \in Faults
          /\ GoC(p, "stoWait")
          /\ StartClean(p, cid[p])
          /\ UNCHANGED <<sto, lvl>>
    /\ UNCHANGED <<disk, tee, bms, operating, locks, call, cid, ctyp, want,
                   snap, crashes>>

\* ... and all over again when the connection was lost ("sto").
PrepareAddUserRetry(p) ==
    /\ cpc[p] = "stoWait"
    /\ rpc[p] = "idle"
    /\ \/ /\ cleaned[p]
          /\ sto' = sto \cup {cid[p]}
          /\ GoC(p, "bms")
          /\ UNCHANGED lvl
       \/ /\ GoC(p, "sto")
          /\ UNCHANGED <<sto, lvl>>
       \/ /\ GoC(p, "rbTee")
          /\ lvl' = [lvl EXCEPT ![p] = 0]
          /\ sto' \in Refused(p, sto)
    /\ UNCHANGED <<disk, tee, bms, operating, locks, call, cid, ctyp, want,
                   snap, rpc, remove, crashes>>

SendToBMSAccountCreate(p) ==
    /\ cpc[p] = "bms"
    /\ \/ bms' = bms \cup {cid[p]} /\ GoC(p, "fin") /\ UNCHANGED lvl
       \/ /\ "bms" \in Faults
          /\ GoC(p, "rbTee")
          /\ lvl' = [lvl EXCEPT ![p] = 1]
          /\ bms' \in Refused(p, bms)
    /\ UNCHANGED <<disk, tee, sto, operating, locks, call, cid, ctyp, want,
                   snap, rpc, remove, crashes>>

\* The highest-level bundles must be installed (CheckHighestHapInstallForCreate)
\* and the subspace set up; then FinalizeAccountCreate's UpdateOsAccount looks
\* for the file ...
FinalizeAccountCreate(p) ==
    /\ cpc[p] = "fin"
    /\ \/ /\ info[cid[p]] # None
          /\ GoC(p, "finWrite")
          /\ UNCHANGED lvl
       \/ /\ info[cid[p]] = None \/ "bms" \in Faults
          /\ GoC(p, "rbTee")
          /\ lvl' = [lvl EXCEPT ![p] = 2]
    /\ UNCHANGED <<disk, services, operating, locks, call, cid, ctyp, want,
                   snap, rpc, remove, crashes>>

\* ... and writes the creator's copy of the record, now completed.
FinalizeAccountCreateWrite(p) ==
    /\ cpc[p] = "finWrite"
    /\ fileLock = None
    /\ \/ /\ info' = [info EXCEPT ![cid[p]] = Completed(NewInfo(ctyp[p]))]
          /\ GoC(p, "end")
          /\ UNCHANGED lvl
       \/ /\ "io" \in Faults
          /\ GoC(p, "rbTee")
          /\ lvl' = [lvl EXCEPT ![p] = 2]
          /\ UNCHANGED info
    /\ UNCHANGED <<acctList, nextLocalId, cons, services, operating, locks,
                   call, cid, ctyp, want, snap, rpc, remove, crashes>>

\* Every return of CreateOsAccount: RemoveLocalIdToOperating, whoever put
\* the id there, and the mutex is released.  The callback of a domain
\* account returns without either; a failed bind still holds its mutex.
CreateReturn(p) ==
    /\ cpc[p] = "end"
    /\ operating' = IF call[p] = "bind" /\ bindMutex # p
                    THEN operating
                    ELSE operating \ {cid[p]}
    /\ createMutex' = IF createMutex = p THEN None ELSE createMutex
    /\ bindMutex' = IF bindMutex = p THEN None ELSE bindMutex
    /\ cid' = [cid EXCEPT ![p] = 0]
    /\ lvl' = [lvl EXCEPT ![p] = 0]
    /\ snap' = [snap EXCEPT ![p] = None]
    /\ ctyp' = [ctyp EXCEPT ![p] = "NORMAL"]
    /\ want' = [want EXCEPT ![p] = 0]
    /\ call' = [call EXCEPT ![p] = "create"]
    /\ GoC(p, "idle")
    /\ UNCHANGED <<disk, services, fileLock, rpc, remove, crashes>>

-----------------------------------------------------------------------------
(***************************************************************************)
(* RollbackOsAccount: TEE, bundle manager, storage, record; it stops at    *)
(* the first step that fails and leaves the record to the collector.  The  *)
(* record of a domain account is deleted by HandleUnbindDomainAccount-     *)
(* Failed instead, whatever the rollback achieved.                         *)
(***************************************************************************)

RollbackNext(p, done) ==
    IF done = "tee" /\ lvl[p] = 2 THEN "rbBms"
    ELSE IF done # "sto" /\ lvl[p] > 0 THEN "rbSto"
    ELSE IF call[p] = "bind" THEN "unbind" ELSE "rbDel"

\* Mutant of RollbackFails: the record is deleted whatever has failed.
RollbackFailsDeletes(p) == GoC(p, "rbDel")

RollbackFails(p) ==
    GoC(p, IF call[p] = "bind" THEN "unbind" ELSE "end")

RollbackTee(p) ==
    /\ cpc[p] = "rbTee"
    /\ \/ tee' = tee \ {cid[p]} /\ GoC(p, RollbackNext(p, "tee"))
       \/ "tee" \in Faults /\ RollbackFails(p) /\ UNCHANGED tee
    /\ UNCHANGED <<disk, sto, bms, operating, locks, create, rpc, remove,
                   crashes>>

RollbackBms(p) ==
    /\ cpc[p] = "rbBms"
    /\ \/ bms' = bms \ {cid[p]} /\ GoC(p, RollbackNext(p, "bms"))
       \/ "bms" \in Faults /\ RollbackFails(p) /\ UNCHANGED bms
    /\ UNCHANGED <<disk, tee, sto, operating, locks, create, rpc, remove,
                   crashes>>

RollbackStorage(p) ==
    /\ cpc[p] = "rbSto"
    /\ \/ sto' = sto \ {cid[p]} /\ GoC(p, RollbackNext(p, "sto"))
       \/ "storage" \in Faults /\ RollbackFails(p) /\ UNCHANGED sto
    /\ UNCHANGED <<disk, tee, bms, operating, locks, create, rpc, remove,
                   crashes>>

\* HandleUnbindDomainAccountFailed: the plugin accepts the unbinding or not.
HandleUnbindDomainAccountFailed(p) ==
    /\ cpc[p] = "unbind"
    /\ \E c \in {"rbDel", "end"} : GoC(p, c)
    /\ UNCHANGED <<disk, services, operating, locks, create, rpc, remove,
                   crashes>>

\* DelOsAccount deletes the account's directory, then its list entry.
RollbackDelInfo(p) ==
    /\ cpc[p] = "rbDel"
    /\ fileLock = None
    /\ \/ /\ info' = [info EXCEPT ![cid[p]] = None]
          /\ fileLock' = p
          /\ GoC(p, "rbDelList")
       \/ "io" \in Faults /\ GoC(p, "end") /\ UNCHANGED <<info, fileLock>>
    /\ UNCHANGED <<acctList, nextLocalId, cons, services, operating,
                   createMutex, bindMutex, create, rpc, remove, crashes>>

RollbackDelList(p) ==
    /\ cpc[p] = "rbDelList"
    /\ \/ acctList' = acctList \ {cid[p]}
       \/ "io" \in Faults /\ UNCHANGED acctList
    /\ fileLock' = None
    /\ GoC(p, "end")
    /\ UNCHANGED <<nextLocalId, info, cons, services, operating, createMutex,
                   bindMutex, create, rpc, remove, crashes>>

-----------------------------------------------------------------------------
(***************************************************************************)
(* RemoveOsAccount, CleanGarbageOsAccounts and their common part           *)
(* RemoveOsAccountOperate.                                                 *)
(***************************************************************************)

\* RemoveOsAccount marks the id before it looks for the account.
RemoveOsAccount(p, i) ==
    /\ Idle(p)
    /\ "remove" \in Ops
    /\ i \notin operating
    /\ operating' = operating \cup {i}
    /\ rid' = [rid EXCEPT ![p] = i]
    /\ mode' = [mode EXCEPT ![p] = "remove"]
    /\ GoR(p, "read")
    /\ UNCHANGED <<disk, services, locks, cpc, create, todo, cleaned, crashes>>

\* ActivateOsAccount seen from here: it holds the mark from its first line
\* until the activation is over (module OsAccountActivation has the rest).
ActivateOsAccount(p, i) ==
    /\ Idle(p)
    /\ "activate" \in Ops
    /\ i \notin operating
    /\ operating' = operating \cup {i}
    /\ rid' = [rid EXCEPT ![p] = i]
    /\ mode' = [mode EXCEPT ![p] = "remove"]
    /\ GoR(p, "activating")
    /\ UNCHANGED <<disk, services, locks, cpc, create, todo, cleaned, crashes>>

\* CleanGarbageOsAccountsAsync, when an account is unlocked.
CleanGarbageOsAccounts(p) ==
    /\ Idle(p)
    /\ "clean" \in Ops
    /\ StartClean(p, 0)
    /\ UNCHANGED <<disk, services, operating, locks, cpc, create, crashes>>

\* Mutant of CleanNext: the collector takes ids that are marked.
CleanNextUnmarked(p) ==
    /\ rpc[p] = "next"
    /\ IF todo[p] = {}
       THEN GoR(p, "idle") /\ UNCHANGED <<todo, rid, operating>>
       ELSE \E i \in todo[p] :
              /\ todo' = [todo EXCEPT ![p] = @ \ {i}]
              /\ operating' = operating \cup {i}
              /\ rid' = [rid EXCEPT ![p] = i]
              /\ GoR(p, "read")
    /\ UNCHANGED <<disk, services, locks, cpc, create, mode, cleaned, crashes>>

\* One turn of the collector's loop over its copy of the id list.
CleanNext(p) ==
    /\ rpc[p] = "next"
    /\ IF todo[p] = {}
       THEN GoR(p, "idle") /\ UNCHANGED <<todo, rid, operating>>
       ELSE \E i \in todo[p] :
              /\ todo' = [todo EXCEPT ![p] = @ \ {i}]
              /\ IF i \in operating
                 THEN UNCHANGED <<rpc, rid, operating>>
                 ELSE /\ operating' = operating \cup {i}
                      /\ rid' = [rid EXCEPT ![p] = i]
                      /\ GoR(p, "read")
    /\ UNCHANGED <<disk, services, locks, cpc, create, mode, cleaned, crashes>>

\* GetRealOsAccountInfoById.  The collector spares live accounts and also
\* takes an id whose file is gone; RemoveOsAccount needs the file, and the
\* storage manager's consent (SendToStorageAccountCreateComplete).
ReadForRemove(p) ==
    /\ rpc[p] = "read"
    /\ \/ /\ mode[p] = "clean"
          /\ ~Live(rid[p])
          /\ GoR(p, "opTee")
          /\ UNCHANGED snap
       \/ /\ mode[p] = "remove"
          /\ info[rid[p]] # None
          /\ snap' = [snap EXCEPT ![p] = info[rid[p]]]
          /\ GoR(p, "flag")
       \/ /\ \/ mode[p] = "clean" /\ Live(rid[p])
             \/ mode[p] = "remove" /\ info[rid[p]] = None
             \/ mode[p] = "remove" /\ "storage" \in Faults
             \/ "io" \in Faults
          /\ GoR(p, "opEnd")
          /\ UNCHANGED snap
    /\ UNCHANGED <<disk, services, operating, locks, cpc, call, cid, ctyp,
                   want, lvl, remove, crashes>>

\* "set remove flag first": UpdateOsAccount looks for the file ...
SetRemoveFlag(p) ==
    /\ rpc[p] = "flag"
    /\ GoR(p, IF info[rid[p]] # None THEN "flagWrite" ELSE "opEnd")
    /\ UNCHANGED <<disk, services, operating, locks, cpc, create, remove,
                   crashes>>

\* Mutant of SetRemoveFlagWrite: a failed write is ignored.
SetRemoveFlagWriteUnchecked(p) ==
    /\ rpc[p] = "flagWrite"
    /\ fileLock = None
    /\ \/ info' = [info EXCEPT ![rid[p]] = Flagged(snap[p], TRUE)]
       \/ "io" \in Faults /\ UNCHANGED info
    /\ GoR(p, "opTee")
    /\ UNCHANGED <<acctList, nextLocalId, cons, services, operating, locks,
                   cpc, create, remove, crashes>>

\* ... and writes the copy that RemoveOsAccount has read, with the flag.
SetRemoveFlagWrite(p) ==
    /\ rpc[p] = "flagWrite"
    /\ fileLock = None
    /\ \/ /\ info' = [info EXCEPT ![rid[p]] = Flagged(snap[p], TRUE)]
          /\ GoR(p, "opTee")
       \/ "io" \in Faults /\ GoR(p, "opEnd") /\ UNCHANGED info
    /\ UNCHANGED <<acctList, nextLocalId, cons, services, operating, locks,
                   cpc, create, remove, crashes>>

\* RemoveOsAccountOperate deletes the type from the TEE first.
OperateTee(p) ==
    /\ rpc[p] = "opTee"
    /\ \/ tee' = tee \ {rid[p]} /\ GoR(p, "opPrep")
       \/ "tee" \in Faults /\ GoR(p, "opEnd") /\ UNCHANGED tee
    /\ UNCHANGED <<disk, sto, bms, operating, locks, cpc, create, remove,
                   crashes>>

\* PrepareRemoveOsAccount: IDM deletion and stopping the account.
PrepareRemoveOsAccount(p) ==
    /\ rpc[p] = "opPrep"
    /\ \/ GoR(p, "opBms")
       \/ "stop" \in Faults /\ GoR(p, "opEnd")
    /\ UNCHANGED <<disk, services, operating, locks, cpc, create, remove,
                   crashes>>

\* SendMsgForAccountRemove: bundle manager, storage, then DelOsAccount.
OperateBms(p) ==
    /\ rpc[p] = "opBms"
    /\ \/ bms' = bms \ {rid[p]} /\ GoR(p, "opSto")
       \/ "bms" \in Faults /\ GoR(p, "opEnd") /\ UNCHANGED bms
    /\ UNCHANGED <<disk, tee, sto, operating, locks, cpc, create, remove,
                   crashes>>

OperateStorage(p) ==
    /\ rpc[p] = "opSto"
    /\ \/ sto' = sto \ {rid[p]} /\ GoR(p, "opDel")
       \/ "storage" \in Faults /\ GoR(p, "opEnd") /\ UNCHANGED sto
    /\ UNCHANGED <<disk, tee, bms, operating, locks, cpc, create, remove,
                   crashes>>

OperateDelInfo(p) ==
    /\ rpc[p] = "opDel"
    /\ fileLock = None
    /\ \/ /\ info' = [info EXCEPT ![rid[p]] = None]
          /\ fileLock' = p
          /\ GoR(p, "opDelList")
       \/ "io" \in Faults /\ GoR(p, "opEnd") /\ UNCHANGED <<info, fileLock>>
    /\ UNCHANGED <<acctList, nextLocalId, cons, services, operating,
                   createMutex, bindMutex, cpc, create, remove, crashes>>

OperateDelList(p) ==
    /\ rpc[p] = "opDelList"
    /\ fileLock' = None
    /\ \/ acctList' = acctList \ {rid[p]} /\ GoR(p, "opCons")
       \/ "io" \in Faults /\ GoR(p, "opEnd") /\ UNCHANGED acctList
    /\ UNCHANGED <<nextLocalId, info, cons, services, operating, createMutex,
                   bindMutex, cpc, create, remove, crashes>>

\* RemoveOAConstraintsInfo; on success the removal counts as done.
OperateConstraints(p) ==
    /\ rpc[p] = "opCons"
    /\ GoR(p, "opEnd")
    /\ \/ /\ cons' = cons \ {rid[p]}
          /\ cleaned' = IF mode[p] = "clean" THEN [cleaned EXCEPT ![p] = TRUE]
                                            ELSE cleaned
       \/ "cons" \in Faults /\ UNCHANGED <<cons, cleaned>>
    /\ UNCHANGED <<acctList, nextLocalId, info, services, operating, locks,
                   cpc, create, rid, todo, mode, crashes>>

\* RemoveLocalIdToOperating; the collector takes its next id.
RemoveReturn(p) ==
    /\ rpc[p] \in {"opEnd", "activating"}
    /\ operating' = operating \ {rid[p]}
    /\ rid' = [rid EXCEPT ![p] = 0]
    /\ snap' = [snap EXCEPT ![p] = None]
    /\ GoR(p, IF mode[p] = "clean" THEN "next" ELSE "idle")
    /\ UNCHANGED <<disk, services, locks, cpc, call, cid, ctyp, want, lvl, todo,
                   mode, cleaned, crashes>>

-----------------------------------------------------------------------------
(***************************************************************************)
(* Updates of one field of a record: read the file, change the copy, look  *)
(* for the file, write the copy.                                           *)
(***************************************************************************)

\* SetOsAccountName, SetOsAccountConstraints and their like: no mark; the
\* changed field is not modelled, the rest of the record is written back.
SetOsAccountInfo(p, i) ==
    /\ Idle(p)
    /\ "setInfo" \in Ops
    /\ info[i] # None
    /\ ~info[i].toBeRemoved
    /\ snap' = [snap EXCEPT ![p] = info[i]]
    /\ cid' = [cid EXCEPT ![p] = i]
    /\ call' = [call EXCEPT ![p] = "setInfo"]
    /\ GoC(p, "updCheck")
    /\ UNCHANGED <<disk, services, operating, locks, ctyp, want, lvl, rpc,
                   remove, crashes>>

\* SetOsAccountToBeRemoved: the same, holding the mark.
SetOsAccountToBeRemoved(p, i, b) ==
    /\ Idle(p)
    /\ (IF b THEN "setToBeRemoved" ELSE "clearToBeRemoved") \in Ops
    /\ i \notin operating
    /\ info[i] # None
    /\ operating' = operating \cup {i}
    /\ snap' = [snap EXCEPT ![p] = Flagged(info[i], b)]
    /\ cid' = [cid EXCEPT ![p] = i]
    /\ call' = [call EXCEPT ![p] = "setToBeRemoved"]
    /\ GoC(p, "updCheck")
    /\ UNCHANGED <<disk, services, locks, ctyp, want, lvl, rpc, remove,
                   crashes>>

UpdateOsAccount(p) ==
    /\ cpc[p] = "updCheck"
    /\ GoC(p, IF info[cid[p]] # None THEN "updWrite" ELSE "updEnd")
    /\ UNCHANGED <<disk, services, operating, locks, create, rpc, remove,
                   crashes>>

UpdateOsAccountWrite(p) ==
    /\ cpc[p] = "updWrite"
    /\ fileLock = None
    /\ \/ info' = [info EXCEPT ![cid[p]] = snap[p]]
       \/ "io" \in Faults /\ UNCHANGED info
    /\ GoC(p, "updEnd")
    /\ UNCHANGED <<acctList, nextLocalId, cons, services, operating, locks,
                   create, rpc, remove, crashes>>

UpdateReturn(p) ==
    /\ cpc[p] = "updEnd"
    /\ operating' = IF call[p] = "setToBeRemoved" THEN operating \ {cid[p]}
                                                  ELSE operating
    /\ cid' = [cid EXCEPT ![p] = 0]
    /\ snap' = [snap EXCEPT ![p] = None]
    /\ call' = [call EXCEPT ![p] = "create"]
    /\ GoC(p, "idle")
    /\ UNCHANGED <<disk, services, locks, ctyp, want, lvl, rpc, remove,
                   crashes>>

-----------------------------------------------------------------------------
\* The service dies and is started again: files and services survive.
Crash ==
    /\ crashes < MaxCrash
    /\ crashes' = crashes + 1
    /\ operating' = {}
    /\ createMutex' = None /\ bindMutex' = None /\ fileLock' = None
    /\ cpc' = [p \in Proc |-> "idle"]
    /\ cid' = [p \in Proc |-> 0]
    /\ lvl' = [p \in Proc |-> 0]
    /\ snap' = [p \in Proc |-> None]
    /\ rpc' = [p \in Proc |-> "idle"]
    /\ rid' = [p \in Proc |-> 0]
    /\ todo' = [p \in Proc |-> {}]
    /\ call' = [p \in Proc |-> "create"]
    /\ ctyp' = [p \in Proc |-> "NORMAL"]
    /\ want' = [p \in Proc |-> 0]
    /\ mode' = [p \in Proc |-> "remove"]
    /\ cleaned' = [p \in Proc |-> FALSE]
    /\ UNCHANGED <<disk, services>>

CreateStep(p) ==
    \/ CheckAndCleanOsAccounts(p) \/ CheckAndCleanDone(p)
    \/ GetAllowCreateId(p) \/ AssignSpecifiedLocalId(p)
    \/ AssignSpecifiedLocalIdDone(p)
    \/ ValidateOsAccount(p) \/ MarkCreating(p)
    \/ InsertOsAccount(p) \/ InsertOsAccountInfo(p)
    \/ UpdateBaseOAConstraints(p) \/ BindDomainAccountUnmark(p)
    \/ BindDomainAccountUpdate(p) \/ BindDomainAccountReturn(p)
    \/ HandleCreateOsAccountToken(p) \/ InsertOsAccountTypeRetry(p)
    \/ SendToStorageAccountCreate(p) \/ PrepareAddUserRetry(p)
    \/ SendToBMSAccountCreate(p)
    \/ FinalizeAccountCreate(p) \/ FinalizeAccountCreateWrite(p)
    \/ RollbackTee(p) \/ RollbackBms(p) \/ RollbackStorage(p)
    \/ HandleUnbindDomainAccountFailed(p)
    \/ RollbackDelInfo(p) \/ RollbackDelList(p)
    \/ CreateReturn(p)

RemoveStep(p) ==
    \/ CleanNext(p) \/ ReadForRemove(p) \/ SetRemoveFlag(p)
    \/ SetRemoveFlagWrite(p)
    \/ OperateTee(p) \/ PrepareRemoveOsAccount(p)
    \/ OperateBms(p) \/ OperateStorage(p)
    \/ OperateDelInfo(p) \/ OperateDelList(p) \/ OperateConstraints(p)
    \/ RemoveReturn(p)

UpdateStep(p) == UpdateOsAccount(p) \/ UpdateOsAccountWrite(p) \/ UpdateReturn(p)

\* The calls the service accepts.
Call(p) ==
    \/ \E t \in Types, w \in Ids \cup {0} :
          CreateOsAccount(p, t, w) \/ BindDomainAccount(p, t, w)
    \/ \E i \in Ids : RemoveOsAccount(p, i) \/ SetOsAccountInfo(p, i)
                      \/ ActivateOsAccount(p, i)
    \/ \E i \in Ids, b \in BOOLEAN : SetOsAccountToBeRemoved(p, i, b)
    \/ CleanGarbageOsAccounts(p)

Step(p) == CreateStep(p) \/ RemoveStep(p) \/ UpdateStep(p)

Next == Crash \/ \E p \in Proc : Call(p) \/ Step(p)

Spec == Init /\ [][Next]_vars

\* A thread inside a handler keeps running, and gets a std::mutex that is
\* released again and again; the collector is started again and again (at
\* every start of the service and every time an account is verified).
FairSpec ==
    /\ Spec
    /\ \A p \in Proc : SF_vars(Step(p))
    /\ \E p \in Proc : SF_vars(CleanGarbageOsAccounts(p))

-----------------------------------------------------------------------------
\* Program counters, copies of records and ids stay in their ranges; above all
\* NEXT_LOCAL_ID and every id handed out stay within the creatable ids, also
\* when GetNextLocalId wraps around or the list is full.
TypeOK ==
    /\ acctList \subseteq Ids
    /\ nextLocalId \in 1 .. MaxId + 1
    /\ info \in [Ids -> Info \cup {None}]
    /\ cons \subseteq Ids /\ tee \subseteq Ids
    /\ sto \subseteq Ids /\ bms \subseteq Ids
    /\ operating \subseteq Ids
    /\ createMutex \in Proc \cup {None}
    /\ bindMutex \in Proc \cup {None}
    /\ fileLock \in Proc \cup {None}
    /\ cpc \in [Proc -> CreatePc]
    /\ call \in [Proc -> {"create", "bind", "setInfo", "setToBeRemoved"}]
    /\ cid \in [Proc -> Ids \cup {0}]
    /\ ctyp \in [Proc -> Types]
    /\ want \in [Proc -> Ids \cup {0}]
    /\ lvl \in [Proc -> 0 .. 2]
    /\ snap \in [Proc -> Info \cup {None}]
    /\ rpc \in [Proc -> RemovePc]
    /\ rid \in [Proc -> Ids \cup {0}]
    /\ todo \in [Proc -> SUBSET Ids]
    /\ mode \in [Proc -> {"remove", "clean"}]
    /\ cleaned \in [Proc -> BOOLEAN]
    /\ crashes \in 0 .. MaxCrash

\* No user data without a record: whatever is refused or crashes between the
\* steps of SendMsgForAccountCreate, RollbackOsAccount and SendMsgForAccount-
\* Remove, an id known to the TEE, the storage or the bundle manager still has
\* its account file, so that the garbage collector can find and delete the data.
\* The answers of the services must arrive: the rollback deletes nothing in the
\* service whose answer was lost (with the fault "lost" this does not hold).
NoOrphanData == \A i \in tee \cup sto \cup bms : info[i] # None

\* The other direction: an account that the queries return (completed and not
\* to be removed) is in the id list and has its data in both services.
LiveHasData == \A i \in Ids : Live(i) => i \in acctList \cap sto \cap bms

\* Ids a thread works on beyond the checks: it creates or removes them.
CreateWork == {"insert", "insInfo", "cons", "bound", "bindUpd", "bindWrite",
               "tee", "teeWait", "sto", "stoWait", "bms", "fin", "finWrite", "rbTee",
               "rbBms", "rbSto", "rbDel", "rbDelList", "unbind"}
RemoveWork == {"flag", "flagWrite", "opTee", "opPrep", "opBms", "opSto", "opDel",
               "opDelList"}
Works(p) == {i \in Ids : \/ i = cid[p] /\ cpc[p] \in CreateWork
                         \/ i = rid[p] /\ rpc[p] \in RemoveWork}

\* operatingId_ does its job: no id is created, rolled back or removed by two
\* threads at a time.
ExclusiveOperation ==
    \A p, q \in Proc : p # q => Works(p) \cap Works(q) = {}

\* Nothing leaks: when no handler is running, no id is marked as operating
\* (it could never be created, activated or removed again) and no lock is
\* held, whichever of their many returns the handlers took.
NothingHeldWhenIdle ==
    (\A p \in Proc : Idle(p)) =>
        /\ operating = {}
        /\ createMutex = None /\ bindMutex = None /\ fileLock = None

\* CheckTypeNumber and InsertOsAccount are far apart; createOsAccountMutex_
\* alone keeps the number of private accounts at one.
PrivateQuota ==
    Cardinality({i \in Ids : Live(i) /\ info[i].type = "PRIVATE"}) <= 1

\* The number of records, garbage included, never passes the configured
\* maximum: a creation above it has removed something first.
AccountQuota ==
    MaxOsAccountNum > 1 => Cardinality(acctList) + 1 <= MaxOsAccountNum

\* "to be removed, cannot change any thing": once RemoveOsAccount has set the
\* flag, the account's file carries it until the file is deleted.
RemoveFlagKept ==
    \A p \in Proc :
        (rpc[p] \in RemoveWork \ {"flag", "flagWrite"} /\ mode[p] = "remove"
            /\ info[rid[p]] # None) => info[rid[p]].toBeRemoved

\* Every handler returns: the waits for createOsAccountMutex_, the domain
\* mutex, accountInfoFileLock_ and the nested garbage collections end.
CallsReturn == \A p \in Proc : ~Idle(p) ~> Idle(p)

\* What a crash, a failed creation or an unfinished removal leaves behind is
\* collected: an id whose record is not live (or is missing from a listed id)
\* does not stay so.
GarbageCollected ==
    \A i \in Ids : (i \in acctList /\ ~Live(i)) ~> (i \notin acctList \/ Live(i))

=============================================================================
