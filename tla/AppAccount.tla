------------------------------ MODULE AppAccount ------------------------------
(***************************************************************************)
(* The app accounts of one user: AppAccountControlManager over one store,  *)
(* whose connection all the threads share.  An account is a record of the  *)
(* store (rec); which accounts an app may access is another value of it,   *)
(* "authorizedAccounts" (acl), and the record names these apps once more.  *)
(*                                                                         *)
(* A call of an app holds the AppAccountLock of its uid (uid).  Removing a *)
(* package and the account that an authenticator adds hold none, and an    *)
(* app that a token is visible to deletes it under its own lock.  Deleting *)
(* an account, changing the access to it and removing a package are        *)
(* transactions (tx holds the image that a rollback or a crash restores);  *)
(* the other writes are a read, a change and a write of the whole record   *)
(* and go over the same connection, so that they are part of whichever     *)
(* transaction is open.  A step ends where another thread can see or       *)
(* change something; a call that returns before it changed anything is no  *)
(* step.  SaveAccountInfo tests that the key is there before it writes:    *)
(* that test is taken into the read, since the record may go in between.   *)
(*                                                                         *)
(* Of the associated data one value is kept, of the tokens one.  Secrets   *)
(* in the asset store, extra information, the store that is synchronised   *)
(* with other devices and what is published to subscribers are left out.   *)
(*                                                                         *)
(* Faults: "start" and "commit" of a transaction, "put" of a record, "acl" *)
(* of the authorized accounts, "delete" and "load" of records, and three   *)
(* that are ignored: "sweep" of one account of a package, "list", the read *)
(* of the authorized accounts, and "get", the reads of a record that tell  *)
(* AddAccount that there is none.                                          *)
(***************************************************************************)
EXTENDS Integers, FiniteSets

CONSTANTS
    Thread,
    App,
    Account,    \* owner and name
    Owner,      \* the owner of every account
    Existing,   \* accounts of earlier starts of the service
    Calls,      \* the calls that are made, [op, acct, app]
    Data,       \* values of the associated data
    MaxAccounts, \* ACCOUNT_MAX_SIZE
    CacheMax,   \* ASSOCIATED_DATA_CACHE_MAX_SIZE
    Faults,     \* which steps may fail
    MaxCrashes, \* bound on the crashes of the service
    None        \* no record, no cache item, no holder, no transaction

Locked == {"create", "delete", "enable", "disable", "getdata", "setdata",
           "setinfo", "settoken", "deltoken", "setvisible", "sethidden"}
Operation == Locked \cup {"implicit", "uninstall"}

ASSUME AppAccountConstants ==
    /\ Owner \in [Account -> App] /\ Existing \subseteq Account
    /\ Calls \subseteq [op : Operation, acct : Account, app : App]
    /\ MaxAccounts \in Nat \ {0} /\ CacheMax \in Nat \ {0}
    /\ MaxCrashes \in Nat
    /\ Faults \subseteq {"start", "commit", "put", "acl", "delete", "load",
                         "sweep", "list", "get"}
    /\ None \notin Thread \cup App
    /\ Data # {}
    /\ \A x \in App :
           LET mine == {a \in Existing : Owner[a] = x}
           IN  IsFiniteSet(mine) /\ Cardinality(mine) <= MaxAccounts

\* AppAccountInfo: the apps that may access the account, its associated data,
\* its token (absent, only a list of who sees it, deleted or valid) and who
\* else sees the token.
Record == [apps : SUBSET App, data : Data, vis : SUBSET App,
           tok : {"none", "blank", "off", "on"}]
Item == [acct : Account, data : Data]
Transaction == [holder : Thread, acl : [App -> SUBSET Account],
                rec : [Account -> Record \cup {None}]]

ASSUME NoneIsNothing == None \notin Record \cup Item \cup Transaction

VARIABLES
    rec,    \* the record of every account
    acl,    \* authorizedAccounts: the accounts of every app
    tx,     \* the holder of transactionMutex_ and the image at its start
    cache,  \* associatedDataCache_
    uid,    \* holder of the AppAccountLock of every app
    datamx, \* holder of associatedDataMutex_
    tokmx,  \* holder of mutex_
    call,   \* the call of every thread
    lost,   \* cached accounts that were changed behind the cache (history)
    crashes

vars == <<rec, acl, tx, cache, uid, datamx, tokmx, call, lost, crashes>>

Idle == [pc |-> "idle", c |-> None, info |-> None, todo |-> {}]

\* The record of a new account with the associated data d.
Fresh(d) == [apps |-> {}, data |-> d, tok |-> "none", vis |-> {}]

Initial == CHOOSE d \in Data : TRUE

Init ==
    /\ rec = [a \in Account |-> IF a \in Existing THEN Fresh(Initial)
                                              ELSE None]
    /\ acl = [x \in App |-> {}]
    /\ tx = None
    /\ cache = [x \in App |-> None]
    /\ uid = [x \in App |-> None]
    /\ datamx = None /\ tokmx = None
    /\ call = [t \in Thread |-> Idle]
    /\ lost = {} /\ crashes = 0

-----------------------------------------------------------------------------
Of(x) == {a \in Account : Owner[a] = x /\ rec[a] # None}

\* TRUE, and FALSE too if the step may fail.
Outcome(kind) == {TRUE} \cup (IF kind \in Faults THEN {FALSE} ELSE {})

Cached(k, a) == k[Owner[a]] # None /\ k[Owner[a]].acct = a

\* The cache becomes k; the accounts S were changed behind it.
SetCache(k, S) ==
    /\ cache' = k
    /\ lost' = {a \in lost \cup S : Cached(k, a)}

\* The app whose lock call c takes: the owner, or the app that deletes a token
\* it may see.
Caller(c) == IF c.op = "deltoken" THEN c.app ELSE Owner[c.acct]

\* A dropped AppAccountLock.
AcquireNothing(t, c) == UNCHANGED uid

\* AppAccountLock, which the call holds until it returns.
Acquire(t, c) ==
    LET x == Caller(c)
    IN  IF c.op \in Locked
        THEN uid[x] = None /\ uid' = [uid EXCEPT ![x] = t]
        ELSE UNCHANGED uid

At(t, pc) == call[t].pc = pc
Goto(t, pc) == call' = [call EXCEPT ![t].pc = pc]
Enter(t, pc, c, info) ==
    call' = [call EXCEPT ![t] = [pc |-> pc, c |-> c, info |-> info,
                                 todo |-> {}]]
Return(t) ==
    /\ call' = [call EXCEPT ![t] = Idle]
    /\ uid' = [x \in App |-> IF uid[x] = t THEN None ELSE uid[x]]

-----------------------------------------------------------------------------
\* AddAccount, CreateAccount, and AddAccount for an authenticator: there is no
\* such account, and the owner has less than ACCOUNT_MAX_SIZE.  An account that
\* cannot be read is not there, and will be overwritten.
AddCheck(t, c) ==
    /\ c.op \in {"create", "implicit"}
    /\ rec[c.acct] = None \/ "get" \in Faults
    /\ Cardinality(Of(Owner[c.acct])) < MaxAccounts
    /\ Acquire(t, c)
    /\ \E d \in Data : Enter(t, "add", c, Fresh(d))
    /\ UNCHANGED <<rec, acl, tx, cache, datamx, tokmx, lost, crashes>>

AddPut(t) ==
    /\ At(t, "add")
    /\ \E ok \in Outcome("put") :
           rec' = IF ok THEN [rec EXCEPT ![call[t].c.acct] = call[t].info]
                        ELSE rec
    /\ Return(t)
    /\ UNCHANGED <<acl, tx, cache, datamx, tokmx, lost, crashes>>

-----------------------------------------------------------------------------
\* GetAssociatedData.  An item of another account goes, and so does one of
\* another app when the cache is full.
GetAssociatedData(t, c) ==
    LET a == c.acct
        x == Owner[a]
        mine == [cache EXCEPT ![x] = None]
        others == {y \in App : mine[y] # None}
        item == [acct |-> a, data |-> rec[a].data]
    IN  /\ c.op = "getdata" /\ uid[x] = None /\ datamx = None
        /\ ~Cached(cache, a)
        /\ IF rec[a] = None
           THEN SetCache(mine, {})
           ELSE IF Cardinality(others) < CacheMax
           THEN SetCache([mine EXCEPT ![x] = item], {})
           ELSE \E y \in others :
                    SetCache([mine EXCEPT ![x] = item, ![y] = None], {})
        /\ UNCHANGED <<rec, acl, tx, uid, datamx, tokmx, call, crashes>>

\* What the call makes of the record r; nothing when it is refused.
Changed(c, r) ==
    CASE c.op = "setinfo" -> {r}
      [] c.op = "setdata" -> {[r EXCEPT !.data = d] : d \in Data}
      [] c.op = "settoken" -> {[r EXCEPT !.tok = "on"]}
      [] c.op = "deltoken" ->
             IF \/ r.tok \in {"none", "blank"}
                \/ c.app \notin r.vis \cup {Owner[c.acct]}
             THEN {}
             ELSE {[r EXCEPT !.tok = "off"]}
                  \cup (IF c.app = Owner[c.acct] /\ r.tok = "on"
                        THEN {[r EXCEPT !.tok = "none", !.vis = {}]} ELSE {})
      [] c.op = "setvisible" ->
             {[r EXCEPT !.vis = @ \cup {c.app},
                        !.tok = IF @ = "none" THEN "blank" ELSE @]}
      [] c.op = "sethidden" -> {[r EXCEPT !.vis = @ \ {c.app}]}
      [] OTHER -> {}

TokenCall(c) == c.op \in {"settoken", "deltoken", "setvisible", "sethidden"}

\* The read of a call that reads, changes and writes a record: SetAssociated-
\* Data under associatedDataMutex_; SetOAuthToken, DeleteOAuthToken and
\* SetOAuthTokenVisibility under mutex_; the extra information, the flag of
\* the synchronisation and the credentials under neither.
ChangeLoad(t, c) ==
    LET a == c.acct
    IN  /\ rec[a] # None
        /\ Acquire(t, c)
        /\ IF c.op = "setdata" THEN datamx = None /\ datamx' = t
                               ELSE UNCHANGED datamx
        /\ IF TokenCall(c) THEN tokmx = None /\ tokmx' = t
                           ELSE UNCHANGED tokmx
        /\ \E r \in Changed(c, rec[a]) : Enter(t, "put", c, r)
        /\ UNCHANGED <<rec, acl, tx, cache, lost, crashes>>

\* SetAssociatedData that leaves the item in the cache alone.
ChangePutOnly(t) ==
    /\ At(t, "put")
    /\ rec' = [rec EXCEPT ![call[t].c.acct] = call[t].info]
    /\ datamx' = (IF datamx = t THEN None ELSE datamx)
    /\ tokmx' = (IF tokmx = t THEN None ELSE tokmx)
    /\ Return(t)
    /\ UNCHANGED <<acl, tx, cache, lost, crashes>>

\* The write, and the item of SetAssociatedData in the cache.
ChangePut(t) ==
    LET a == call[t].c.acct
        r == call[t].info
    IN  /\ At(t, "put")
        /\ \E ok \in Outcome("put") :
               IF ok
               THEN /\ rec' = [rec EXCEPT ![a] = r]
                    /\ IF call[t].c.op = "setdata" /\ Cached(cache, a)
                       THEN SetCache([cache EXCEPT ![Owner[a]].data = r.data],
                                     {})
                       ELSE UNCHANGED <<cache, lost>>
               ELSE UNCHANGED <<rec, cache, lost>>
        /\ datamx' = (IF datamx = t THEN None ELSE datamx)
        /\ tokmx' = (IF tokmx = t THEN None ELSE tokmx)
        /\ Return(t)
        /\ UNCHANGED <<acl, tx, crashes>>

-----------------------------------------------------------------------------
\* EnableAppAccess, DisableAppAccess and DeleteAccount read the record before
\* their transaction starts.
AccessLoad(t, c) ==
    LET r == rec[c.acct]
    IN  /\ c.op \in {"enable", "disable", "delete"}
        /\ r # None
        /\ Acquire(t, c)
        /\ Enter(t, "start", c,
                 CASE c.op = "enable" -> [r EXCEPT !.apps = @ \cup {c.app}]
                   [] c.op = "disable" -> [r EXCEPT !.apps = @ \ {c.app}]
                   [] OTHER -> None)
        /\ UNCHANGED <<rec, acl, tx, cache, datamx, tokmx, lost, crashes>>

\* OnPackageRemoved drops the items of the app first.
UninstallBegin(t, c) ==
    /\ c.op = "uninstall" /\ datamx = None
    /\ SetCache([cache EXCEPT ![Owner[c.acct]] = None], {})
    /\ Enter(t, "start", c, None)
    /\ UNCHANGED <<rec, acl, tx, uid, datamx, tokmx, crashes>>

\* StartDbTransaction.
StartDbTransaction(t) ==
    /\ At(t, "start") /\ tx = None
    /\ \E ok \in Outcome("start") :
           IF ok
           THEN /\ tx' = [holder |-> t, rec |-> rec, acl |-> acl]
                /\ Goto(t, IF call[t].c.op \in {"delete", "uninstall"}
                           THEN call[t].c.op ELSE "save")
                /\ UNCHANGED uid
           ELSE UNCHANGED tx /\ Return(t)
    /\ UNCHANGED <<rec, acl, cache, datamx, tokmx, lost, crashes>>

\* The store is what it was when the transaction started, the writes that
\* other calls made meanwhile included.
Restore ==
    /\ rec' = tx.rec /\ acl' = tx.acl /\ tx' = None

\* A transaction that is abandoned without a rollback.
RollbackNothing(t) ==
    /\ tx' = None
    /\ Return(t)
    /\ UNCHANGED <<rec, acl, cache, lost>>

\* The destructor of the transaction, when a call returns without a commit.
Rollback(t) ==
    /\ Restore
    /\ SetCache(cache, {a \in Account : rec[a] # tx.rec[a]})
    /\ Return(t)

\* The record of EnableAppAccess and DisableAppAccess.
AccessSave(t) ==
    /\ At(t, "save")
    /\ \E ok \in Outcome("put") :
           IF ok
           THEN /\ rec' = [rec EXCEPT ![call[t].c.acct] = call[t].info]
                /\ Goto(t, "acl")
                /\ UNCHANGED <<acl, tx, cache, lost, uid>>
           ELSE Rollback(t)
    /\ UNCHANGED <<datamx, tokmx, crashes>>

\* What a read of authorizedAccounts gives: an error is only logged, and the
\* value is then built anew from nothing.
ReadLists == {acl} \cup {[x \in App |-> {}] : f \in Faults \cap {"list"}}

\* SaveAuthorizedAccount, and RemoveAuthorizedAccount for DisableAppAccess.
AccessAuthorize(t) ==
    LET c == call[t].c
    IN  /\ At(t, "acl")
        /\ \E ok \in Outcome("acl"), lists \in ReadLists :
               IF ok
               THEN /\ acl' = [lists EXCEPT ![c.app] =
                                   IF c.op = "enable" THEN @ \cup {c.acct}
                                                      ELSE @ \ {c.acct}]
                    /\ Goto(t, "commit")
                    /\ UNCHANGED <<rec, tx, cache, lost, uid>>
               ELSE Rollback(t)
        /\ UNCHANGED <<datamx, tokmx, crashes>>

\* DeleteAccountInfoFromDataStorage reads the record again.
DeleteRecord(t) ==
    LET a == call[t].c.acct
    IN  /\ At(t, "delete")
        /\ \E ok \in Outcome("delete") :
               IF ok /\ rec[a] # None
               THEN /\ rec' = [rec EXCEPT ![a] = None]
                    /\ call' = [call EXCEPT ![t].pc = "uncache",
                                            ![t].todo = rec[a].apps]
                    /\ UNCHANGED <<acl, tx, cache, lost, uid>>
               ELSE Rollback(t)
        /\ UNCHANGED <<datamx, tokmx, crashes>>

\* RemoveAssociatedDataCacheByAccount.
DeleteCache(t) ==
    LET a == call[t].c.acct
    IN  /\ At(t, "uncache") /\ datamx = None
        /\ SetCache([cache EXCEPT ![Owner[a]] =
                         IF Cached(cache, a) THEN None ELSE @], {})
        /\ Goto(t, IF call[t].todo = {} THEN "commit" ELSE "unauthorize")
        /\ UNCHANGED <<rec, acl, tx, uid, datamx, tokmx, crashes>>

\* RemoveAuthorizedAccount for every app of the record.
DeleteAuthorized(t) ==
    LET a == call[t].c.acct
    IN  /\ At(t, "unauthorize")
        /\ \E x \in call[t].todo, ok \in Outcome("acl"), lists \in ReadLists :
               IF ok
               THEN /\ acl' = [lists EXCEPT ![x] = @ \ {a}]
                    /\ call' = [call EXCEPT
                                  ![t].todo = @ \ {x},
                                  ![t].pc = IF call[t].todo = {x}
                                            THEN "commit" ELSE @]
                    /\ UNCHANGED <<rec, tx, cache, lost, uid>>
               ELSE Rollback(t)
        /\ UNCHANGED <<datamx, tokmx, crashes>>

\* RemoveAppAccountDataFromDataStorage: all the records of the owner are
\* loaded ...
UninstallLoad(t) ==
    LET mine == Of(Owner[call[t].c.acct])
    IN  /\ At(t, "uninstall")
        /\ \E ok \in Outcome("load") :
               IF ok
               THEN /\ call' = [call EXCEPT
                                  ![t].pc = IF mine = {} THEN "commit"
                                            ELSE "sweep",
                                  ![t].info = [a \in mine |-> rec[a].apps],
                                  ![t].todo = mine]
                    /\ UNCHANGED <<rec, acl, tx, cache, lost, uid>>
               ELSE Rollback(t)
        /\ UNCHANGED <<datamx, tokmx, crashes>>

\* ... and each is taken from the apps that may access it and deleted; an
\* error of either is ignored.
UninstallSweep(t) ==
    /\ At(t, "sweep")
    /\ \E a \in call[t].todo, unlisted, deleted \in Outcome("sweep"),
          lists \in ReadLists :
           /\ acl' = [x \in App |->
                        IF ~unlisted \/ call[t].info[a] = {} THEN acl[x]
                        ELSE IF x \in call[t].info[a] THEN lists[x] \ {a}
                        ELSE lists[x]]
           /\ rec' = IF deleted THEN [rec EXCEPT ![a] = None] ELSE rec
           /\ SetCache(cache, IF deleted THEN {a} ELSE {})
           /\ call' = [call EXCEPT ![t].todo = @ \ {a},
                                   ![t].pc = IF call[t].todo = {a}
                                             THEN "commit" ELSE @]
    /\ UNCHANGED <<tx, uid, datamx, tokmx, crashes>>

\* CommitDbTransaction, or else the rollback.
CommitDbTransaction(t) ==
    /\ At(t, "commit")
    /\ \E ok \in Outcome("commit") :
           IF ok
           THEN tx' = None /\ Return(t) /\ UNCHANGED <<rec, acl, cache, lost>>
           ELSE Rollback(t)
    /\ UNCHANGED <<datamx, tokmx, crashes>>

-----------------------------------------------------------------------------
\* The service starts again: an open transaction is not in the database.
Crash ==
    /\ crashes < MaxCrashes
    /\ crashes' = crashes + 1
    /\ IF tx = None THEN UNCHANGED <<rec, acl, tx>> ELSE Restore
    /\ SetCache([x \in App |-> None], {})
    /\ uid' = [x \in App |-> None]
    /\ datamx' = None /\ tokmx' = None
    /\ call' = [t \in Thread |-> Idle]

Begin(t) ==
    \E c \in Calls :
        /\ At(t, "idle")
        /\ \/ AddCheck(t, c)
           \/ GetAssociatedData(t, c)
           \/ ChangeLoad(t, c)
           \/ AccessLoad(t, c)
           \/ UninstallBegin(t, c)

Step(t) ==
    \/ AddPut(t)
    \/ ChangePut(t)
    \/ StartDbTransaction(t)
    \/ AccessSave(t)
    \/ AccessAuthorize(t)
    \/ DeleteRecord(t)
    \/ DeleteCache(t)
    \/ DeleteAuthorized(t)
    \/ UninstallLoad(t)
    \/ UninstallSweep(t)
    \/ CommitDbTransaction(t)

Next == Crash \/ \E t \in Thread : Begin(t) \/ Step(t)

Spec == Init /\ [][Next]_vars

-----------------------------------------------------------------------------
TypeOK ==
    /\ rec \in [Account -> Record \cup {None}]
    /\ acl \in [App -> SUBSET Account]
    /\ tx \in Transaction \cup {None}
    /\ cache \in [App -> Item \cup {None}]
    /\ uid \in [App -> Thread \cup {None}]
    /\ datamx \in Thread \cup {None} /\ tokmx \in Thread \cup {None}
    /\ lost \subseteq Account /\ crashes \in 0..MaxCrashes

\* The two places that say which app may access which account agree whenever
\* no transaction is open: whichever write or commit failed, and whatever was
\* rolled back or cut off by a crash, an account that is gone is in no list of
\* authorized accounts, and a record names exactly the apps that list it
\* (EnableAppAccess, DisableAppAccess, DeleteAccount and the removal of a
\* package).  The errors that the code ignores are not among the faults
\* (AccessGuarded).
AccessAgrees ==
    tx = None =>
        \A a \in Account, x \in App :
            a \in acl[x] <=> rec[a] # None /\ x \in rec[a].apps

\* What GetAssociatedData answers from the cache is in the record, once no
\* call of the app is under way; the accounts that a rollback of another call
\* or the removal of the package changed behind the cache are the exceptions.
CacheFresh ==
    \A x \in App :
        LET a == cache[x].acct
        IN  cache[x] # None /\ uid[x] = None /\ a \notin lost
            => rec[a] # None /\ rec[a].data = cache[x].data

\* No app has more than ACCOUNT_MAX_SIZE accounts: the count and the write of
\* AddAccount are separate, and the lock of the uid keeps them together.
AccountQuota == \A x \in App : Cardinality(Of(x)) <= MaxAccounts
-----------------------------------------------------------------------------
(***************************************************************************)
(* On which calls the three properties depend.  The AppAccountLock is that *)
(* of the calling app and not that of the owner of the account, and the    *)
(* additions of authenticators and the removal of a package take none at   *)
(* all: a call that has read a record may write it back over what such a   *)
(* call has changed since.                                                 *)
(***************************************************************************)
\* The calls for account a; the calls that hold the lock of its owner.
On(a) == {c \in Calls : c.acct = a}
Held(c) == c.op \in Locked /\ Caller(c) = Owner[c.acct]

AccessOps == {"enable", "disable"}

\* Accounts to which nobody is given access; those that only calls with the
\* lock of the owner change; those that may be removed with their package, and
\* to which only app x is given access.
Private(a) == \A c \in On(a) : c.op # "enable"
Guarded(a) ==
    /\ \A c \in On(a) : Held(c)
    /\ \A c \in Calls : c.op = "uninstall" => Owner[c.acct] # Owner[a]
Single(a, x) ==
    \A c \in On(a) :
        /\ c.op \in AccessOps \cup {"delete", "getdata", "uninstall"}
        /\ c.op \in AccessOps => c.app = x

\* AccessAgrees needs every account to be one of these, and none of the errors
\* that are ignored: the removal of a package goes on, and commits, when a list
\* cannot be written, a list that cannot be read is written anew, and so is a
\* record.
AccessGuarded ==
    /\ {"sweep", "list", "get"} \cap Faults = {}
    /\ \A a \in Account : Private(a) \/ Guarded(a) \/ \E x \in App : Single(a, x)

\* CacheFresh needs the accounts whose data GetAssociatedData asks for to be
\* changed with the lock of the owner, but for the removal of the package, and
\* not to be added again when they cannot be read.
Watched(a) == \E c \in On(a) : c.op = "getdata"
CacheGuarded ==
    /\ "get" \notin Faults
    /\ \A a \in Account : Watched(a) => \A c \in On(a) : Held(c) \/ c.op = "uninstall"

\* AccountQuota needs every app to create no accounts, to do all with its
\* lock, or to have no more names for accounts than the limit.
Small(S) == IsFiniteSet(S) /\ Cardinality(S) <= MaxAccounts
Fixed(x) == \A c \in Calls : Owner[c.acct] = x => c.op \notin {"create", "implicit"}
Orderly(x) == \A c \in Calls : Owner[c.acct] = x => Held(c)
Bounded(x) == Small({a \in Account : Owner[a] = x})
QuotaGuarded == \A x \in App : Fixed(x) \/ Orderly(x) \/ Bounded(x)
=============================================================================
