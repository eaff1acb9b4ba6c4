# A verification project for the OS account service

The repository is the account subsystem of OpenHarmony: system ability 200
(`src/services/accountmgr`), its client libraries and a shell tool. This
directory holds TLA+ modules translated from the service's code, the TLC
configurations that check them on small instances, and proofs that TLAPS checks.
`PROJECT.json` lists components, runs, mutants, the source lines of every
definition, the disagreements found, the hazards and the theorems.

    tlc -workers 2 -config Lifecycle_calls.cfg MCOsAccountLifecycle
    tlapm OsAccountLifecycle_proof.tla

## 1. The system and its parts

The service is one process with a pool of binder threads, some detached worker
threads and a few event runners. Nearly all of its state is in singletons
guarded by mutexes of their own, in JSON files or databases, and in other
services (TEE, storage manager, bundle manager, ability manager, user IAM,
kernel). There is no transaction over these: what follows from a crash, from an
error in the middle, or from two threads between two mutexes is the subject of
this project.

| Component | State | Operations | Hard because | Module |
|---|---|---|---|---|
| OS account lifecycle (`inner_os_account_manager.cpp`, `os_account_control_file_manager.cpp`) | `account_list.json`, one `account_info.json` for each account, base constraints; `operatingId_`; user data in TEE, storage and bundle manager | create, create with a chosen id or for a domain account, roll back, remove, clean garbage, plain updates | seven effects in five places, each may fail, the service may die between any two; the collector runs inside a creation | `OsAccountLifecycle` |
| OS account activation (the same file, `os_account_interface.cpp`) | active list, foreground map, verified, logged-in, deactivating and locking accounts, one update lock for each account | activate, switch, deactivate, lock, unlock after an authentication | tables with separate mutexes, calls to the ability manager between them, nested update locks | `OsAccountActivation` |
| Privilege authorization (`authorization_manager/`) | `processPrivilegeMap_`, `privilege_cache.json`, privileges in the kernel; sessions with the extension that asks the user | acquire, check, release, expire, reload; start, close and time out a session | file, kernel and file again; times and pids that do not survive a reboot while the file does | `PrivilegeCache` (not the sessions) |
| Sub-profiles and distributed accounts (`distributed_account/`, `ohos_account_manager.cpp`, `account_state_machine.cpp`) | `subprofile_info.json`, a directory and `account.json` for each sub-profile, the foreground sub-profile; the state UNBOUND, LOGIN, NOTLOGIN, TOKEN_EXPIRED, LOGOFF of each account | create, remove, switch, clean up; log in, out and off, token expiry, package removal | two mutexes that overlap in part, a file that is loaded under one and saved under the other | `SubProfile`, `DistributedBinding` |
| App accounts (`appaccount/app_account_control_manager.cpp`) | a store for each user, `associatedDataCache_` | add, delete, give access, set data and tokens, remove a package | transactions and plain writes share one connection; a cache beside the store | `AppAccount` |
| Authenticator sessions (`appaccount/app_account_authenticator_session*.cpp`, `app_account_check_labels_*.cpp`) | `sessionMap_`, at most 256 sessions | open, answer, redirect, close; select accounts by labels | answer, redirection and death of either side are handled by threads in any order | `AuthenticatorSession` |
| Account authentication (`account_iam/`) | `credentialId` and `iam_fault` of each user, `userLocks_`; the PIN in the user IDM, the key in the storage manager | add, update and delete a PIN, authenticate, repair, unlock | a change of three places that a crash or a refusal may split | `CredentialKeys` |
| State subscriptions (`os_account_subscribe_manager.cpp`, client side `os_account.cpp`, `os_account_event_listener.cpp`) | `subscribeRecords_`, `switchRecordMap_`, replies; `listenerManager_` and `subscriberAll_` of each client | subscribe, unsubscribe, publish, publish and wait for replies, restore after a restart | order of states, reply against timeout against death, threads that end by themselves | `StatePublication` |
| Domain accounts (`domain_account/`) | `plugin_`, tokens, contexts, listeners; the binding in the record, in the plugin and in the file of an unfinished binding | register a plugin, authenticate, bind, recover, update | two places without a transaction, recoveries of several threads at the same time | `DomainBinding` (binding and recovery) |
| Account list file, constraints | ids, serial numbers, default accounts; constraints with their owners | read, change, rewrite | readers use old copies | not modelled |
| Files and watcher, backup and restore | a digest for each file, copies of the account files | write with digest, recover | own writes against foreign ones | not modelled |
| The rest | service start, permission checks, databases, adapters, client libraries, tools | | stateless, or pure I/O | not modelled |

How they interact: a creation calls the constraints file, TEE, storage and
bundle manager, and the garbage collector; a domain account is made by a
callback of the plugin; an activation calls the storage manager, the ability
manager, whose callback fills the active list, and publishes states to the
subscribers, for some of which it waits; an authentication repairs and opens the
key of an account and enters it into the verified ones; a removal stops the
account first, logs its distributed account out and lets the plugin forget its
domain account. Creation, binding, removal and activation exclude each other by
the marks in `operatingId_`. At its start the service collects half-removed
accounts and recovers unfinished bindings while it already serves calls.

What makes a component correct:

* lifecycle: no user data that no record points to; an account that callers can
  see is whole; an id is worked on by one thread; what a crash or an error
  leaves behind is collected; the quotas hold; every return gives back what it
  holds;
* activation: the account on a display is active and on that display only; a
  deactivated account is gone from every table; the locks have no cycle;
* privileges: no expired or foreign grant is honoured; what the file calls
  authorized is so in the kernel; a grant that was acknowledged survives a
  restart, and one that was released does not come back;
* sub-profiles: the context stays consistent; a distributed account is bound to
  one sub-profile, and a binding is never exchanged;
* app accounts: the record and the lists of access agree, the cache is fresh;
* authenticator sessions: a request is answered once, what was connected is
  released, no session stays without a reason;
* authentication: some secret that the user has opens the files, always;
* subscriptions: who has subscribed is recorded, states arrive in order, when a
  publication is answered with success the subscribers it waits for are done;
* domain bindings: record and plugin agree, a domain account is bound once.

## 2. Plan

Done, in this order: `OsAccountLifecycle` with its proofs, `OsAccountActivation`,
`PrivilegeCache`, `DistributedBinding` and `SubProfile`, `AppAccount`,
`AuthenticatorSession`, `CredentialKeys`, `StatePublication`, `DomainBinding`. Each
component has one module `X`, one module `MCX` with its instance for TLC, and one
or more configurations.

The modules are not composed into one: they share the marks in `operatingId_` and
the record of an account, and each has what it needs of these. `DomainBinding`
repeats the removal of `OsAccountLifecycle` as far as bindings go, and
`OsAccountActivation` has an authentication as the one callback that
`CredentialKeys` shows in detail.

The theorems of a component are in a module `X_proof`. Two components share one: the
sessions are a part of the app accounts, and their theorems are in `AppAccount_proof`,
which extends both modules (hence the names `SessionSpec`, `SessionInit`, `SessionTypeOK`
and so on in `AuthenticatorSession`); the promise of `DistributedBinding` is proved in
`SubProfile_proof`, for the instance that `SubProfile` implements.

## 3. OsAccountLifecycle

State: the variables in `disk` are the files of `OsAccountControlFileManager`,
those in `services` the data in TEE, storage and bundle manager; they survive a
crash. `operating` is `operatingId_`; `createMutex`, `bindMutex` and `fileLock`
are the mutexes that are held over several steps. Each thread has two program
counters. `cpc` runs a creation (or a setter), `rpc` a removal or the collector,
because a creation calls `CleanGarbageOsAccounts` at four places and waits. A
step is what lies between two effects that a crash, an error or another thread
can separate: `InsertOsAccount` writes the list and `InsertOsAccountInfo` the
record, `OperateDelInfo` removes the record and `OperateDelList` the entry, and
so on; the action names are those of the functions.

Kept: every early return, the order of the effects, the rollback levels of
`RollbackOsAccount`, the mark that a failed creation removes though it does not
own it, the collector that skips marked ids, an id list that cannot be read
counting as empty in the quota. A service that refuses has done nothing, or, with the
fault "lost", has done what it was asked while its answer did not arrive (`Refused`):
the code tries again after an IPC error and then rolls back without asking that
service to delete anything.

Abstracted: names, photos, serial numbers and constraints' contents; local id
`i` is `START_USER_ID + i`; the base account is always there and counted by hand;
`NORMAL` stands for every type without a quota. A crash loses everything but
`disk` and `services`.

Left out: `CreateOsAccountWithFullInfo`, `SetOsAccountType`, the base accounts
made at boot, callers that are system abilities (they skip the quota), the
option that keeps the user's data, and lost updates of the account list (the
steps that rewrite it are atomic). Without `IdReuse` the allocator does not wrap
around, which on a device takes thousands of creations.

| Run | Bounds | Checks |
|---|---|---|
| `lifecycle_two_ids` | 2 threads create, remove and clean 2 ids, every fault but "lost", 1 crash | `NoOrphanData`, `ExclusiveOperation`, `LiveHasData`, `RemoveFlagKept`, `PrivateQuota` |
| `lifecycle_calls` | 2 threads, 1 id: chosen and reused ids, domain accounts, setters, marks, activation, a bundle manager that refuses or whose answer is lost | `TypeOK`, `NothingHeldWhenIdle` |
| `lifecycle_live` | 2 threads, 2 ids, quota 2, 2 crashes | `AccountQuota`, `GarbageCollected`, `CallsReturn` |

Two threads are enough for every pair of operations to meet, one id for all of
them to meet on the same account; a second id is needed where the list changes
under the collector and for the quotas. Two crashes let the collector die too.

Fairness (`FairSpec`): a thread inside a handler keeps running, a `std::mutex`
released again and again is obtained at last, the services answer: strong
fairness of every thread's steps. The collector is started again and again by
one thread: `SetOsAccountIsVerified` runs it whenever an account is unlocked. Nothing is
assumed about callers.

Met while modelling, described under "hazards" where no text of the repository
claims the opposite: when the answer of storage or bundle manager to a creation is
lost, the rollback leaves the data there and deletes the record (so `NoOrphanData` is
checked and proved without "lost"); a setter may write back a record without the
to-be-removed flag (so `RemoveFlagKept` is checked without setters; that
setters do not hurt `NoOrphanData` and `ExclusiveOperation` is part of the
theorems); a creation with a chosen id that fails removes the mark of another
thread (so `ExclusiveOperation` is checked and proved without chosen ids); the
failure of a domain binding, in `HandleUnbindDomainAccountFailed`, deletes the
record whatever data is left (so `NoOrphanData` excludes domain accounts); a
creation and the creation for a domain account count the private accounts under
different mutexes and pass together (so `PrivateQuota` is checked for local
accounts; `typeNumberMutex_` of the header is locked by nobody);
`SetOsAccountToBeRemoved(false)` revives an account whose removal failed
half-way.

## 4. What is proved of it

`OsAccountLifecycle_proof` proves, for every set of threads, every number of ids,
every quota, every set of faults and every number of crashes:

* `TypeCorrect`: `Spec => []TypeOK`, without further hypotheses. Ids and
  `NEXT_LOCAL_ID` stay in range even when the allocator wraps around or the list
  is full. The invariant is `TypeInv`: `TypeOK` with `Nesting` (which program
  counter waits for which) and `Bound` (a working thread has a real id).
* `DataNeverOrphaned`: `Spec => []NoOrphanData` and `OperationsExclusive`:
  `Spec => []ExclusiveOperation`, both under `NoReuse` (no wrap-around, no
  chosen id, no domain account), the first also under `Answered` (no answer is
  lost). `NoReuse` cannot be weakened in these
  terms: with any one of the three allowed, two threads, two ids and file and
  storage errors, TLC refutes both formulas.

  Neither is inductive alone. A deletion of a record orphans nothing only if the
  thread has deleted the data before (`RemoveData`, `CreateData`: what each program
  counter knows of the services), which stays true only while no other thread
  works on the id (`RemoverExclusion`, `CreatorExclusion`, `FlagExclusion`), which
  rests on the marks (`MarkHeld`), and for creations on ids being new (`Fresh`,
  `CreatorId`, with `OneCreator` for `createOsAccountMutex_`). `IInv` is the
  conjunction; there is one lemma for each action, and `IInvStep` puts them
  together. `NextLocalIdType` and `NextLocalIdFresh` are the facts about the
  allocator.
* `NothingStaysHeld`: `Spec => []NothingHeldWhenIdle`, without further hypotheses:
  chosen and reused ids and domain accounts are included. The invariant `HeldInv`
  says that a mark or a mutex belongs to a thread at one of the places that hold
  it (`MarkOwned`, `LockOwned`); it does not say that the thread is the only one.
* `RemovalIsFinal`: `Spec => []RemoveFlagKept`, under `NoReuse` and `NoSetters`. A
  thread that is about to write a record holds the mark of its id (`UpdatesMark`),
  and `IInv` keeps two threads from working on it (`WorkApart`).
* `LiveAccountsAreWhole`: `Spec => []LiveHasData`, and `OnePrivateAccount`:
  `Spec => []PrivateQuota`, under `NoReuse` and `NoRevival`. A record is complete
  only when its creator has put the data everywhere (`CreatorsRecord`), and a removal
  that has deleted some of the data leaves a flagged record (`RemovedIsDead`).
* `QuotaKept`: `Spec => []AccountQuota`, under `NoReuse` and `ListReadable`. The
  invariant is `RoomKept`: from its check on, the thread with `createOsAccountMutex_`
  has room for one account, whatever the collector and the removals do.

The hypotheses are about the calls and faults of an instance, and each names
something that does break the property. `NoSetters`: no setter writes back an old
record. `NoRevival`: besides that, nobody calls `SetOsAccountToBeRemoved(false)`,
which makes a half-removed account visible again. `ListReadable`: an account list
that cannot be read counts as empty, and then the quota check passes. The runs of
section 3 satisfy the hypotheses of the properties they check.

What stays with TLC is liveness (`GarbageCollected`, `CallsReturn`).

## 5. OsAccountActivation

State: `activeAccountId` (a sequence: duplicates occur), `foregroundAccountMap`,
the sets of verified, logged-in, deactivating and locking accounts, `el2` (what
the storage manager has decrypted), the marks, and the owner of each update
lock. `apc` runs `ActivateOsAccount`, `LockOsAccount` or the callback of an
authentication, `dpc` runs `DeactivateOsAccount`, by itself or for the account
that leaves the foreground. `build`, chosen at the start, says how the service was
built and what the threads do: several or one active account, which thread
switches which display, locks, deactivates or authenticates, and what may fail.
Each call to the ability manager, the storage manager or the activation-lock
plugin is a step of its own.

The accounts exist throughout; a fault "read" stands for every reason to refuse
one. Left out: activation in the background and at boot,
`RestoreAllForegroundAccounts`, the stop that precedes a removal,
`DeactivateAllOsAccounts`, the builds that can stop the main account or remember
the last one logged in, and the published events.

| Run | Bounds | Checks |
|---|---|---|
| `activation_displays` | 2 threads, 3 accounts (one with a credential); either 2 displays, several active accounts, locks and deactivations, errors of storage, stop and plugin, or 1 display, one active account, deactivations beside an authentication, errors of reading and writing the record, ability manager, stop and unlocking | `ForegroundIsActive`, `OneDisplay`, `DeactivatedIsGone`, `OneOperation`, `VerifiedIsDecrypted`, `NothingLeftWhenIdle`, `CallsReturn` |
| `activation_deadlock` | 2 threads switch one display between 2 accounts | `NoLockCycle` is violated |

Three accounts make a switch have an account that is neither old nor new; the
active list is bounded by three entries (`MaxListed`), enough for duplicates.
In `activation_displays` each thread switches a display of its own: when two
threads switch the same one, `activation_deadlock` shows that each may hold the
update lock of its new account and wait for that of its old one, a case for
which the "Standard lock order to avoid deadlock: Global Lock -> Local Lock" of
the code has no place. Fairness is as above; it includes the callback of the
ability manager, which the code waits for without a timeout.

`VerifiedIsDecrypted` is about the builds with several active accounts, whose
threads do not authenticate here: the callback of an authentication beside a lock
or a deactivation leaves an account verified and encrypted. Known besides: the
limit of logged-in accounts is checked long before the account is counted; the
storage may be decrypted during a deactivation (the look at the deactivating
accounts is stale); a non-default display appends the account to the active list
at every activation.

Proved, for any threads, accounts, displays, builds and faults
(`OsAccountActivation_proof`): `OnOneDisplay`, `OneThreadPerAccount`, `NothingStays`
without hypotheses; `ShownAccountsAreActive` and `DeactivatedStaysGone` under
`Several`; `VerifiedStaysDecrypted` under `NobodyAuthenticates`, which is the
restriction just named. The invariant says which place of a thread holds the mark
and the update lock of which account (`Marks`, `Busy`), what a thread that leaves an
account has already taken off the tables (`Gone`), and which account a switch will
show (`Places`, `Shows`).

`Several` (every build has `ENABLE_MULTIPLE_ACTIVE_ACCOUNTS`) is needed. With one
active account the list is replaced before the map: a deactivation beside another
thread's switch may report success while the map still names the account, and two
threads that switch may end with an account on the display that is not the active
one. In the single-account build of `activation_displays` only one thread switches,
and there TLC finds no violation; that case is checked, not proved.

`Without` removes an element from the active list by its positions, as
`EraseIdFromActiveList` does with its iterator: the provers know nothing of
`SelectSeq`.

## 6. PrivilegeCache

State: `rec`, `cinc` and `watch` are `processPrivilegeMap_` (records, start times,
death recipients), `file` is `privilege_cache.json` with its update time, `kernel`
what the kernel knows, `clock` the uptime, `alive` and `inc` the processes and
their start times in ticks since boot. Three history variables: `told`, what the
last call answered the process, and `life` and `own`, which number the processes
of a pid and say to which of them the records in memory and in the file belong; no
action of the service looks at them. `mapMutex_` makes every call one step, but for
`AddCacheAndNotifyKernel`, whose three effects a crash may separate (`flight`).
`CheckPrivilege` only reads and is an operator: the answer of the cache. When it
denies, the code still asks the kernel for an ACL level; that answer does not
depend on this component's state and is left out.

`Timeout`, `Offset` and `Latency` are the validity of a grant,
`EXPIRED_TIME_OFFSET` and the time from the grant of the TEE to its entry in the
cache; `OffsetCoversLatency` is the assumption under which the cached expiry may
be trusted far from its end. Faults are errors of the write, of the uptime, of
the kernel; see the module's header. Crashes take a tick, so that a file is older
than the start that reads it.

The code takes pid and start time for the identity of a process, and that can go
wrong in two ways (`reuse` of a world). With "pid", a pid is given to a new process
while the map still has the old one: an entry is found by its pid alone, and a
process that was loaded from the file has no death recipient, so the new process
gets its records. With "tick", a process starts after a reboot in the same tick as
one with its pid in an earlier boot; then only `CheckUpdateTimeValid` tells the file
of the earlier boot, and only if its stamp is not earlier than the first start of
the service (`Boots`, `Ready`), is not 0 because the uptime could not be read, and
the file can be read and deleted. `Identified` says that a world has no "pid" reuse
and, if it has "tick" reuse, these conditions. `RecordsAreOwn` fails outside it.

| Run | Bounds | Checks |
|---|---|---|
| `privilege_cache` | 1 pid, 2 processes in turn, a timed and a kernel privilege, 2 crashes or reboots, 5 ticks; a world with failing uptimes and one with "tick" reuse | `GrantedIsValid`, `AuthorizedIsConfirmed`, `RecordsAreOwn`, `KernelGrantKept`, `ReleasedStaysReleased` |

Five ticks let a grant (validity 2, offset 1) expire, be cleaned and be acquired
again; two stops let a service die during the recovery from a first crash, or
reboot after one. The properties relate a process to its own records and to those
of an earlier process with its pid, so the run has one pid with two processes in
turn. It ends when the clock, the processes and the stops
are used up, hence no deadlock check.

A grant of a time-limited privilege whose file cannot be written is answered with
success and gone after a restart; `KernelGrantKept` speaks of the other privileges,
and of the last acquisition: the record of a new one takes the place of an
AUTHORIZED record and is removed when the write or the kernel fails, so that a
failed re-acquisition takes away what the process had, while the kernel keeps it
(`told` is then "refused").
When the file cannot be read at the start (or not be deleted), a later release
succeeds without touching it, and the next start reloads the record:
`ReleasedStaysReleased` fails with the fault "load". When the uptime cannot be
read the file is stamped with 0. `RemoveUser` has no caller and is left out. The
TEE is modelled from the software adapter that the repository contains.

Proved, for any processes, privileges, times, faults, crashes and reboots
(`PrivilegeCache_proof`): `TypeCorrect` and `GrantsAreValid` without hypotheses
beyond `OffsetCoversLatency`, in worlds with every kind of reuse;
`AuthorizationsAreConfirmed` and `OwnRecords` under `Identified`; `KernelGrantsStay`
also if the file can be read at the start, `ReleasesStay` if it can be read and
deleted (the exceptions named above). In the invariant, `Own` relates start times
and owners and `Dated` says that a file of an earlier boot is at least as late as
the first start of the service. It looks at every process and privilege (`Cells`): what memory, file and
kernel may say of it in each phase of the call in flight (`InFlight`), and what the
next start would make of the file.

## 7. SubProfile and DistributedBinding

`SubProfile` is `OsAccountSubProfileManager` and, in the build with sub-profiles,
the logins of `OhosAccountManager`. `ctx` is `subprofile_info.json`, `files` the
directories with their `account.json`, `op` and `mgr` the two mutexes, `fg` and
`rt` the foreground sub-profile in the file and in memory. A thread's call is a
record with its place; the actions carry the names of the functions. Creation
reclaims an index, writes the context, makes the directory and rolls back; a
removal goes the other way round; a login loads a file under `mgrMutex_`, looks at
the other sub-profiles and saves under `subProfileOpMutex_`.

`DistributedBinding` is the abstract specification: sub-profiles, accounts, and
two actions, `Bind` and `Unbind`. The refinement mapping takes a sub-profile to the
account of its file, if the sub-profile is valid to a query, and to no account
otherwise. `BindingRefined` says that every step of `SubProfile`, the crash
included, is a step of `DistributedBinding` or leaves it alone: an account is
never bound twice, and a binding never becomes another one without an unbinding.

| Run | Bounds | Checks |
|---|---|---|
| `subprofile_binding` | 2 threads, 2 accounts, 1 application, 2 ids, errors of the context (not read, not written, not JSON), save and deletion, 1 crash | `ContextConsistent`, `BindingRefined` |

Two sub-profiles and two accounts are what an exchange or a double binding needs.
`BoundOnce` in `SubProfile_proof` says, for any sets, that whatever implements the
specification keeps an account in one sub-profile.

`SubProfile_proof` proves, for any threads, sub-profiles and accounts, `TypeCorrect` and
`ContextStaysConsistent` without hypotheses, and under `Scanned` the refinement
`BindingImplemented` (`Spec => BindingRefined`) and with it `OneSubProfilePerAccount`.
`Scanned` excludes the fault "scan": `ScanOsAccountSubProfileIds` leaves out a
sub-profile whose file it cannot load and reports no error, and with this fault TLC
finds an account bound twice in a dozen steps. The refinement needs
to know what a login has seen: a thread that looks at the other sub-profiles holds
`subProfileOpMutex_` (`Holds`), those it has passed are not bound to its account, and
nobody binds one meanwhile (`Sees`, `Once`). Facts about the context (the least free
index, room for one more, an allocation, a deletion) are lemmas of their own.

What the model has and no property forbids: a file that was loaded before a
removal is saved after it, so that a removed sub-profile comes back, valid and
unlisted; a context that cannot be read is taken for missing, while one that is no
JSON is an error ("parse"). Left out: the build
with one distributed account for each user, its data file, the subscribers.

## 8. AppAccount

`rec` are the records of one store, `acl` the accounts each app may access, `tx` the
open transaction with the image that a rollback restores, `cache` the associated
data, `uid`, `datamx` and `tokmx` the locks. Plain writes go over the connection that
a transaction of another thread may have open, and share its fate. `Calls` is the
set of calls that are made.

| Run | Bounds | Checks |
|---|---|---|
| `app_accounts` | 2 threads, 3 apps, 4 accounts, at most 1 account for each app, a cache of one entry, errors of commits and access lists, 1 crash | `AccessAgrees`, `CacheFresh`, `AccountQuota` |

App A does everything with its accounts, app B is uninstalled, an authenticator
adds the account of app C: a call of each kind of locking beside each other. Out of
the mix are the cases in which the properties fail; they are named below. `setvisible`
and `sethidden` have the shape of `setinfo` and are not called. `lost` excepts from
`CacheFresh` what a rollback or the removal of the package changed behind the cache. Left
out: the asset store, the synchronised store, subscribers, clones of an app, migration.

Proved, for any threads, apps, accounts, limits, faults and crashes (`AppAccount_proof`):
`TypeCorrect` without hypotheses; the three properties for calls that are guarded, each
in its own way. `MCAppAccount` assumes all three of its calls, and TLC evaluates that.

* `AccessKept` (`AccessAgrees`) under `AccessGuarded`: no account is given to an app, or
  all its calls have the `AppAccountLock` of its owner, or it is given to one app only and
  changed by nothing else. Without it another app that deletes a token, or an
  authenticator's implicit addition, writes back a whole record that the owner is
  changing; and of two apps that are given access during the removal of the package, one
  can be in the record and the other in the list. Three errors that the code ignores are
  excluded: the removal goes on, and commits, when one list cannot be written ("sweep");
  a list that cannot be read is taken for empty, written anew with the one account and
  committed ("list"); a record that cannot be read counts as no account, which is then
  added over the old one ("get"). With each of them TLC refutes `AccessAgrees`.
* `CacheNeverStale` (`CacheFresh`) under `CacheGuarded`: accounts whose data are asked for
  are changed with the lock of the owner or removed with the package, and none is added
  over a record that cannot be read ("get").
* `QuotaKept` (`AccountQuota`) under `QuotaGuarded`: an app creates no accounts, or does
  everything with its lock, or has no more names than the limit. A creation that counts
  during the removal of the package, whose transaction is rolled back afterwards, exceeds
  the limit.

`TInv` adds to the types who holds which lock and the transaction, and what kind of data
a call carries at each place. `AInv` says that records and lists agree as far as no call
stands between the two writes, the same of the image that a rollback restores, and what
the call between the writes has read and left to do (`Knows`). `CInv` follows the entry of
the cache through the record a call carries (`Carries`); `QInv` counts the accounts with
the one about to be written, in the store and in the image.

## 9. AuthenticatorSession

`open` is `sessionMap_`; every event of a session becomes a handler in `run` that
works outside of the manager's mutex, in any order and also after the session was
closed. `sel` is the callback of a selection, which asks the authenticators of its
accounts one by one, each in a session of its own. `peer` is the ability at the
other end: it connects or is refused, answers, redirects, dies. The code drops the result
of `ConnectAbility`: a refused ability has no callback, and nothing times out.

| Run | Bounds | Checks |
|---|---|---|
| `session_events` | a plain request, a selection with 2 accounts and one with none, at most 3 sessions | `SessionTypeOK` (with the limit), `SelectionAnsweredOnce`, `ConnectedIsReleased`, `LabelledIsConfirmed`, `ClosedWhenIdle` |

Every request is made once, so that the system comes to an end (no deadlock check)
and "no session stays" can be said without fairness: `ClosedWhenIdle` looks at the
states in which no handler, no selection and no ability that was asked can go on
(`Quiet`, which on the states of the run is exactly that none of these actions is
enabled). The sessions of refused abilities do stay, and with them a selection that
waits for one; `ClosedWhenIdle` says that nothing else keeps a session open. Authenticators of API 8 do not name
the account: their late answer is booked for the account asked next, and
`LabelledIsConfirmed` fails with the answer "yes8". At the limit a selection
whose session was refused goes on with a session that is not there (`SelectCrash`).

Proved, for any requests, number of accounts to ask and limit (`AppAccount_proof`):
`SessionTypeCorrect` with the limit, `AnsweredOnce`, `AbilitiesAreReleased`,
`SessionsAreClosed` (`ClosedWhenIdle`), and `OnlyConfirmedAreLabelled` under `NamesAreTold`
(no answer "yes8"). The invariant: an open selection was not answered (`NotYet`), the
account that is asked is one of the selection's and `CheckLabels` does not run meanwhile
(`Cursor`), a positive answer under way was said (`Handlers`), and a session that
knows of its connection is open or handled by somebody (`FlagIsAlive`, by the lemma
`Kept` about what is destroyed). `SessionsAreClosed` needs besides, in `MovesInv`, that
somebody moves everything that is open: who has `mutex_` can go on (`MutexMoves`), an open
session is connecting, refused, asked or handled (`OpenMoves`), and an open selection is at work or
waits for a session that is open and that nobody closes yet (`SelectionMoves`,
`AskedIsOpen`).

## 10. CredentialKeys

`idm` is what the user IDM has enrolled, `keys` the secrets that open some version of
the key in the storage manager, `latest` the newest, `record` and `fault` the account's
file and `iam_fault`, `lock` the operating lock of the user. A call is cut where two of
these change. The attempts that the code repeats, with one and the same request,
are folded into one step with the outcomes done, refused, done without the answer
("lost"), and refused with `E_PARAMS_NULLPTR_ERR`, which `UpdateStorageUserAuth` takes for
success though no key was changed ("null"). The roll back of an update deletes the new
credential after it has given back the lock (`UpdateCredUndo`).

| Run | Bounds | Checks |
|---|---|---|
| `credential_keys` | 3 threads, 3 credentials; either every fault but "null" and 2 crashes without `DelCred`, or every fault and 2 crashes without updates and deletions of the PIN, or all calls and no fault but an unreadable record | `DataReachable`, `KeysAgreeWhenIdle`, `CallsGoOn` |

Three threads let a call be overtaken by two others. `MCApart` lists the overlaps in
which the properties do fail: an authentication looks at `iam_fault` without the
lock, waits up to five seconds for it and then repairs what a deletion or an update
of the PIN has finished meanwhile, so that the user's files open with no secret the
user has; and `DelCred` takes no lock and leaves no `iam_fault`. An addition that the
IDM refuses deletes the `iam_fault` of an earlier one. With "null" an update or a deletion
takes away the PIN that the key still needs, and `DataReachable` excepts these worlds. No handler has a loop, so
that `CallsGoOn` (while a call is under way, one has not to wait) stands for termination;
only `ActivateUserKey` waits inside a call (`Waits`), and on the states of the run a call
under way is stuck exactly then.
Left out: other types of credentials, domain unlocking, the unlocking of the screen,
sessions of the IDM.

Proved, for any threads, credentials, worlds, faults and crashes
(`CredentialKeys_proof`): `TypeCorrect`; `LockIsGivenBack` (`CallsGoOn`), from the places
at which the lock is held; `FilesStayReachable` (`DataReachable`, with its exceptions
`DelCred` and "null") under `AuthApart`; `ServicesAgree` (`KeysAgreeWhenIdle`) under `AuthApart`, `DelCredApart` and
`CrashIsFailure`. `AuthApart` and `DelCredApart` exclude the overlaps just described
and no others: calls of every kind may overlap otherwise. `CrashIsFailure` says what
`KeysAgreeWhenIdle` is about, the worlds in which nothing failed, so also no crash.
The invariant says for every place of a call which secrets open the key and what
the repair announced by `iam_fault` would do.

## 11. StatePublication

Both sides of a subscription: the service's records, deques and replies, and in each
client process the listener that all its subscribers share. SWITCHING and SWITCHED
are "switch", which go through a deque for each uid; STOPPING and LOCKING are "stop",
whose publisher waits for replies. The service and the clients die and start again,
and a client restores its subscription when it hears of a restart.

| Run | Bounds | Checks |
|---|---|---|
| `publication_states` | 2 processes with a uid each, 3 listeners, 3 subscribers; either 5 calls, 2 "switch" states, a death and a crash, or 3 calls, a "stop" state and a death | `SubscribedIsRecorded`, `SwitchServedInOrder`, `OkMeansDone` |

The bounds (`Budgets`) are used up in the end, hence no deadlock check. Three listeners
let a process die, start again and subscribe before its death is noticed. Assumed:
a restore after a restart succeeds. The five seconds of a listener and those of the
publisher may end in any order.

Three exceptions are history variables of the model, and each property fails without
its own: `robbed` of `SubscribedIsRecorded`, listeners whose deque was erased one
unsubscription too early (the count of a deque begins with 0); `strayed` of
`SwitchServedInOrder`, listeners for which the thread of such a deque still has a state
to send, while a new deque may overtake it; and `early` of `OkMeansDone`, listeners that
completed their call because their five seconds were over, or because the waiting thread
overtook the thread in which a subscriber is counted. `SwitchServedInOrder` is an action
property: what a listener has got never becomes older. The model also has:
`withHandshake` of a later subscriber is ignored when the states stay the same; a
process that dies before its death recipient is added leaves its record for ever.
Left out: subscribers of the old version, limits on their number, static subscribers.

Proved, for any processes, listeners, subscribers, states, budgets, failures and deaths,
and with the exceptions just named (`StatePublication_proof`): `TypeCorrect`,
`SubscribersAreRecorded`, `SwitchesStayInOrder` and `OkIsHonest`. The invariant: which listener is its process's, and what the client and the
service know of each other at every place of a call (`Managed`, `Asked`, `Covered`); who
has a deque (`Served`); for every listener the states in a deque and in the thread that
serves it are ascending, newer than what the listener got, and newer than those in the
threads that an erased deque left behind (`Ordered`); and
which entry of `queue`, which reply and which waiting thread belong together (`Counted`,
`Threads`, `Finished`).

## 12. DomainBinding

A binding is announced in a file (`flag`), made by the plugin (`plugin`), written to
the record (`record`), and the file is deleted. `CheckAndRecoverBindDomainForUncomplete`
undoes or completes what the file announces; three callers reach it, with the mutex,
with the mark, or with both. Removals take a bound account away and tell the plugin in
a detached thread (`unbinds`). `Restart` loses everything else and starts the cleaner.

| Run | Bounds | Checks |
|---|---|---|
| `domain_binding` | 2 threads and the cleaner, 2 accounts, 2 domain accounts, every fault but "scan", 1 crash | `BindingsAgree`, `OneAccountPerDomain` |

Two accounts are what a double binding needs, two domain accounts what an exchange
needs; the cleaner is a third thread beside two callers. One crash: everything that
a second one could leave behind, the file of an unfinished binding with and without
its binding, the first one leaves behind too, and errors strike the recovery as well.

Proved, for any threads, accounts, domain accounts, faults and crashes
(`DomainBinding_proof`): `RecordsFollowPlugin` (`BindingsAgree`) without hypotheses, and
`BoundOncePerDomain` (`OneAccountPerDomain`) under `Seen`. `GetOsAccountsByDomainInfo` does
not look at the error of a record that cannot be read and passes the account over; with
this fault ("scan"), which `Seen` excludes, two accounts can get the same domain account. Mutex and marks have owners at known
places (`Owner`, `Marks`); the copy of a record that a thread will write back, the
binding it is about to make and the accounts it has looked at are still what it saw
(`CopyOK`, `WorkOK`, `ScanOK`); and a binding in progress is announced by the file until
record and plugin agree (`Agree`, `Once`).

Assumed: the plugin is the library loaded into the service, and one that reports an
error has not bound the account; files are replaced by renaming, so that the file of
an unfinished binding is never half written (one that is no JSON would be deleted). Left out, and able to break the properties:
writers of the whole record that do not take the mark (`UpdateAccountStatusForDomain`,
the setters), `UpdateAccountInfo` and the creation for a domain account, which look
without the mutex or give up their mark before they are completed. Other facts met:
the record a bind writes back was read before its mark and can clear the
flag of a removal that failed half-way; `BindDomainAccountSync` waits for the plugin
without a limit while it holds mutex and mark; an account that is removed while its
binding is unfinished stays bound in the plugin.

## 13. What is proved, what is checked

Proved by TLAPS, for all constants that satisfy the assumptions of the modules:

| Module | Theorem | Property | Hypotheses |
|---|---|---|---|
| `OsAccountLifecycle_proof` | `TypeCorrect` | `TypeOK` | |
| | `NothingStaysHeld` | `NothingHeldWhenIdle` | |
| | `DataNeverOrphaned` | `NoOrphanData` | `NoReuse`, `Answered` |
| | `OperationsExclusive` | `ExclusiveOperation` | `NoReuse` |
| | `RemovalIsFinal` | `RemoveFlagKept` | `NoReuse`, `NoSetters` |
| | `LiveAccountsAreWhole` | `LiveHasData` | `NoReuse`, `NoRevival` |
| | `OnePrivateAccount` | `PrivateQuota` | `NoReuse`, `NoRevival` |
| | `QuotaKept` | `AccountQuota` | `NoReuse`, `ListReadable` |
| `OsAccountActivation_proof` | `OnOneDisplay` | `OneDisplay` | |
| | `OneThreadPerAccount` | `OneOperation` | |
| | `NothingStays` | `NothingLeftWhenIdle` | |
| | `ShownAccountsAreActive` | `ForegroundIsActive` | `Several` |
| | `DeactivatedStaysGone` | `DeactivatedIsGone` | `Several` |
| | `VerifiedStaysDecrypted` | `VerifiedIsDecrypted` | `NobodyAuthenticates` |
| `PrivilegeCache_proof` | `TypeCorrect` | `TypeOK` | |
| | `GrantsAreValid` | `GrantedIsValid` | |
| | `AuthorizationsAreConfirmed` | `AuthorizedIsConfirmed` | `Identified` |
| | `OwnRecords` | `RecordsAreOwn` | `Identified` |
| | `KernelGrantsStay` | `KernelGrantKept` | `Identified`, `"load"` is no fault |
| | `ReleasesStay` | `ReleasedStaysReleased` | the same, nor is `"delete"` |
| `SubProfile_proof` | `TypeCorrect` | `TypeOK` | |
| | `ContextStaysConsistent` | `ContextConsistent` | |
| | `BindingImplemented` | `BindingRefined` | `Scanned` |
| | `OneSubProfilePerAccount` | `Binding!OneProfile` | `Scanned` |
| | `BoundOnce` | `Binding!OneProfile`, of `Binding!Spec` | |
| `AppAccount_proof` | `TypeCorrect` | `TypeOK` | |
| | `AccessKept` | `AccessAgrees` | `AccessGuarded` |
| | `CacheNeverStale` | `CacheFresh` | `CacheGuarded` |
| | `QuotaKept` | `AccountQuota` | `QuotaGuarded` |
| | `SessionTypeCorrect` | `SessionTypeOK` | |
| | `AnsweredOnce` | `SelectionAnsweredOnce` | |
| | `AbilitiesAreReleased` | `ConnectedIsReleased` | |
| | `OnlyConfirmedAreLabelled` | `LabelledIsConfirmed` | `NamesAreTold` |
| | `SessionsAreClosed` | `ClosedWhenIdle` | |
| `CredentialKeys_proof` | `TypeCorrect` | `TypeOK` | |
| | `LockIsGivenBack` | `CallsGoOn` | |
| | `FilesStayReachable` | `DataReachable` | `AuthApart` |
| | `ServicesAgree` | `KeysAgreeWhenIdle` | `AuthApart`, `DelCredApart`, `CrashIsFailure` |
| `StatePublication_proof` | `TypeCorrect` | `TypeOK` | |
| | `SubscribersAreRecorded` | `SubscribedIsRecorded` | |
| | `SwitchesStayInOrder` | `SwitchServedInOrder` | |
| | `OkIsHonest` | `OkMeansDone` | |
| `DomainBinding_proof` | `RecordsFollowPlugin` | `BindingsAgree` | |
| | `BoundOncePerDomain` | `OneAccountPerDomain` | `Seen` |

A hypothesis restricts the calls, builds or faults of an instance; the section of
the module says what goes wrong without it. All proofs have the same shape: an
inductive invariant that adds to the property what the program counters, locks
and copies of the threads say, one lemma for each action, and a last step by
temporal logic. TLC looked for counterexamples to the invariants before they were
proved, on most instances exhaustively, on the largest ones for some ten million
states.

Every property of a passing run but the liveness ones is so stated by a theorem. Model-checked only are the
liveness properties (`GarbageCollected`, `CallsReturn`), whose fairness is out of the
prover's reach; `ForegroundIsActive` and `DeactivatedIsGone` for builds with one active
account, where they hold of the run's calls and not of all (section 5); and that `Quiet`
and `Waits` say in terms of the state what `ENABLED` would say of the actions, which TLC
compared on all states of the two runs.

Every property of a passing run has a mutant in `PROJECT.json`: a definition of the
module that changes one mapped definition the way a bug would, and under which TLC
finds the property violated. The one run that is expected to fail is
`activation_deadlock`.

## 14. Not modelled

* Authorization sessions with the extension that asks the user; authentication
  against a domain with its contexts and tokens, plugins in another process, status
  listeners, server configurations; remote authentication.
* Constraints: every change is one rewrite of a file under one mutex. The account
  list as a file: lost updates by writers with old copies.
* The file watcher, which depends on the order of inotify events; backup and restore.
* Start of the service, checks of permissions and parameters, dumps: without state.
* Databases, adapters of other services, plugins: pure I/O, present in the models as
  steps that succeed or fail.
* Client libraries other than the listener of section 11, the bindings to JS, ETS and
  C, the shell tool: marshalling and generated code, which is most of the lines of the
  repository.
