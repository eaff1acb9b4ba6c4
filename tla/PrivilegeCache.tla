---------------------------- MODULE PrivilegeCache ----------------------------
(***************************************************************************)
(* The privileges that processes hold, as kept by PrivilegeCacheManager: a *)
(* map in memory, a copy of it in privilege_cache.json, and for some       *)
(* privileges an entry in the kernel.  A time-limited privilege is granted *)
(* by the TEE and expires; a kernel privilege is written to the file as    *)
(* UNCONFIRMED before the kernel is told, and as AUTHORIZED afterwards.    *)
(*                                                                         *)
(* mapMutex_ makes every call one step, except the acquisition of a kernel *)
(* privilege, whose three effects (file, kernel, file) a crash may         *)
(* separate: flight holds the call that owns the mutex between them.       *)
(* A call that only reads (CheckPrivilege) is an operator.                 *)
(*                                                                         *)
(* The code takes pid and start time for the identity of a process.  inc   *)
(* has the start times, in ticks since boot: within one boot no process    *)
(* has the pid and the start time of another one, but after a reboot both  *)
(* may come back.  life counts the processes of a pid and tells them apart *)
(* (history), and so do own, in memory, and own in the file.  What the     *)
(* environment does is reuse: "pid", a pid is given to a new process while *)
(* the service has a record of the old one; "tick", a process starts in    *)
(* the same tick as one of an earlier boot with the same pid.              *)
(*                                                                         *)
(* Faults: "write" is an error of ToPersistFile (digest or file), "delete" *)
(* a file that is not deleted, "uptime" an error of GetUptimeMs while the  *)
(* service runs, "kernel" an error of SetKernelAuthorization, and "load"   *)
(* whatever makes FromPersistFile give up and leave the file.  The file is *)
(* written by a transaction, hence at once.                                *)
(***************************************************************************)
EXTENDS Integers, FiniteSets

CONSTANTS
    Pid,
    Timed,    \* privileges without kernelPermission
    Kernel,   \* privileges with one
    Timeout,  \* validity of a time-limited privilege
    Offset,   \* EXPIRED_TIME_OFFSET
    Latency,  \* from the grant of the TEE to its entry in the cache
    Boots,    \* uptimes at which the service starts first after a boot
    Ready,    \* uptime before which the user grants nothing
    Worlds,   \* which steps may report an error, and how pids come back
    MaxClock, \* bound on the uptime
    MaxLife,  \* bound on the processes that have one pid
    MaxStops, \* bound on crashes and reboots
    None      \* no record, no file, no call

Priv == Timed \cup Kernel

ASSUME PrivilegeConstants ==
    /\ Timed \cap Kernel = {}
    /\ Timeout \in Nat /\ Offset \in Nat /\ Latency \in Nat
    /\ MaxClock \in Nat /\ MaxLife \in Nat \ {0} /\ MaxStops \in Nat
    /\ Boots \subseteq 1 .. MaxClock /\ Ready \in Nat
    /\ Worlds \subseteq [faults : SUBSET {"write", "delete", "uptime", "kernel", "load"},
                         reuse : SUBSET {"pid", "tick"}]

\* The offset is there to cover the way from the TEE to the cache.
ASSUME OffsetCoversLatency == Latency <= Offset

Status == {"NOT_REQUIRED", "UNCONFIRMED", "AUTHORIZED"}

\* A PrivilegeRecord.
Record == [status : Status, exp : Nat, safe : Nat]

\* What is in the file: update time, start times and records.
FileContent == [upd : Nat, inc : [Pid -> Nat], own : [Pid -> Nat],
                rec : [Pid -> [Priv -> Record \cup {None}]]]

\* A call inside AddCacheAndNotifyKernel.
Flight == [pid : Pid, priv : Kernel, now : Nat, step : {"set", "confirm"}]

ASSUME NoneIsNothing == None \notin Record \cup FileContent \cup Flight

VARIABLES
    clock,   \* GetUptimeMs
    alive,   \* pids of the running processes
    inc,     \* start time of the last process of every pid in this boot
    life,    \* number of the last process of every pid (history)
    kernel,  \* <<pid, privilege>> known to the kernel
    up,      \* is the service running?
    booting, \* has it not been started since the last boot?
    rec,     \* processPrivilegeMap_, a pid without records is not in it
    cinc,    \* processStartTime_ of the cached processes
    own,     \* life of the processes that the records belong to (history)
    watch,   \* cached processes with a death recipient
    file,    \* privilege_cache.json
    flight,  \* the call that holds mapMutex_ between two effects
    told,    \* what the last call told the process (history)
    env,     \* the world
    stops

world == <<clock, alive, inc, life, booting, env, stops>>
cache == <<rec, cinc, own, watch>>
vars == <<world, kernel, up, cache, file, flight, told>>

Faults == env.faults
Nobody == [p \in Pid |-> 0]

Blank == [p \in Pid |-> [k \in Priv |-> None]]

Init ==
    /\ clock \in Boots
    /\ alive = {} /\ inc = Nobody /\ life = Nobody
    /\ kernel = {}
    /\ up = TRUE /\ booting = FALSE
    /\ rec = Blank /\ cinc = Nobody /\ own = Nobody /\ watch = {}
    /\ file = None
    /\ flight = None
    /\ told = [p \in Pid |-> [k \in Priv |-> "nothing"]]
    /\ stops = 0
    /\ env \in Worlds

-----------------------------------------------------------------------------
Cached(r, p) == \E k \in Priv : r[p][k] # None
Empty(r) == \A p \in Pid : ~Cached(r, p)

With(r, p, k, x) == [r EXCEPT ![p][k] = x]

NeedClean(x) == x.status = "NOT_REQUIRED" /\ clock > x.exp + Offset

\* CheckTimestampExpired of the TEE, then the test for remaining time.
TeeValid(x) == x.safe <= clock /\ clock - x.safe < Timeout

GetRemainTimeNoOffset(x) ==
    \/ clock < x.exp
    \/ clock <= x.exp + Offset /\ TeeValid(x)

\* GetRemainTimeSec leaves some time: the cached expiry decides far from it,
\* the TEE near it.
GetRemainTime(x) ==
    \/ clock < x.exp - Offset
    \/ clock <= x.exp + Offset /\ TeeValid(x)

\* CheckPrivilege of a ProcessPrivilegeRecord: the answer of the cache.
CheckPrivilege(p, k) ==
    /\ rec[p][k] # None
    /\ \/ rec[p][k].status = "AUTHORIZED"
       \/ rec[p][k].status = "NOT_REQUIRED" /\ GetRemainTime(rec[p][k])

Clean(r) ==
    [p \in Pid |-> [k \in Priv |->
        IF r[p][k] # None /\ NeedClean(r[p][k]) THEN None ELSE r[p][k]]]

\* What c says of the processes that have records in r.
Owners(r, c) == [p \in Pid |-> IF Cached(r, p) THEN c[p] ELSE 0]

\* The map becomes r, with the start times and lives c; the processes without
\* records leave it.
Install(r, c, w) ==
    /\ rec' = r
    /\ cinc' = Owners(r, c.inc) /\ own' = Owners(r, c.own)
    /\ watch' = {p \in w : Cached(r, p)}

\* A successful ToPersistFile: an empty map deletes the file, and does not
\* look at the result.
ToPersistFile(r, c, now) ==
    IF Empty(r)
    THEN file' \in {None} \cup {file : f \in Faults \cap {"delete"}}
    ELSE file' = [upd |-> now, inc |-> Owners(r, c.inc), own |-> Owners(r, c.own), rec |-> r]

\* CleanExpiredPrivilegesAndSaveToFile on map r, when it succeeds, and the
\* maps that it leaves behind when it fails.
CleanAndSave(r, c, w) ==
    Install(Clean(r), c, w) /\ ToPersistFile(Clean(r), c, clock)
CleanFailed(r) ==
    {r : f \in Faults \cap {"uptime"}}
        \cup {m \in {Clean(r)} : "write" \in Faults /\ ~Empty(m)}

\* The callers that do not care.
CleanAndTryToSave(r, c, w) ==
    \/ CleanAndSave(r, c, w)
    \/ \E m \in CleanFailed(r) : Install(m, c, w) /\ file' = file

\* The removed record comes back, with its process if that went too; what was
\* cleaned stays away.
RollbackDelSingleRecord(m, p, k, r) == With(m, p, k, r[p][k])

RemoveSingleNoRollback(p, k, r, c, w, ok) ==
    LET gone == With(r, p, k, None)
    IN  \/ ok /\ CleanAndSave(gone, c, w)
        \/ ok /\ \E m \in CleanFailed(gone) : Install(m, c, w) /\ file' = file

\* RemoveSingle of a cached process, undone when it cannot be saved.
RemoveSingle(p, k, r, c, w, ok) ==
    LET gone == With(r, p, k, None)
    IN  \/ ok /\ CleanAndSave(gone, c, w)
        \/ /\ ~ok
           /\ \E m \in CleanFailed(gone) :
                  Install(RollbackDelSingleRecord(m, p, k, r), c, w)
           /\ file' = file

\* The start times and lives in the map; CreateEmptyProcessPrivilegeRecord adds
\* a process that is not there.
Known == [inc |-> cinc, own |-> own]
StartTimes(p) ==
    IF Cached(rec, p) THEN Known
    ELSE [inc |-> [cinc EXCEPT ![p] = inc[p]], own |-> [own EXCEPT ![p] = life[p]]]
Watched(p) == IF Cached(rec, p) THEN watch ELSE watch \cup {p}
CanHaveRecord(p) == Cached(rec, p) \/ p \in alive

Tell(p, k, what) == told' = [told EXCEPT ![p][k] = what]

\* An earlier grant counts until the new acquisition has failed.
Ask(p, k) ==
    told' = [told EXCEPT ![p][k] = IF @ = "acquired" THEN @ ELSE "nothing"]

Running == up /\ flight = None

-----------------------------------------------------------------------------
\* AddOrUpdatePrivilege: the expiry counts from now, not from the grant.
Granted(s) == [status |-> "NOT_REQUIRED", exp |-> clock + Timeout, safe |-> s]

\* The privilege that the TEE has granted at time s enters the cache.  What cannot
\* be saved stays in memory, and the call succeeds.
AddCache(p, k, s) ==
    /\ Running /\ clock >= Ready
    /\ CanHaveRecord(p)
    /\ s <= clock /\ clock - s <= Latency
    /\ CleanAndTryToSave(With(rec, p, k, Granted(s)), StartTimes(p), Watched(p))
    /\ Tell(p, k, "acquired")
    /\ UNCHANGED <<world, kernel, up, flight>>

Unconfirmed == [status |-> "UNCONFIRMED", exp |-> 0, safe |-> 0]

PrepareKernelAuthCacheUnsaved(p, k) ==
    /\ Running /\ clock >= Ready
    /\ CanHaveRecord(p)
    /\ Install(With(rec, p, k, Unconfirmed), StartTimes(p), Watched(p))
    /\ flight' = [pid |-> p, priv |-> k, now |-> clock, step |-> "set"]
    /\ Ask(p, k)
    /\ UNCHANGED <<world, kernel, up, file>>

\* AddCacheAndNotifyKernel up to the call of the kernel.  The new record takes
\* the place of an earlier one, which is gone when the acquisition fails.
PrepareKernelAuthCache(p, k) ==
    /\ Running /\ clock >= Ready
    /\ CanHaveRecord(p)
    /\ LET r == With(rec, p, k, Unconfirmed)
       IN  \/ \E now \in {clock} \cup {0 : f \in Faults \cap {"uptime"}} :
                /\ Install(r, StartTimes(p), Watched(p))
                /\ ToPersistFile(r, StartTimes(p), now)
                /\ flight' = [pid |-> p, priv |-> k, now |-> now, step |-> "set"]
                /\ Ask(p, k)
           \/ /\ "write" \in Faults
              /\ \E ok \in BOOLEAN :
                     RemoveSingle(p, k, r, StartTimes(p), Watched(p), ok)
              /\ flight' = None
              /\ Tell(p, k, "refused")
    /\ UNCHANGED <<world, kernel, up>>

\* The end of an acquisition that the user and the TEE have agreed to.
UpdatePrivilegeCache(p) ==
    \/ \E k \in Timed, s \in 0 .. clock : AddCache(p, k, s)
    \/ \E k \in Kernel : PrepareKernelAuthCache(p, k)

\* The kernel refuses a process that is gone.
SetKernelAuthorization ==
    /\ flight # None /\ flight.step = "set"
    /\ \/ /\ flight.pid \in alive
          /\ kernel' = kernel \cup {<<flight.pid, flight.priv>>}
          /\ flight' = [flight EXCEPT !.step = "confirm"]
          /\ UNCHANGED <<cache, file, told>>
       \/ /\ "kernel" \in Faults \/ flight.pid \notin alive
          /\ \E ok \in BOOLEAN :
                 RemoveSingle(flight.pid, flight.priv, rec, Known, watch, ok)
          /\ flight' = None
          /\ Tell(flight.pid, flight.priv, "refused")
          /\ UNCHANGED kernel
    /\ UNCHANGED <<world, up>>

Authorized == [status |-> "AUTHORIZED", exp |-> 0, safe |-> 0]

\* SetAuthStatusForRecord and the second ToPersistFile, which is undone in
\* memory when it fails.
ConfirmKernelAuth ==
    /\ flight # None /\ flight.step = "confirm"
    /\ \/ LET r == With(rec, flight.pid, flight.priv, Authorized)
          IN  Install(r, Known, watch) /\ ToPersistFile(r, Known, flight.now)
       \/ "write" \in Faults /\ UNCHANGED <<cache, file>>
    /\ Tell(flight.pid, flight.priv, "acquired")
    /\ flight' = None
    /\ UNCHANGED <<world, kernel, up>>

UpdateToAuthorized(p, k) ==
    LET r == With(rec, p, k, Authorized)
    IN  Install(r, Known, watch) /\ ToPersistFile(r, Known, clock)

HasKernelAuthorizationUnasked(p, k) ==
    /\ Running
    /\ rec[p][k] = Unconfirmed
    /\ UpdateToAuthorized(p, k)
    /\ UNCHANGED <<world, kernel, up, flight, told>>

\* HasKernelAuthorization on an unconfirmed record; it only reads the others,
\* and changes nothing when the kernel cannot be asked or the new status
\* cannot be saved.
HasKernelAuthorization(p, k) ==
    /\ Running
    /\ rec[p][k] = Unconfirmed
    /\ \/ /\ <<p, k>> \in kernel
          /\ UpdateToAuthorized(p, k)
       \/ /\ <<p, k>> \notin kernel
          /\ \E ok \in BOOLEAN : RemoveSingle(p, k, rec, Known, watch, ok)
    /\ UNCHANGED <<world, kernel, up, flight, told>>

\* ReleaseAuthorization of the calling process; the kernel is not told.
ReleaseAuthorization(p, k) ==
    /\ Running
    /\ p \in alive
    /\ \/ /\ ~Cached(rec, p)
          /\ Tell(p, k, "released")
          /\ UNCHANGED <<cache, file>>
       \/ /\ Cached(rec, p)
          /\ \E ok \in BOOLEAN :
                 /\ RemoveSingle(p, k, rec, Known, watch, ok)
                 /\ IF ok THEN Tell(p, k, "released") ELSE told' = told
    /\ UNCHANGED <<world, kernel, up, flight>>

\* OnRemoteDied of the death recipient will come: the process to which the
\* records belong is gone.
Died(p) == p \in watch /\ (p \notin alive \/ own[p] # life[p])

RemoveProcess(p) ==
    /\ Running
    /\ Died(p)
    /\ CleanAndTryToSave([rec EXCEPT ![p] = Blank[p]], Known, watch)
    /\ UNCHANGED <<world, kernel, up, flight, told>>

\* The thread that a denied CheckPrivilege starts.
StartCleanTask ==
    /\ Running
    /\ CleanAndTryToSave(rec, Known, watch)
    /\ UNCHANGED <<world, kernel, up, flight, told>>

-----------------------------------------------------------------------------
\* CheckProcessAlive of an entry of the file.
SameProcess(p) == p \in alive /\ file.inc[p] = inc[p]

\* The records of the file whose process is still the same and that have not
\* expired.
Loaded ==
    [p \in Pid |-> [k \in Priv |->
        IF /\ SameProcess(p)
           /\ file.rec[p][k] # None
           /\ ~NeedClean(file.rec[p][k])
        THEN file.rec[p][k] ELSE None]]

AnyBoot == TRUE

\* CheckUpdateTimeValid: a file of the future is from an earlier boot.
OfThisBoot == file.upd < clock

\* What ReadAndCheckPersistRecordValid cannot read it leaves where it is.
Skipped == file = None \/ "load" \in Faults

\* FromPersistFile when the service starts.
FromPersistFile ==
    /\ ~up
    /\ up' = TRUE /\ booting' = FALSE
    /\ \/ /\ Skipped
          /\ UNCHANGED <<cache, file>>
       \/ /\ file # None /\ ~OfThisBoot
          /\ file' \in {None} \cup {file : f \in Faults \cap {"delete"}}
          /\ UNCHANGED cache
       \/ /\ file # None /\ OfThisBoot
          /\ Install(Loaded, [inc |-> file.inc, own |-> file.own], {})
          /\ UNCHANGED file
    /\ UNCHANGED <<clock, alive, inc, life, env, stops, kernel, flight, told>>

Stop == /\ stops < MaxStops
        /\ stops' = stops + 1
        /\ up' = FALSE
        /\ rec' = Blank /\ cinc' = Nobody /\ own' = Nobody /\ watch' = {}
        /\ flight' = None

\* The service dies and stays down for a tick.
Crash ==
    /\ up
    /\ Stop
    /\ clock < MaxClock /\ clock' = clock + 1
    /\ UNCHANGED <<alive, inc, life, booting, env, kernel, file, told>>

\* The device boots, up to the moment at which the service is started.
Reboot ==
    /\ Stop
    /\ clock' \in Boots
    /\ alive' = {} /\ inc' = Nobody
    /\ kernel' = {}
    /\ booting' = TRUE
    /\ UNCHANGED <<life, env, file, told>>

Tick == /\ clock < MaxClock /\ ~booting
        /\ clock' = clock + 1
        /\ UNCHANGED <<alive, inc, life, booting, env, stops, kernel, up, cache, file, flight, told>>

\* A process starts now, later than the last one of its pid in this boot.
StartProcess(p) ==
    /\ p \notin alive
    /\ inc[p] < clock /\ life[p] < MaxLife
    /\ "pid" \notin env.reuse => ~Cached(rec, p)
    /\ ("tick" \notin env.reuse /\ file # None) => file.inc[p] # clock
    /\ inc' = [inc EXCEPT ![p] = clock]
    /\ life' = [life EXCEPT ![p] = @ + 1]
    /\ alive' = alive \cup {p}
    /\ told' = [told EXCEPT ![p] = [k \in Priv |-> "nothing"]]
    /\ UNCHANGED <<clock, booting, env, stops, kernel, up, cache, file, flight>>

Exit(p) ==
    /\ p \in alive
    /\ alive' = alive \ {p}
    /\ kernel' = {x \in kernel : x[1] # p}
    /\ UNCHANGED <<clock, inc, life, booting, env, stops, up, cache, file, flight, told>>

Next ==
    \/ \E p \in Pid :
          \/ UpdatePrivilegeCache(p)
          \/ \E k \in Kernel : HasKernelAuthorization(p, k)
          \/ \E k \in Priv : ReleaseAuthorization(p, k)
          \/ RemoveProcess(p) \/ StartProcess(p) \/ Exit(p)
    \/ SetKernelAuthorization \/ ConfirmKernelAuth
    \/ StartCleanTask
    \/ FromPersistFile \/ Crash \/ Reboot \/ Tick

Spec == Init /\ [][Next]_vars

-----------------------------------------------------------------------------
\* Records, times and the call in flight are well formed; only processes with
\* records have a start time and a death recipient.
TypeOK ==
    /\ clock \in 0 .. MaxClock
    /\ alive \subseteq Pid
    /\ inc \in [Pid -> 0 .. MaxClock] /\ life \in [Pid -> 0 .. MaxLife]
    /\ kernel \subseteq alive \X Kernel
    /\ up \in BOOLEAN /\ booting \in BOOLEAN
    /\ rec \in [Pid -> [Priv -> Record \cup {None}]]
    /\ cinc \in [Pid -> 0 .. MaxClock] /\ own \in [Pid -> Nat]
    /\ watch \subseteq {p \in Pid : Cached(rec, p)}
    /\ \A p \in Pid : (cinc[p] # 0) = Cached(rec, p)
    /\ file \in FileContent \cup {None}
    /\ flight \in Flight \cup {None}
    /\ told \in [Pid -> [Priv -> {"nothing", "acquired", "refused", "released"}]]
    /\ env \in Worlds
    /\ stops \in 0 .. MaxStops

\* CheckPrivilege never says yes to a time-limited privilege that the TEE no
\* longer grants, though far from the expiry it does not ask: not by a delay
\* on the way into the cache, nor by a restart or a reboot.
GrantedIsValid ==
    \A p \in alive, k \in Timed :
        CheckPrivilege(p, k) => clock - rec[p][k].safe < Timeout

\* A record of a running process is AUTHORIZED, in the cache or in the file,
\* only if the kernel knows the privilege of that very process.
AuthorizedIsConfirmed ==
    \A p \in alive, k \in Kernel :
        \/ rec[p][k] = Authorized
        \/ file # None /\ file.own[p] = life[p] /\ file.rec[p][k] = Authorized
        => <<p, k>> \in kernel

\* The records under the pid of a running process are its own: FromPersistFile
\* does not give it what a process with its pid, and perhaps with its start
\* time, has left in the file before a reboot.
RecordsAreOwn ==
    \A p \in alive : Cached(rec, p) => own[p] = life[p]

\* A kernel privilege is still known when the service runs, if its last
\* acquisition succeeded and it was not released since: HasKernelAuthorization
\* finds a record, and the kernel confirms it, whatever could not be saved and
\* whenever the service died, also during the next acquisition of the same
\* privilege.  When that one fails the record of the earlier one goes too.
KernelGrantKept ==
    \A p \in alive, k \in Kernel :
        up /\ told[p][k] = "acquired"
            => rec[p][k] # None /\ <<p, k>> \in kernel

\* A privilege that was released with success does not come back.
ReleasedStaysReleased ==
    \A p \in alive, k \in Priv :
        told[p][k] = "released" => rec[p][k] = None

-----------------------------------------------------------------------------
(***************************************************************************)
(* When pid and start time identify a process.  No pid is reused while the *)
(* service has a record of it: a process that was loaded from the file has *)
(* no death recipient, and an entry of the map is found by its pid alone.  *)
(* And no start time comes back after a reboot, or else the file of the    *)
(* earlier boot is found out by its update time: the service starts after  *)
(* a boot before the uptime at which the user grants something, the file   *)
(* has the time of its update and not 0, and it can be read and deleted.   *)
(***************************************************************************)
Punctual == \A b \in Boots : b <= Ready
Identified ==
    \A w \in Worlds :
        /\ "pid" \notin w.reuse
        /\ "tick" \in w.reuse => Punctual /\ {"uptime", "delete", "load"} \cap w.faults = {}

=============================================================================
