------------------------ MODULE PrivilegeCache_proof ------------------------
(***************************************************************************)
(* Theorems about PrivilegeCache, for any processes, privileges, times,    *)
(* errors and any number of crashes and reboots.  What depends on pid and  *)
(* start time being the identity of a process is proved for worlds where   *)
(* they are (Identified).                                                  *)
(***************************************************************************)
EXTENDS PrivilegeCache, TLAPS

Answers == {"nothing", "acquired", "refused", "released"}
Recs == [Pid -> [Priv -> Record \cup {None}]]

Types ==
    /\ clock \in 0 .. MaxClock /\ alive \subseteq Pid
    /\ inc \in [Pid -> 0 .. MaxClock] /\ life \in [Pid -> 0 .. MaxLife]
    /\ kernel \subseteq alive \X Kernel /\ up \in BOOLEAN /\ booting \in BOOLEAN
    /\ rec \in Recs /\ cinc \in [Pid -> 0 .. MaxClock] /\ own \in [Pid -> Nat]
    /\ watch \subseteq {p \in Pid : Cached(rec, p)}
    /\ file \in FileContent \cup {None} /\ flight \in Flight \cup {None}
    /\ told \in [Pid -> [Priv -> Answers]]
    /\ env \in Worlds /\ stops \in 0 .. MaxStops

\* The running processes that only their pid and start time tell apart.
Live(p) == Identified /\ p \in alive

\* A start time comes back after a reboot.
TickWorld == Identified /\ "tick" \in env.reuse

\* The processes in the map are the last ones of their pids, and those in the
\* file are not later ones.  An entry of the file with the start time of a
\* running process belongs to it, but for the time between a reboot and the
\* first start of the service.
Own ==
    \A p \in Pid :
        /\ p \in alive => inc[p] # 0 /\ life[p] # 0
        /\ IF Cached(rec, p) THEN cinc[p] # 0 ELSE cinc[p] = 0 /\ own[p] = 0
        /\ Identified =>
              /\ Cached(rec, p) => cinc[p] = inc[p] /\ own[p] = life[p]
              /\ file # None => file.own[p] <= life[p]
              /\ file # None /\ p \in alive =>
                    /\ file.own[p] = life[p] => file.inc[p] = inc[p]
                    /\ file.inc[p] = inc[p] => file.own[p] = life[p] \/ (TickWorld /\ booting)

\* The file of an earlier boot is as late as the first start of the service.
Dated ==
    TickWorld =>
        /\ file # None => file.upd >= Ready
        /\ flight # None => flight.now >= Ready
        /\ ~Empty(rec) => clock >= Ready
        /\ booting => clock \in Boots /\ ~up
        /\ ~booting /\ file # None => \A q \in Pid : file.inc[q] <= inc[q]

-----------------------------------------------------------------------------
(* What is true of a privilege k of pid p.                                 *)

\* The expiry in a record is not later than the TEE's by more than the way
\* into the cache took; kernel privileges do not expire.
Sound(k, x) ==
    /\ k \in Timed => x.status = "NOT_REQUIRED" /\ x.exp <= x.safe + Latency + Timeout
    /\ k \in Kernel => x \in {Unconfirmed, Authorized}

\* The file has a record of the process that has the pid now.
Filed(p, k) == file # None /\ file.own[p] = life[p] /\ file.rec[p][k] # None

\* A record in the file of a running process is not newer than the one in the
\* map, and an AUTHORIZED one is in the kernel.
Right(p, k) ==
    /\ rec[p][k] # None => Sound(k, rec[p][k])
    /\ file # None /\ file.rec[p][k] # None => Sound(k, file.rec[p][k])
    /\ Live(p) /\ k \in Timed =>
          /\ rec[p][k] # None => rec[p][k].exp <= clock + Timeout
          /\ Filed(p, k) => file.rec[p][k].exp <= clock + Timeout
          /\ rec[p][k] # None /\ Filed(p, k) => file.rec[p][k].exp <= rec[p][k].exp
    /\ Live(p) /\ k \in Kernel /\ rec[p][k] = Authorized => <<p, k>> \in kernel
    /\ Live(p) /\ k \in Kernel /\ Filed(p, k) /\ file.rec[p][k] = Authorized
          => <<p, k>> \in kernel

\* A kernel privilege that the process was told of is in the kernel, in the
\* map, and in a file of this boot.
Kept(p, k) ==
    "load" \notin Faults /\ Live(p) /\ k \in Kernel /\ told[p][k] = "acquired" =>
        /\ <<p, k>> \in kernel
        /\ up => rec[p][k] # None
        /\ Filed(p, k) /\ (IF up THEN file.upd <= clock ELSE file.upd < clock)

\* What would be loaded is in the map, and a released privilege would not be.
Loadable(p, k) == Filed(p, k) /\ ~NeedClean(file.rec[p][k])
Gone(p, k) ==
    {"load", "delete"} \cap Faults = {} /\ Live(p) =>
        /\ up /\ Loadable(p, k) => rec[p][k] # None
        /\ told[p][k] = "released" => rec[p][k] = None /\ ~Loadable(p, k)

Cell(p, k) == Right(p, k) /\ Kept(p, k) /\ Gone(p, k)
Cells == \A p \in Pid, k \in Priv : Cell(p, k)

\* The call that holds the mutex: its record is in the map and in the file.
InFlight ==
    flight # None =>
        /\ up /\ flight.now <= clock
        /\ rec[flight.pid][flight.priv] = Unconfirmed
        /\ Identified => Filed(flight.pid, flight.priv) /\ file.upd <= clock
        /\ flight.step = "confirm" /\ Live(flight.pid)
              => <<flight.pid, flight.priv>> \in kernel

IInv == Types /\ Own /\ Dated /\ Cells /\ InFlight

-----------------------------------------------------------------------------
(* The operators on maps.                                                  *)

\* Nothing is not a record, a file or a call; a kernel record is something.
LEMMA NoneFacts == None \notin Record /\ None \notin FileContent /\ None \notin Flight
BY NoneIsNothing

LEMMA Statuses ==
    /\ Unconfirmed \in Record /\ Authorized \in Record /\ Unconfirmed # Authorized
    /\ Unconfirmed # None /\ Authorized # None
    /\ Unconfirmed.status # "NOT_REQUIRED" /\ Authorized.status # "NOT_REQUIRED"
<1>1. Unconfirmed \in Record /\ Authorized \in Record
  BY DEF Unconfirmed, Authorized, Record, Status
<1>2. Unconfirmed.status = "UNCONFIRMED" /\ Authorized.status = "AUTHORIZED"
  BY DEF Unconfirmed, Authorized
<1> QED BY <1>1, <1>2, NoneFacts

\* One record of a map is replaced.
LEMMA WithIs ==
    ASSUME NEW r \in Recs, NEW p \in Pid, NEW k \in Priv, NEW x \in Record \cup {None}
    PROVE  /\ With(r, p, k, x) \in Recs
           /\ With(r, p, k, x)[p][k] = x
           /\ \A q \in Pid, l \in Priv : q # p \/ l # k => With(r, p, k, x)[q][l] = r[q][l]
BY DEF With, Recs

\* Clean, record by record.
LEMMA CleanIs ==
    ASSUME NEW r \in Recs
    PROVE  /\ Clean(r) \in Recs
           /\ \A q \in Pid, l \in Priv :
                 Clean(r)[q][l] = IF r[q][l] # None /\ NeedClean(r[q][l]) THEN None ELSE r[q][l]
BY DEF Clean, Recs

\* CleanExpiredPrivilegesAndSaveToFile leaves the map r as it is, or cleaned.
CleanedFrom(m, r) ==
    \A q \in Pid, l \in Priv :
        m[q][l] = r[q][l] \/ (m[q][l] = None /\ r[q][l] # None /\ NeedClean(r[q][l]))

\* The maps that a cleaning leaves.
LEMMA Cleaned ==
    ASSUME NEW r \in Recs, NEW m \in {r} \cup {Clean(r)}
    PROVE  m \in Recs /\ CleanedFrom(m, r)
BY CleanIs DEF CleanedFrom

\* CleanAndTryToSave leaves a cleaned map, saved or not.
LEMMA TryToSave ==
    ASSUME NEW r \in Recs, NEW c, NEW w, CleanAndTryToSave(r, c, w)
    PROVE  \E m \in Recs, saved \in BOOLEAN :
              /\ CleanedFrom(m, r) /\ Install(m, c, w)
              /\ IF saved THEN ToPersistFile(m, c, clock) ELSE file' = file
<1>1. CASE CleanAndSave(r, c, w)
  <2>1. Clean(r) \in Recs /\ CleanedFrom(Clean(r), r)
    BY Cleaned
  <2> USE <2>1
  <2> WITNESS Clean(r) \in Recs, TRUE \in BOOLEAN
  <2> QED BY <1>1, <2>1 DEF CleanAndSave
<1>2. CASE \E m \in CleanFailed(r) : Install(m, c, w) /\ file' = file
  <2>1. PICK m \in CleanFailed(r) : Install(m, c, w) /\ file' = file
    BY <1>2
  <2>2. m \in Recs /\ CleanedFrom(m, r)
    BY Cleaned DEF CleanFailed
  <2> USE <2>2
  <2> WITNESS m \in Recs, FALSE \in BOOLEAN
  <2> QED BY <2>1, <2>2
<1> QED BY <1>1, <1>2 DEF CleanAndTryToSave

\* RemoveSingle: the record is gone and that is saved, or it is still there.
LEMMA Removes ==
    ASSUME NEW r \in Recs, NEW p \in Pid, NEW k \in Priv, NEW c, NEW w, NEW ok \in BOOLEAN,
           RemoveSingle(p, k, r, c, w, ok)
    PROVE  \E m \in Recs :
              /\ Install(m, c, w)
              /\ \A q \in Pid, l \in Priv : q # p \/ l # k =>
                    m[q][l] = r[q][l] \/ (m[q][l] = None /\ r[q][l] # None /\ NeedClean(r[q][l]))
              /\ IF ok THEN m[p][k] = None /\ ToPersistFile(m, c, clock)
                       ELSE m[p][k] = r[p][k] /\ file' = file
<1>1. PICK g \in Recs : g = With(r, p, k, None)
  BY WithIs
<1>2. g[p][k] = None /\ \A q \in Pid, l \in Priv : q # p \/ l # k => g[q][l] = r[q][l]
  BY <1>1, WithIs
<1>3. CASE ok
  <2>1. Clean(g) \in Recs /\ CleanedFrom(Clean(g), g)
    BY Cleaned
  <2>2. Install(Clean(g), c, w) /\ ToPersistFile(Clean(g), c, clock)
    BY <1>1, <1>3 DEF RemoveSingle, CleanAndSave
  <2> USE <2>1
  <2> WITNESS Clean(g) \in Recs
  <2> QED BY <1>2, <1>3, <2>1, <2>2 DEF CleanedFrom
<1>4. CASE ~ok
  <2>1. PICK h \in CleanFailed(g) : Install(With(h, p, k, r[p][k]), c, w) /\ file' = file
    BY <1>1, <1>4 DEF RemoveSingle, RollbackDelSingleRecord
  <2>2. h \in Recs /\ CleanedFrom(h, g)
    BY Cleaned DEF CleanFailed
  <2>3. r[p][k] \in Record \cup {None}
    BY DEF Recs
  <2>4. PICK m \in Recs : m = With(h, p, k, r[p][k])
    BY <2>2, <2>3, WithIs
  <2>5. m[p][k] = r[p][k] /\ \A q \in Pid, l \in Priv : q # p \/ l # k => m[q][l] = h[q][l]
    BY <2>2, <2>3, <2>4, WithIs
  <2> WITNESS m \in Recs
  <2> QED BY <1>2, <1>4, <2>1, <2>2, <2>4, <2>5 DEF CleanedFrom
<1> QED BY <1>3, <1>4

-----------------------------------------------------------------------------
(* A step that installs the map m, and saves it or leaves the file.        *)

CellStep(m, saved, q, l) ==
    /\ m[q][l] # None => Sound(l, m[q][l])
    /\ Live(q) /\ l \in Timed /\ m[q][l] # None =>
          /\ m[q][l].exp <= clock + Timeout
          /\ ~saved /\ Filed(q, l) => file.rec[q][l].exp <= m[q][l].exp
    /\ Live(q) /\ l \in Kernel /\ m[q][l] = Authorized => <<q, l>> \in kernel'
    /\ "load" \notin Faults /\ Live(q) /\ l \in Kernel /\ told'[q][l] = "acquired" =>
          /\ m[q][l] # None /\ <<q, l>> \in kernel'
          /\ ~saved => Filed(q, l) /\ file.upd <= clock
    /\ {"load", "delete"} \cap Faults = {} /\ Live(q) =>
          /\ ~saved /\ Loadable(q, l) => m[q][l] # None
          /\ told'[q][l] = "released" => m[q][l] = None /\ (~saved => ~Loadable(q, l))

\* Privileges that the call is not about.
LEMMA OtherCell ==
    ASSUME IInv, up, kernel \subseteq kernel', NEW m \in Recs, NEW saved \in BOOLEAN,
           NEW q \in Pid, NEW l \in Priv, told'[q][l] = told[q][l],
           \/ m[q][l] = rec[q][l]
           \/ m[q][l] = None /\ rec[q][l] # None /\ (NeedClean(rec[q][l]) \/ ~Live(q))
    PROVE  CellStep(m, saved, q, l)
<1>1. Cell(q, l)
  BY DEF IInv, Cells
<1>2. CASE m[q][l] = rec[q][l]
  BY <1>1, <1>2 DEF Cell, Right, Kept, Gone, CellStep
<1>3. CASE m[q][l] = None /\ rec[q][l] # None /\ ~Live(q)
  BY <1>3, Statuses DEF CellStep
<1>4. CASE m[q][l] = None /\ rec[q][l] # None /\ NeedClean(rec[q][l]) /\ Live(q)
  <2>1. l \notin Kernel
    BY <1>1, <1>4, Statuses DEF Cell, Right, Sound, NeedClean
  <2>2. l \in Timed
    BY <2>1 DEF Priv
  <2>3. rec[q][l] \in Record
    BY <1>4 DEF IInv, Types, Recs
  <2>4. ~Loadable(q, l)
    <3> SUFFICES ASSUME Loadable(q, l) PROVE FALSE
      OBVIOUS
    <3>1. file.rec[q][l] \in Record
      BY DEF Loadable, Filed, IInv, Types, FileContent
    <3>2. file.rec[q][l].exp <= rec[q][l].exp /\ file.rec[q][l].status = "NOT_REQUIRED"
      BY <1>1, <1>4, <2>2 DEF Loadable, Filed, Cell, Right, Sound
    <3>3. /\ file.rec[q][l].exp \in Nat /\ rec[q][l].exp \in Nat
          /\ clock \in Nat /\ Offset \in Nat
      BY <2>3, <3>1, PrivilegeConstants DEF Record, IInv, Types
    <3> QED BY <1>4, <3>2, <3>3 DEF Loadable, NeedClean
  <2> QED BY <1>1, <1>4, <2>1, <2>4, Statuses DEF CellStep, Cell, Gone
<1> QED BY <1>2, <1>3, <1>4

Times == [inc : [Pid -> 0 .. MaxClock], own : [Pid -> Nat]]

\* The start times and lives of the processes that have records in m.
OwnersOf(m, c) ==
    \A q \in Pid : Cached(m, q) =>
        /\ c.inc[q] # 0
        /\ Identified => c.inc[q] = inc[q] /\ c.own[q] = life[q]

\* Such a step keeps the invariant if every privilege is as it should be.
LEMMA Put ==
    ASSUME IInv, up, up' = up, UNCHANGED world,
           kernel \subseteq kernel', kernel' \subseteq alive \X Kernel,
           NEW m \in Recs, NEW c \in Times, NEW w \in SUBSET Pid,
           NEW saved \in BOOLEAN, NEW now \in Nat, now <= clock,
           Install(m, c, w), IF saved THEN ToPersistFile(m, c, now) ELSE file' = file,
           OwnersOf(m, c), TickWorld /\ ~Empty(m) => now >= Ready /\ clock >= Ready,
           TickWorld => flight' = None \/ flight'.now >= Ready,
           told' \in [Pid -> [Priv -> Answers]],
           flight' \in Flight \cup {None}, InFlight',
           \A q \in Pid, l \in Priv : CellStep(m, saved, q, l)
    PROVE  IInv'
<1>0. Types /\ Own /\ Dated
  BY DEF IInv
<1>1. /\ rec' = m
      /\ \A q \in Pid : /\ cinc'[q] = IF Cached(m, q) THEN c.inc[q] ELSE 0
                        /\ own'[q] = IF Cached(m, q) THEN c.own[q] ELSE 0
      /\ UNCHANGED <<clock, alive, inc, life, booting, env, stops>> /\ up'
  BY DEF Install, Owners, world
<1>2. \/ file' = file /\ (saved => Empty(m) /\ ("delete" \in Faults \/ file = None))
      \/ file' = None /\ saved /\ Empty(m)
      \/ /\ file' = [upd |-> now, inc |-> Owners(m, c.inc), own |-> Owners(m, c.own), rec |-> m]
         /\ saved /\ ~Empty(m)
  BY DEF ToPersistFile
<1>3. [upd |-> now, inc |-> Owners(m, c.inc), own |-> Owners(m, c.own), rec |-> m] \in FileContent
  BY PrivilegeConstants DEF FileContent, Owners, Recs, Times
<1>4. Types'
  <2>1. cinc' \in [Pid -> 0 .. MaxClock] /\ own' \in [Pid -> Nat]
    BY PrivilegeConstants DEF Install, Owners, Times
  <2>2. watch' \subseteq {p \in Pid : Cached(rec', p)}
    BY <1>1 DEF Install
  <2>3. file' \in FileContent \cup {None}
    BY <1>0, <1>2, <1>3 DEF Types
  <2> QED BY <1>0, <1>1, <2>1, <2>2, <2>3 DEF Types
<1>5. file' # None =>
         \/ file' = file /\ (saved => Empty(m) /\ "delete" \in Faults)
         \/ /\ saved /\ ~Empty(m) /\ file'.upd = now /\ file'.rec = m
            /\ \A q \in Pid : /\ file'.inc[q] = IF Cached(m, q) THEN c.inc[q] ELSE 0
                              /\ file'.own[q] = IF Cached(m, q) THEN c.own[q] ELSE 0
  BY <1>2 DEF Owners
<1>6. Own' /\ Dated'
  <2>0. TickWorld' <=> TickWorld
    BY <1>1 DEF TickWorld
  <2>1. \A p \in Pid : inc[p] \in Nat /\ life[p] \in Nat
    BY <1>0, PrivilegeConstants DEF Types
  <2>2. CASE file' # file /\ file' # None
    <3>1. /\ saved /\ ~Empty(m) /\ file'.upd = now
          /\ \A q \in Pid : /\ file'.inc[q] = IF Cached(m, q) THEN c.inc[q] ELSE 0
                            /\ file'.own[q] = IF Cached(m, q) THEN c.own[q] ELSE 0
      BY <1>5, <2>2
    <3>2. Own'
      BY <1>0, <1>1, <2>0, <2>1, <3>1 DEF Own, OwnersOf
    <3>3. TickWorld => \A q \in Pid : file'.inc[q] <= inc'[q]
      BY <1>1, <2>1, <3>1 DEF OwnersOf, TickWorld
    <3> QED BY <1>0, <1>1, <2>0, <3>1, <3>2, <3>3 DEF Dated
  <2>3. CASE file' = file \/ file' = None
    <3>1. Own'
      BY <1>0, <1>1, <2>0, <2>3 DEF Own, OwnersOf
    <3> QED BY <1>0, <1>1, <2>0, <2>3, <3>1 DEF Dated
  <2> QED BY <2>2, <2>3
<1>7. Cells'
  <2> SUFFICES ASSUME NEW p \in Pid, NEW k \in Priv PROVE Cell(p, k)'
    BY DEF Cells
  <2>0. (Live(p)' <=> Live(p)) /\ Faults' = Faults /\ (Live(p) => Identified)
    BY <1>1 DEF Live, Faults
  <2>1. CellStep(m, saved, p, k) /\ Cell(p, k)
    BY DEF IInv, Cells
  <2>2. m[p][k] # None => Cached(m, p) /\ ~Empty(m)
    BY DEF Cached, Empty
  <2>3. m[p][k] # None => m[p][k] \in Record
    BY DEF Recs
  <2>4. CASE file' # None /\ saved /\ ~Empty(m) /\ file'.upd = now /\ file'.rec = m
             /\ \A q \in Pid : file'.own[q] = IF Cached(m, q) THEN c.own[q] ELSE 0
    <3>1. /\ (Filed(p, k))' => m[p][k] # None
          /\ Identified /\ m[p][k] # None => (Filed(p, k))'
      BY <1>1, <2>2, <2>4 DEF Filed, OwnersOf
    <3>2. Right(p, k)'
      <4>1. m[p][k] # None => m[p][k].exp \in Nat
        BY <2>3 DEF Record
      <4> QED BY <1>1, <2>0, <2>1, <2>4, <3>1, <4>1 DEF Right, CellStep
    <3>3. Kept(p, k)'
      BY <1>1, <2>0, <2>1, <2>4, <3>1 DEF Kept, CellStep
    <3>4. Gone(p, k)'
      BY <1>1, <2>0, <2>1, <3>1 DEF Gone, CellStep, Loadable
    <3> QED BY <3>2, <3>3, <3>4 DEF Cell
  <2>5. CASE file' = file /\ ~saved
    <3>1. /\ (Filed(p, k))' <=> Filed(p, k)
          /\ (Loadable(p, k))' <=> Loadable(p, k)
      BY <1>1, <2>5 DEF Filed, Loadable, NeedClean
    <3>2. Right(p, k)'
      BY <1>1, <2>0, <2>1, <2>5, <3>1 DEF Right, CellStep, Cell
    <3>3. Kept(p, k)'
      BY <1>1, <2>0, <2>1, <2>5, <3>1 DEF Kept, CellStep
    <3>4. Gone(p, k)'
      BY <1>1, <2>0, <2>1, <2>5, <3>1 DEF Gone, CellStep
    <3> QED BY <3>2, <3>3, <3>4 DEF Cell
  <2>6. CASE (file' = file /\ Empty(m) /\ "delete" \in Faults) \/ file' = None
    <3>0. CASE file' = None /\ ~saved
      BY <2>5, <3>0
    <3>1. CASE saved /\ Empty(m)
      <4>1. m[p][k] = None
        BY <2>2, <3>1
      <4>2. (Filed(p, k))' => Filed(p, k) /\ file' = file
        BY <1>1, <2>6 DEF Filed
      <4>3. Right(p, k)'
        BY <1>1, <2>0, <2>1, <2>6, <4>1, <4>2, Statuses DEF Right, CellStep, Cell
      <4>4. Kept(p, k)'
        BY <1>1, <2>0, <2>1, <4>1 DEF Kept, CellStep
      <4>5. Gone(p, k)'
        BY <1>1, <2>0, <2>1, <2>6, <4>1 DEF Gone, CellStep, Loadable, Filed
      <4> QED BY <4>3, <4>4, <4>5 DEF Cell
    <3> QED BY <1>2, <1>3, <2>5, <2>6, <3>0, <3>1, NoneFacts
  <2> QED BY <1>5, <1>2, <2>4, <2>5, <2>6
<1> QED BY <1>4, <1>6, <1>7 DEF IInv

-----------------------------------------------------------------------------
(* The start times of a map that has one record more than the map of the   *)
(* service, or that has been cleaned.                                      *)

\* A new record has the start time of the running process.
LEMMA OwnTimes ==
    ASSUME IInv, NEW p \in Pid, CanHaveRecord(p), NEW m \in Recs,
           \A q \in Pid, l \in Priv : q # p => m[q][l] \in {rec[q][l], None}
    PROVE  StartTimes(p) \in Times /\ Watched(p) \in SUBSET Pid /\ OwnersOf(m, StartTimes(p))
<1>1. Types /\ Own /\ (\A q \in Pid : inc[q] \in 0 .. MaxClock /\ life[q] \in Nat)
  BY PrivilegeConstants DEF IInv, Types
<1>2. StartTimes(p) \in Times /\ Watched(p) \in SUBSET Pid
  BY <1>1 DEF Types, StartTimes, Known, Watched, Times
<1>3. /\ StartTimes(p).inc[p] # 0
      /\ Identified => StartTimes(p).inc[p] = inc[p] /\ StartTimes(p).own[p] = life[p]
  BY <1>1 DEF Types, Own, StartTimes, Known, CanHaveRecord
<1>4. ASSUME NEW q \in Pid, q # p, Cached(m, q)
      PROVE  /\ StartTimes(p).inc[q] # 0
             /\ Identified => StartTimes(p).inc[q] = inc[q] /\ StartTimes(p).own[q] = life[q]
  <2>1. Cached(rec, q)
    BY <1>4 DEF Cached
  <2>2. StartTimes(p).inc[q] = cinc[q] /\ StartTimes(p).own[q] = own[q]
    BY <1>1, <1>4 DEF Types, StartTimes, Known
  <2> QED BY <1>1, <2>1, <2>2 DEF Own
<1> QED BY <1>2, <1>3, <1>4 DEF OwnersOf

\* The same without a new record.
LEMMA CachedTimes ==
    ASSUME IInv, NEW m \in Recs,
           \A q \in Pid : Cached(m, q) => Cached(rec, q)
    PROVE  /\ Known \in Times /\ watch \in SUBSET Pid /\ OwnersOf(m, Known)
           /\ TickWorld /\ ~Empty(m) => clock >= Ready
<1>1. Known \in Times /\ watch \in SUBSET Pid /\ OwnersOf(m, Known)
  BY DEF IInv, Types, Own, Known, Times, OwnersOf
<1>2. ~Empty(m) => ~Empty(rec)
  BY DEF Empty
<1> QED BY <1>1, <1>2 DEF IInv, Dated

\* The uptime is a number.
LEMMA ClockIsNat == IInv => clock \in Nat /\ MaxClock \in Nat
BY PrivilegeConstants DEF IInv, Types

\* A time-limited privilege enters the cache.
LEMMA AddCacheStep ==
    ASSUME IInv, NEW p \in Pid, NEW k \in Timed, NEW s \in 0 .. clock, AddCache(p, k, s)
    PROVE  IInv'
<1>1. Running /\ CanHaveRecord(p) /\ up /\ flight = None /\ k \in Priv /\ k \notin Kernel
  BY PrivilegeConstants DEF AddCache, Running, Priv
<1>2. PICK x : x = Granted(s)
  OBVIOUS
<1>3. clock \in Nat /\ Timeout \in Nat /\ Latency \in Nat /\ Offset \in Nat /\ s \in Nat
  BY ClockIsNat, PrivilegeConstants
<1>4. /\ x \in Record /\ x.status = "NOT_REQUIRED" /\ x.exp = clock + Timeout /\ x.safe = s
      /\ clock - s <= Latency
  BY <1>2, <1>3 DEF Granted, Record, Status, AddCache
<1>5. x # None /\ ~NeedClean(x) /\ Sound(k, x)
  BY <1>1, <1>3, <1>4, NoneFacts DEF NeedClean, Sound
<1>6. PICK r \in Recs : r = With(rec, p, k, x)
  BY <1>1, <1>4, WithIs DEF IInv, Types
<1>7. r[p][k] = x /\ \A q \in Pid, l \in Priv : q # p \/ l # k => r[q][l] = rec[q][l]
  BY <1>1, <1>4, <1>6, WithIs DEF IInv, Types
<1>8. PICK m \in Recs, saved \in BOOLEAN :
         /\ CleanedFrom(m, r) /\ Install(m, StartTimes(p), Watched(p))
         /\ IF saved THEN ToPersistFile(m, StartTimes(p), clock) ELSE file' = file
  <2>1. CleanAndTryToSave(r, StartTimes(p), Watched(p))
    BY <1>2, <1>6 DEF AddCache
  <2> QED BY <2>1, TryToSave
<1>9. /\ m[p][k] = x
      /\ \A q \in Pid, l \in Priv : q # p \/ l # k =>
            m[q][l] = rec[q][l] \/ (m[q][l] = None /\ rec[q][l] # None /\ NeedClean(rec[q][l]))
  BY <1>1, <1>5, <1>7, <1>8 DEF CleanedFrom
<1>10. UNCHANGED world /\ kernel' = kernel /\ up' = up /\ flight' = None
  BY <1>1 DEF AddCache
<1>11. /\ told' \in [Pid -> [Priv -> Answers]]
       /\ told'[p][k] = "acquired"
       /\ \A q \in Pid, l \in Priv : q # p \/ l # k => told'[q][l] = told[q][l]
  BY <1>1 DEF AddCache, Tell, IInv, Types, Answers
<1>12. ASSUME NEW q \in Pid, NEW l \in Priv PROVE CellStep(m, saved, q, l)
  <2>1. CASE q # p \/ l # k
    BY <1>1, <1>9, <1>10, <1>11, <2>1, OtherCell
  <2>2. CASE q = p /\ l = k
    <3>1. Live(p) /\ Filed(p, k) => file.rec[p][k].exp <= clock + Timeout
      BY <1>1 DEF IInv, Cells, Cell, Right
    <3>2. x # Authorized
      BY <1>4, Statuses
    <3> QED BY <1>1, <1>3, <1>4, <1>5, <1>9, <1>11, <2>2, <3>1, <3>2 DEF CellStep
  <2> QED BY <2>1, <2>2
<1>13. kernel' \subseteq alive \X Kernel /\ kernel \subseteq kernel' /\ InFlight'
  BY <1>10 DEF IInv, Types, InFlight
<1>14. StartTimes(p) \in Times /\ Watched(p) \in SUBSET Pid /\ OwnersOf(m, StartTimes(p))
  BY <1>1, <1>9, OwnTimes
<1>15. flight' \in Flight \cup {None} /\ clock <= clock /\ clock >= Ready
  BY <1>3, <1>10 DEF AddCache
<1> HIDE <1>2, <1>6
<1> QED BY <1>1, <1>3, <1>8, <1>10, <1>11, <1>12, <1>13, <1>14, <1>15, Put

\* RemoveSingle as a part of a call about p and k that finds the map r.
LEMMA RemoveStep ==
    ASSUME IInv, up, up' = up, UNCHANGED world, kernel' = kernel, flight' = None,
           NEW p \in Pid, NEW k \in Priv, NEW r \in Recs, NEW ok \in BOOLEAN, NEW c, NEW w,
           \A q \in Pid, l \in Priv : q # p \/ l # k => r[q][l] = rec[q][l],
           RemoveSingle(p, k, r, c, w, ok),
           \/ c = Known /\ w = watch /\ Cached(rec, p)
           \/ CanHaveRecord(p) /\ c = StartTimes(p) /\ w = Watched(p) /\ clock >= Ready,
           told' \in [Pid -> [Priv -> Answers]],
           \A q \in Pid, l \in Priv : q # p \/ l # k => told'[q][l] = told[q][l],
           "load" \notin Faults /\ ok /\ k \in Kernel /\ Live(p) => told'[p][k] # "acquired",
           ~ok => \/ r[p][k] = rec[p][k] /\ told'[p][k] = told[p][k]
                  \/ k \in Kernel /\ r[p][k] = Unconfirmed /\ told'[p][k] = "refused"
    PROVE  IInv'
<1>1. PICK m \in Recs :
         /\ Install(m, c, w)
         /\ \A q \in Pid, l \in Priv : q # p \/ l # k =>
               m[q][l] = r[q][l] \/ (m[q][l] = None /\ r[q][l] # None /\ NeedClean(r[q][l]))
         /\ IF ok THEN m[p][k] = None /\ ToPersistFile(m, c, clock)
                  ELSE m[p][k] = r[p][k] /\ file' = file
  BY Removes
<1>2. \A q \in Pid, l \in Priv : q # p \/ l # k =>
         m[q][l] = rec[q][l] \/ (m[q][l] = None /\ rec[q][l] # None /\ NeedClean(rec[q][l]))
  BY <1>1
<1>3. /\ c \in Times /\ w \in SUBSET Pid /\ OwnersOf(m, c)
      /\ TickWorld /\ ~Empty(m) => clock >= Ready
  <2>1. \A q \in Pid, l \in Priv : q # p => m[q][l] \in {rec[q][l], None}
    BY <1>2
  <2>2. CASE c = Known /\ w = watch /\ Cached(rec, p)
    <3>1. \A q \in Pid : Cached(m, q) => Cached(rec, q)
      BY <2>1, <2>2 DEF Cached
    <3> QED BY <2>2, <3>1, CachedTimes
  <2>3. CASE CanHaveRecord(p) /\ c = StartTimes(p) /\ w = Watched(p) /\ clock >= Ready
    BY <2>1, <2>3, OwnTimes
  <2> QED BY <2>2, <2>3
<1>4. ASSUME NEW q \in Pid, NEW l \in Priv PROVE CellStep(m, ok, q, l)
  <2>1. CASE q # p \/ l # k
    BY <1>2, <2>1, OtherCell
  <2>2. CASE q = p /\ l = k /\ ~ok /\ r[p][k] = rec[p][k] /\ told'[p][k] = told[p][k]
    BY <1>1, <2>2, OtherCell
  <2>3. CASE q = p /\ l = k /\ ~ok /\ k \in Kernel /\ r[p][k] = Unconfirmed
          /\ told'[p][k] = "refused"
    <3>1. m[p][k] = Unconfirmed /\ k \notin Timed
      BY <1>1, <2>3, PrivilegeConstants
    <3> QED BY <2>3, <3>1, Statuses DEF CellStep, Sound
  <2>4. CASE q = p /\ l = k /\ ok
    BY <1>1, <2>4, Statuses DEF CellStep
  <2> QED BY <2>1, <2>2, <2>3, <2>4
<1>5. kernel' \subseteq alive \X Kernel /\ kernel \subseteq kernel' /\ InFlight' /\ clock \in Nat
  BY ClockIsNat DEF IInv, Types, InFlight
<1>6. flight' \in Flight \cup {None} /\ clock <= clock
  BY <1>5
<1> QED BY <1>1, <1>3, <1>4, <1>5, <1>6, Put

\* The three steps of the acquisition of a kernel privilege.
LEMMA PrepareStep ==
    ASSUME IInv, NEW p \in Pid, NEW k \in Kernel, PrepareKernelAuthCache(p, k)
    PROVE  IInv'
<1>1. /\ CanHaveRecord(p) /\ up /\ flight = None /\ k \in Priv /\ k \notin Timed
      /\ UNCHANGED world /\ kernel' = kernel /\ up' = up /\ clock >= Ready
  BY PrivilegeConstants DEF PrepareKernelAuthCache, Running, Priv
<1>2. PICK r \in Recs : r = With(rec, p, k, Unconfirmed)
  BY <1>1, WithIs, Statuses DEF IInv, Types
<1>3. r[p][k] = Unconfirmed /\ \A q \in Pid, l \in Priv : q # p \/ l # k => r[q][l] = rec[q][l]
  BY <1>1, <1>2, WithIs, Statuses DEF IInv, Types
<1>4. /\ told' \in [Pid -> [Priv -> Answers]]
      /\ told'[p][k] \in {"nothing", "acquired", "refused"}
      /\ told'[p][k] = "acquired" => told[p][k] = "acquired"
      /\ \A q \in Pid, l \in Priv : q # p \/ l # k => told'[q][l] = told[q][l]
  BY <1>1 DEF PrepareKernelAuthCache, Tell, Ask, IInv, Types, Answers
<1>5. CASE \E ok \in BOOLEAN : RemoveSingle(p, k, r, StartTimes(p), Watched(p), ok)
        /\ flight' = None /\ Tell(p, k, "refused")
  <2>0. told'[p][k] = "refused"
    BY <1>1, <1>5 DEF Tell, IInv, Types
  <2>1. PICK ok \in BOOLEAN : RemoveSingle(p, k, r, StartTimes(p), Watched(p), ok) /\ flight' = None
    BY <1>5
  <2> QED BY <1>1, <1>3, <1>4, <2>0, <2>1, RemoveStep
<1>6. CASE \E now \in {clock} \cup {0 : f \in Faults \cap {"uptime"}} :
              /\ Install(r, StartTimes(p), Watched(p))
              /\ ToPersistFile(r, StartTimes(p), now)
              /\ flight' = [pid |-> p, priv |-> k, now |-> now, step |-> "set"]
  <2>0. clock \in Nat
    BY ClockIsNat
  <2>1. PICK now \in Nat : /\ Install(r, StartTimes(p), Watched(p))
                           /\ ToPersistFile(r, StartTimes(p), now)
                           /\ flight' = [pid |-> p, priv |-> k, now |-> now, step |-> "set"]
                           /\ now <= clock /\ (now = clock \/ "uptime" \in Faults)
    BY <1>6, <2>0
  <2>2. StartTimes(p) \in Times /\ Watched(p) \in SUBSET Pid /\ OwnersOf(r, StartTimes(p))
    BY <1>1, <1>3, OwnTimes
  <2>3. flight' \in Flight /\ flight'.pid = p /\ flight'.priv = k /\ flight'.now = now
        /\ flight'.step = "set"
    BY <2>1 DEF Flight
  <2>4. Cached(r, p) /\ ~Empty(r)
    BY <1>1, <1>3, Statuses DEF Cached, Empty
  <2>5. InFlight'
    <3>1. file' = [upd |-> now, inc |-> Owners(r, StartTimes(p).inc),
                   own |-> Owners(r, StartTimes(p).own), rec |-> r]
      BY <2>1, <2>4 DEF ToPersistFile
    <3>2. file' # None
      <4>1. file' \in FileContent
        BY <2>2, <3>1, PrivilegeConstants DEF FileContent, Owners, Recs, Times
      <4> QED BY <4>1, NoneFacts
    <3>3. file'.upd = now /\ file'.rec = r /\ (Identified => file'.own[p] = life[p])
      BY <2>2, <2>4, <3>1 DEF Owners, OwnersOf
    <3>4. rec' = r /\ up' /\ clock' = clock /\ life' = life
      BY <1>1, <2>1 DEF Install, world
    <3> QED BY <1>3, <1>4, <2>1, <2>3, <3>2, <3>3, <3>4, Statuses DEF InFlight, Filed
  <2>6. ASSUME NEW q \in Pid, NEW l \in Priv PROVE CellStep(r, TRUE, q, l)
    <3>1. CASE q # p \/ l # k
      BY <1>1, <1>3, <1>4, <3>1, OtherCell
    <3>2. CASE q = p /\ l = k
      <4>1. Kept(p, k)
        BY <1>1 DEF IInv, Cells, Cell
      <4> QED BY <1>1, <1>3, <1>4, <3>2, <4>1, Statuses DEF CellStep, Sound, Kept
    <3> QED BY <3>1, <3>2
  <2>7. kernel' \subseteq alive \X Kernel /\ kernel \subseteq kernel'
    BY <1>1 DEF IInv, Types
  <2>8. TickWorld => now >= Ready
    BY <1>1, <2>1 DEF TickWorld, Identified, Faults, IInv, Types
  <2> HIDE <1>6
  <2> QED BY <1>1, <1>4, <2>1, <2>2, <2>3, <2>5, <2>6, <2>7, <2>8, Put
<1> QED BY <1>2, <1>5, <1>6 DEF PrepareKernelAuthCache

\* A call that leaves the map installs the map.
LEMMA SelfInstall == IInv /\ UNCHANGED cache => Install(rec, Known, watch)
<1> SUFFICES ASSUME IInv, UNCHANGED cache PROVE Install(rec, Known, watch)
  OBVIOUS
<1>1. rec' = rec /\ cinc' = cinc /\ own' = own /\ watch' = watch
  BY DEF cache
<1>2. cinc = Owners(rec, Known.inc) /\ own = Owners(rec, Known.own)
  BY DEF IInv, Types, Own, Owners, Known
<1>3. watch = {p \in watch : Cached(rec, p)}
  BY DEF IInv, Types
<1> QED BY <1>1, <1>2, <1>3 DEF Install

LEMMA SetKernelStep ==
    ASSUME IInv, SetKernelAuthorization
    PROVE  IInv'
<1>1. /\ flight # None /\ flight.step = "set" /\ UNCHANGED world /\ up' = up
  BY DEF SetKernelAuthorization
<1>2. PICK p \in Pid, k \in Kernel : p = flight.pid /\ k = flight.priv
  BY <1>1 DEF IInv, Types, Flight
<1>3. /\ up /\ flight \in Flight /\ flight.now <= clock /\ rec[p][k] = Unconfirmed
      /\ TickWorld => flight.now >= Ready
      /\ Identified => Filed(p, k) /\ file.upd <= clock
      /\ k \in Priv /\ rec \in Recs
      /\ told \in [Pid -> [Priv -> Answers]]
  BY <1>1, <1>2 DEF IInv, InFlight, Dated, Types, Priv
<1>4. Cached(rec, p)
  BY <1>3, Statuses DEF Cached
<1>5. CASE /\ p \in alive /\ kernel' = kernel \cup {<<p, k>>}
           /\ flight' = [flight EXCEPT !.step = "confirm"] /\ UNCHANGED <<cache, file, told>>
  <2>1. Install(rec, Known, watch) /\ file' = file /\ rec' = rec
    BY <1>5, SelfInstall DEF cache
  <2>2. /\ flight' \in Flight /\ flight'.pid = p /\ flight'.priv = k /\ flight'.now = flight.now
    BY <1>2, <1>3, <1>5 DEF Flight
  <2>3. InFlight'
    <3>1. life' = life /\ alive' = alive /\ clock' = clock /\ up'
      BY <1>1, <1>3 DEF world
    <3>2. Identified => (Filed(p, k))'
      BY <1>3, <2>1, <3>1 DEF Filed
    <3> QED BY <1>1, <1>3, <1>5, <2>1, <2>2, <3>1, <3>2 DEF InFlight, Filed, Live
  <2>4. kernel \subseteq kernel' /\ kernel' \subseteq alive \X Kernel
    BY <1>5 DEF IInv, Types
  <2>5. \A q \in Pid, l \in Priv : CellStep(rec, FALSE, q, l)
    BY <1>1, <1>3, <1>5, <2>4, OtherCell
  <2>6. /\ clock \in Nat /\ clock <= clock /\ told' \in [Pid -> [Priv -> Answers]]
        /\ TickWorld => flight'.now >= Ready
    BY <1>3, <1>5, <2>2, ClockIsNat
  <2>7. /\ Known \in Times /\ watch \in SUBSET Pid /\ OwnersOf(rec, Known)
        /\ TickWorld /\ ~Empty(rec) => clock >= Ready
    BY <1>3, CachedTimes
  <2> HIDE <1>5
  <2> QED BY <1>1, <1>3, <2>1, <2>2, <2>3, <2>4, <2>5, <2>6, <2>7, Put
<1>6. CASE /\ \E ok \in BOOLEAN : RemoveSingle(p, k, rec, Known, watch, ok)
           /\ flight' = None /\ UNCHANGED kernel /\ Tell(p, k, "refused")
  <2>1. PICK ok \in BOOLEAN : RemoveSingle(p, k, rec, Known, watch, ok)
    BY <1>6
  <2>2. /\ told' \in [Pid -> [Priv -> Answers]] /\ told'[p][k] = "refused"
        /\ \A q \in Pid, l \in Priv : q # p \/ l # k => told'[q][l] = told[q][l]
    BY <1>3, <1>6 DEF Tell, Answers
  <2> QED BY <1>1, <1>3, <1>4, <1>6, <2>1, <2>2, RemoveStep
<1> QED BY <1>2, <1>5, <1>6 DEF SetKernelAuthorization

LEMMA ConfirmStep ==
    ASSUME IInv, ConfirmKernelAuth
    PROVE  IInv'
<1>1. /\ flight # None /\ flight.step = "confirm" /\ UNCHANGED world /\ up' = up
      /\ kernel' = kernel /\ flight' = None
  BY DEF ConfirmKernelAuth
<1>2. PICK p \in Pid, k \in Kernel, now \in Nat : p = flight.pid /\ k = flight.priv
        /\ now = flight.now
  BY <1>1 DEF IInv, Types, Flight
<1>3. /\ up /\ now <= clock /\ rec[p][k] = Unconfirmed
      /\ Identified => Filed(p, k) /\ file.upd <= clock
      /\ Live(p) => <<p, k>> \in kernel
      /\ TickWorld => now >= Ready
      /\ k \in Priv /\ k \notin Timed /\ rec \in Recs
      /\ told \in [Pid -> [Priv -> Answers]]
  BY <1>1, <1>2, PrivilegeConstants DEF IInv, InFlight, Dated, Types, Priv
<1>4. Cached(rec, p)
  BY <1>3, Statuses DEF Cached
<1>5. /\ told' \in [Pid -> [Priv -> Answers]]
      /\ told'[p][k] = "acquired"
      /\ \A q \in Pid, l \in Priv : q # p \/ l # k => told'[q][l] = told[q][l]
  BY <1>2, <1>3 DEF ConfirmKernelAuth, Tell, Answers
<1>6. PICK m \in Recs, saved \in BOOLEAN :
         /\ Install(m, Known, watch) /\ IF saved THEN ToPersistFile(m, Known, now) ELSE file' = file
         /\ m[p][k] \in {Authorized, Unconfirmed}
         /\ \A q \in Pid, l \in Priv : q # p \/ l # k => m[q][l] = rec[q][l]
  <2>1. CASE UNCHANGED <<cache, file>>
    <3>1. Install(rec, Known, watch) /\ file' = file
      BY <2>1, SelfInstall
    <3> QED BY <1>3, <3>1
  <2>2. CASE Install(With(rec, p, k, Authorized), Known, watch)
             /\ ToPersistFile(With(rec, p, k, Authorized), Known, now)
    <3>1. PICK m \in Recs : m = With(rec, p, k, Authorized)
      BY <1>3, WithIs, Statuses
    <3>2. m[p][k] = Authorized /\ \A q \in Pid, l \in Priv : q # p \/ l # k => m[q][l] = rec[q][l]
      BY <1>3, <3>1, WithIs, Statuses
    <3> QED BY <2>2, <3>1, <3>2
  <2> QED BY <1>2, <2>1, <2>2 DEF ConfirmKernelAuth
<1>7. ASSUME NEW q \in Pid, NEW l \in Priv PROVE CellStep(m, saved, q, l)
  <2>1. CASE q # p \/ l # k
    BY <1>1, <1>3, <1>5, <1>6, <2>1, OtherCell
  <2>2. CASE q = p /\ l = k
    BY <1>1, <1>3, <1>5, <1>6, <2>2, Statuses DEF CellStep, Sound, Live
  <2> QED BY <2>1, <2>2
<1>8. /\ Known \in Times /\ watch \in SUBSET Pid /\ OwnersOf(m, Known)
      /\ TickWorld /\ ~Empty(m) => clock >= Ready
  <2>1. \A q \in Pid : Cached(m, q) => Cached(rec, q)
    BY <1>4, <1>6 DEF Cached
  <2> QED BY <2>1, CachedTimes
<1>9. /\ flight' \in Flight \cup {None} /\ InFlight'
      /\ kernel \subseteq kernel' /\ kernel' \subseteq alive \X Kernel
  BY <1>1 DEF InFlight, IInv, Types
<1> QED BY <1>1, <1>3, <1>5, <1>6, <1>7, <1>8, <1>9, Put

\* A check finds an unconfirmed record.
LEMMA HasKernelStep ==
    ASSUME IInv, NEW p \in Pid, NEW k \in Kernel, HasKernelAuthorization(p, k)
    PROVE  IInv'
<1>1. /\ up /\ flight = None /\ rec[p][k] = Unconfirmed /\ k \in Priv /\ k \notin Timed
      /\ UNCHANGED world /\ kernel' = kernel /\ up' = up /\ flight' = None /\ told' = told
  BY PrivilegeConstants DEF HasKernelAuthorization, Running, Priv
<1>2. /\ rec \in Recs /\ told \in [Pid -> [Priv -> Answers]]
      /\ Cell(p, k) /\ Cached(rec, p)
  BY <1>1, Statuses DEF IInv, Types, Cells, Cached
<1>3. CASE <<p, k>> \notin kernel /\ \E ok \in BOOLEAN : RemoveSingle(p, k, rec, Known, watch, ok)
  <2>1. PICK ok \in BOOLEAN : RemoveSingle(p, k, rec, Known, watch, ok)
    BY <1>3
  <2>2. "load" \notin Faults /\ Live(p) => told[p][k] # "acquired"
    BY <1>2, <1>3 DEF Cell, Kept
  <2> QED BY <1>1, <1>2, <2>1, <2>2, RemoveStep
<1>4. CASE <<p, k>> \in kernel /\ UpdateToAuthorized(p, k)
  <2>1. PICK m \in Recs : m = With(rec, p, k, Authorized)
    BY <1>1, <1>2, WithIs, Statuses
  <2>2. m[p][k] = Authorized /\ \A q \in Pid, l \in Priv : q # p \/ l # k => m[q][l] = rec[q][l]
    BY <1>1, <1>2, <2>1, WithIs, Statuses
  <2>3. Install(m, Known, watch) /\ ToPersistFile(m, Known, clock)
    BY <1>4, <2>1 DEF UpdateToAuthorized
  <2>4. ASSUME NEW q \in Pid, NEW l \in Priv PROVE CellStep(m, TRUE, q, l)
    <3>1. CASE q # p \/ l # k
      BY <1>1, <2>2, <3>1, OtherCell
    <3>2. CASE q = p /\ l = k
      BY <1>1, <1>2, <1>4, <2>2, <3>2, Statuses DEF CellStep, Sound, Cell, Kept, Gone
    <3> QED BY <3>1, <3>2
  <2>5. /\ Known \in Times /\ watch \in SUBSET Pid /\ OwnersOf(m, Known)
        /\ TickWorld /\ ~Empty(m) => clock >= Ready
    <3>1. \A q \in Pid : Cached(m, q) => Cached(rec, q)
      BY <1>2, <2>2 DEF Cached
    <3> QED BY <3>1, CachedTimes
  <2>6. /\ flight' \in Flight \cup {None} /\ InFlight' /\ clock \in Nat /\ clock <= clock
        /\ kernel \subseteq kernel' /\ kernel' \subseteq alive \X Kernel
    BY <1>1, ClockIsNat DEF InFlight, IInv, Types
  <2> QED BY <1>1, <1>2, <2>3, <2>4, <2>5, <2>6, Put
<1> QED BY <1>3, <1>4 DEF HasKernelAuthorization

\* A process releases a privilege.
LEMMA ReleaseStep ==
    ASSUME IInv, NEW p \in Pid, NEW k \in Priv, ReleaseAuthorization(p, k)
    PROVE  IInv'
<1>1. /\ up /\ flight = None /\ p \in alive /\ Running
      /\ UNCHANGED world /\ kernel' = kernel /\ up' = up /\ flight' = None
  BY DEF ReleaseAuthorization, Running
<1>2. /\ rec \in Recs /\ told \in [Pid -> [Priv -> Answers]]
      /\ Cell(p, k)
  BY DEF IInv, Types, Cells
<1>3. CASE ~Cached(rec, p) /\ Tell(p, k, "released") /\ UNCHANGED <<cache, file>>
  <2>1. /\ told' \in [Pid -> [Priv -> Answers]]
        /\ told'[p][k] = "released"
        /\ \A q \in Pid, l \in Priv : q # p \/ l # k => told'[q][l] = told[q][l]
    BY <1>2, <1>3 DEF Tell, Answers
  <2>2. Install(rec, Known, watch) /\ file' = file
    BY <1>3, SelfInstall
  <2>3. rec[p][k] = None
    BY <1>3 DEF Cached
  <2>4. ASSUME NEW q \in Pid, NEW l \in Priv PROVE CellStep(rec, FALSE, q, l)
    <3>1. CASE q # p \/ l # k
      BY <1>1, <1>2, <2>1, <3>1, OtherCell
    <3>2. CASE q = p /\ l = k
      BY <1>1, <1>2, <2>1, <2>3, <3>2, Statuses DEF CellStep, Cell, Gone
    <3> QED BY <3>1, <3>2
  <2>5. /\ Known \in Times /\ watch \in SUBSET Pid /\ OwnersOf(rec, Known)
        /\ TickWorld /\ ~Empty(rec) => clock >= Ready
    BY <1>2, CachedTimes
  <2>6. /\ flight' \in Flight \cup {None} /\ InFlight' /\ clock \in Nat /\ clock <= clock
        /\ kernel \subseteq kernel' /\ kernel' \subseteq alive \X Kernel
    BY <1>1, ClockIsNat DEF InFlight, IInv, Types
  <2> HIDE <1>3
  <2> QED BY <1>1, <1>2, <2>1, <2>2, <2>4, <2>5, <2>6, Put
<1>4. ASSUME NEW ok \in BOOLEAN, Cached(rec, p), RemoveSingle(p, k, rec, Known, watch, ok),
             IF ok THEN Tell(p, k, "released") ELSE told' = told
      PROVE  IInv'
  <2>1. /\ told' \in [Pid -> [Priv -> Answers]]
        /\ told'[p][k] = IF ok THEN "released" ELSE told[p][k]
        /\ \A q \in Pid, l \in Priv : q # p \/ l # k => told'[q][l] = told[q][l]
    BY <1>2, <1>4 DEF Tell, Answers
  <2> QED BY <1>1, <1>2, <1>4, <2>1, RemoveStep
<1> QED BY <1>3, <1>4 DEF ReleaseAuthorization

\* RemoveProcess and StartCleanTask.
LEMMA CleanStep ==
    ASSUME IInv, Running, UNCHANGED <<world, kernel, up, flight, told>>, NEW r \in Recs,
           CleanAndTryToSave(r, Known, watch),
           \A q \in Pid, l \in Priv : r[q][l] = rec[q][l] \/ (r[q][l] = None /\ ~Live(q))
    PROVE  IInv'
<1>1. /\ up /\ flight = None /\ flight' = None /\ UNCHANGED world /\ kernel' = kernel
      /\ up' = up /\ told' = told
  BY DEF Running
<1>2. PICK m \in Recs, saved \in BOOLEAN :
         /\ CleanedFrom(m, r) /\ Install(m, Known, watch)
         /\ IF saved THEN ToPersistFile(m, Known, clock) ELSE file' = file
  BY TryToSave
<1>3. ASSUME NEW q \in Pid, NEW l \in Priv
      PROVE  \/ m[q][l] = rec[q][l]
             \/ m[q][l] = None /\ rec[q][l] # None /\ (NeedClean(rec[q][l]) \/ ~Live(q))
  BY <1>2 DEF CleanedFrom
<1>4. ASSUME NEW q \in Pid, NEW l \in Priv PROVE CellStep(m, saved, q, l)
  BY <1>1, <1>3, OtherCell
<1>5. /\ Known \in Times /\ watch \in SUBSET Pid /\ OwnersOf(m, Known)
      /\ TickWorld /\ ~Empty(m) => clock >= Ready
  <2>1. \A q \in Pid : Cached(m, q) => Cached(rec, q)
    BY <1>3 DEF Cached
  <2> QED BY <2>1, CachedTimes
<1>6. /\ flight' \in Flight \cup {None} /\ InFlight' /\ clock \in Nat /\ clock <= clock
      /\ kernel \subseteq kernel' /\ kernel' \subseteq alive \X Kernel
      /\ told' \in [Pid -> [Priv -> Answers]]
  BY <1>1, ClockIsNat DEF InFlight, IInv, Types
<1> QED BY <1>1, <1>2, <1>4, <1>5, <1>6, Put

-----------------------------------------------------------------------------
(* Start, crash and reboot; the clock and the processes.                   *)

\* The service starts: what is loaded is what Loadable says.
LEMMA FromPersistFileStep ==
    ASSUME IInv, FromPersistFile
    PROVE  IInv'
<1>1. /\ ~up /\ up' /\ UNCHANGED <<clock, alive, inc, life, env, stops, kernel, flight, told>>
      /\ flight = None /\ ~booting' /\ booting' \in BOOLEAN /\ Types /\ Own /\ Dated
      /\ clock \in Nat /\ (file # None => file.upd \in Nat)
  BY ClockIsNat DEF FromPersistFile, IInv, InFlight, Types, FileContent
<1>2. InFlight' /\ (TickWorld' <=> TickWorld)
  BY <1>1 DEF InFlight, TickWorld
<1>3. TickWorld /\ booting /\ file # None => ~OfThisBoot /\ ~Skipped /\ "delete" \notin Faults
  <2> SUFFICES ASSUME TickWorld, booting, file # None
               PROVE  ~OfThisBoot /\ ~Skipped /\ "delete" \notin Faults
    OBVIOUS
  <2>1. clock <= Ready /\ {"uptime", "delete", "load"} \cap env.faults = {}
    BY <1>1 DEF TickWorld, Dated, Identified, Punctual, Types
  <2>2. file.upd >= Ready /\ Ready \in Nat
    BY <1>1, PrivilegeConstants DEF Dated
  <2> QED BY <1>1, <2>1, <2>2 DEF OfThisBoot, Skipped, Faults
<1>4. CASE /\ UNCHANGED cache
           /\ \/ Skipped /\ file' = file
              \/ /\ file # None /\ ~OfThisBoot
                 /\ file' = None \/ ("delete" \in Faults /\ file' = file)
  <2>1. rec' = rec /\ cinc' = cinc /\ own' = own /\ watch' = watch
    BY <1>4 DEF cache
  <2>2. file' = file \/ file' = None
    BY <1>4
  <2>3. TickWorld /\ booting => file' = None
    BY <1>3, <1>4 DEF Skipped
  <2>4. Types' /\ Own' /\ Dated'
    <3>1. Types'
      BY <1>1, <2>1, <2>2 DEF Types, Cached
    <3>2. Own'
      BY <1>1, <1>2, <2>1, <2>2, <2>3 DEF Own, Cached
    <3>3. Dated'
      BY <1>1, <1>2, <2>1, <2>2, <2>3 DEF Dated, Empty, Cached
    <3> QED BY <3>1, <3>2, <3>3
  <2>5. ASSUME NEW p \in Pid, NEW k \in Priv PROVE Cell(p, k)'
    <3>1. Cell(p, k) /\ (Live(p)' <=> Live(p)) /\ (Faults' = Faults)
      BY <1>1 DEF IInv, Cells, Live, Faults
    <3>2. (Filed(p, k))' => Filed(p, k) /\ file' = file
      BY <1>1, <2>2 DEF Filed
    <3>3. Right(p, k)'
      BY <1>1, <2>1, <2>2, <3>1, <3>2 DEF Cell, Right
    <3>4. Kept(p, k)'
      <4>1. "load" \notin Faults /\ Filed(p, k) => file.upd >= clock
        BY <1>1, <1>4 DEF Filed, Skipped, OfThisBoot
      <4> QED BY <1>1, <3>1, <4>1 DEF Cell, Kept, Filed
    <3>5. Gone(p, k)'
      <4>1. {"load", "delete"} \cap Faults = {} => file' = None
        BY <1>4 DEF Skipped
      <4> QED BY <1>1, <2>1, <3>1, <4>1 DEF Cell, Gone, Loadable, Filed
    <3> QED BY <3>3, <3>4, <3>5 DEF Cell
  <2> QED BY <1>2, <2>4, <2>5 DEF IInv, Cells
<1>5. CASE /\ file # None /\ OfThisBoot /\ UNCHANGED file
           /\ Install(Loaded, [inc |-> file.inc, own |-> file.own], {})
  <2>1. file \in FileContent
    BY <1>1, <1>5 DEF Types
  <2>2. Loaded \in Recs
    BY <2>1 DEF Loaded, Recs, FileContent
  <2>3. \A p \in Pid, k \in Priv :
           Loaded[p][k] = IF SameProcess(p) /\ file.rec[p][k] # None /\ ~NeedClean(file.rec[p][k])
                          THEN file.rec[p][k] ELSE None
    BY DEF Loaded
  <2>4. /\ rec' = Loaded /\ watch' = {} /\ file' = file
        /\ cinc' = Owners(rec', file.inc) /\ own' = Owners(rec', file.own)
    BY <1>5 DEF Install
  <2>5. \A p \in Pid : /\ cinc'[p] = IF Cached(rec', p) THEN file.inc[p] ELSE 0
                       /\ own'[p] = IF Cached(rec', p) THEN file.own[p] ELSE 0
    BY <2>4 DEF Owners
  <2>6. \A p \in Pid : Cached(rec', p) => p \in alive /\ file.inc[p] = inc[p]
    BY <2>3, <2>4 DEF Cached, SameProcess
  <2>7. ~(TickWorld /\ booting)
    BY <1>3, <1>5
  <2>8. Types'
    <3>1. cinc' \in [Pid -> 0 .. MaxClock]
      <4>1. 0 \in 0 .. MaxClock /\ \A p \in Pid : inc[p] \in 0 .. MaxClock
        BY <1>1, PrivilegeConstants DEF Types
      <4> QED BY <2>4, <2>6, <4>1 DEF Owners
    <3>2. own' \in [Pid -> Nat]
      BY <2>1, <2>4 DEF Owners, FileContent
    <3> QED BY <1>1, <2>2, <2>4, <3>1, <3>2 DEF Types
  <2>9. Own'
    <3>1. \A p \in Pid :
             /\ IF Cached(rec', p) THEN cinc'[p] # 0 ELSE cinc'[p] = 0 /\ own'[p] = 0
             /\ Identified /\ Cached(rec', p) => cinc'[p] = inc[p] /\ own'[p] = life[p]
      BY <1>1, <1>5, <2>5, <2>6, <2>7 DEF Own
    <3>2. \A p \in Pid : file' = file /\ alive' = alive /\ inc'[p] = inc[p] /\ life'[p] = life[p]
      BY <1>1, <2>4
    <3> QED BY <1>1, <1>2, <2>7, <3>1, <3>2 DEF Own
  <2>10. Dated'
    <3>1. TickWorld => clock >= Ready
      BY <1>1, <1>5, PrivilegeConstants DEF Dated, OfThisBoot
    <3> QED BY <1>1, <1>2, <2>4, <2>7, <3>1 DEF Dated
  <2>11. ASSUME NEW p \in Pid, NEW k \in Priv PROVE Cell(p, k)'
    <3>1. Cell(p, k) /\ (Live(p)' <=> Live(p)) /\ Faults' = Faults
      BY <1>1 DEF IInv, Cells, Live, Faults
    <3>2. /\ (Filed(p, k))' <=> Filed(p, k)
          /\ (Loadable(p, k))' <=> Loadable(p, k)
      BY <1>1, <2>4 DEF Filed, Loadable, NeedClean
    <3>3. /\ rec'[p][k] = IF SameProcess(p) /\ file.rec[p][k] # None /\ ~NeedClean(file.rec[p][k])
                          THEN file.rec[p][k] ELSE None
          /\ Live(p) => (SameProcess(p) <=> file.own[p] = life[p])
      BY <1>1, <1>5, <2>3, <2>4, <2>7 DEF SameProcess, Live, Own
    <3>4. Live(p) => rec'[p][k] = IF Loadable(p, k) THEN file.rec[p][k] ELSE None
      BY <1>5, <3>3 DEF Loadable, Filed
    <3>5. file.rec[p][k] # None => file.rec[p][k] \in Record /\ file.rec[p][k].exp \in Nat
      BY <2>1 DEF FileContent, Record
    <3>6. Right(p, k)'
      BY <1>1, <1>5, <2>4, <3>1, <3>2, <3>3, <3>4, <3>5, Statuses DEF Cell, Right, Loadable, Filed
    <3>7. Kept(p, k)'
      <4>1. k \in Kernel /\ Filed(p, k) => Loadable(p, k)
        BY <3>1, Statuses DEF Cell, Right, Sound, Filed, Loadable, NeedClean
      <4>2. file.upd <= clock
        BY <1>1, <1>5 DEF OfThisBoot
      <4> QED BY <1>1, <2>4, <3>1, <3>2, <3>4, <4>1, <4>2 DEF Cell, Kept, Filed
    <3>8. Gone(p, k)'
      BY <1>1, <3>1, <3>2, <3>4 DEF Cell, Gone, Loadable, Filed
    <3> QED BY <3>6, <3>7, <3>8 DEF Cell
  <2> QED BY <1>2, <2>8, <2>9, <2>10, <2>11 DEF IInv, Cells
<1> QED BY <1>4, <1>5 DEF FromPersistFile

\* After a crash or a reboot the map is empty.
LEMMA StopFacts ==
    ASSUME IInv, Stop
    PROVE  /\ ~up' /\ up' \in BOOLEAN /\ flight' = None /\ rec' \in Recs
           /\ \A p \in Pid, k \in Priv : rec'[p][k] = None
           /\ \A p \in Pid : ~Cached(rec', p) /\ cinc'[p] = 0 /\ own'[p] = 0
           /\ cinc' \in [Pid -> 0 .. MaxClock] /\ own' \in [Pid -> Nat]
           /\ watch' = {} /\ stops' \in 0 .. MaxStops
           /\ InFlight' /\ Empty(rec')
<1>1. rec' = Blank /\ flight' = None /\ up' = FALSE /\ cinc' = Nobody /\ own' = Nobody /\ watch' = {}
      /\ stops' = stops + 1 /\ stops < MaxStops /\ stops \in 0 .. MaxStops
  BY DEF Stop, IInv, Types
<1>2. stops' \in 0 .. MaxStops /\ 0 \in 0 .. MaxClock
  BY <1>1, PrivilegeConstants
<1>3. \A p \in Pid, k \in Priv : rec'[p][k] = None
  BY <1>1 DEF Blank
<1>4. rec' \in Recs
  BY <1>1 DEF Blank, Recs
<1> QED BY <1>1, <1>2, <1>3, <1>4 DEF Cached, Empty, InFlight, Nobody

\* NeedClean stays so while the clock runs on.
LEMMA CrashStep ==
    ASSUME IInv, Crash
    PROVE  IInv'
<1>1. /\ up /\ Stop /\ clock < MaxClock
      /\ clock' = clock + 1 /\ UNCHANGED <<alive, inc, life, booting, env, kernel, file, told>>
      /\ Types /\ Own /\ Dated /\ clock \in Nat /\ MaxClock \in Nat
  BY ClockIsNat DEF Crash, IInv
<1>2. /\ ~up' /\ up' \in BOOLEAN /\ flight' = None /\ rec' \in Recs
      /\ \A p \in Pid, k \in Priv : rec'[p][k] = None
      /\ \A p \in Pid : ~Cached(rec', p) /\ cinc'[p] = 0 /\ own'[p] = 0
      /\ cinc' \in [Pid -> 0 .. MaxClock] /\ own' \in [Pid -> Nat]
      /\ watch' = {} /\ stops' \in 0 .. MaxStops
      /\ InFlight' /\ Empty(rec')
  BY <1>1, StopFacts
<1>3. Types' /\ Own' /\ Dated'
  <2>1. clock' \in 0 .. MaxClock /\ (TickWorld' <=> TickWorld)
    BY <1>1 DEF TickWorld
  <2> QED BY <1>1, <1>2, <2>1 DEF Types, Own, Dated
<1>4. ASSUME NEW p \in Pid, NEW k \in Priv PROVE Cell(p, k)'
  <2>1. Cell(p, k) /\ rec'[p][k] = None /\ (Live(p)' <=> Live(p)) /\ Faults' = Faults
    BY <1>1, <1>2 DEF IInv, Cells, Live, Faults
  <2>2. Filed(p, k)' <=> Filed(p, k)
    BY <1>1 DEF Filed
  <2>3. Filed(p, k) => /\ file.rec[p][k].exp \in Nat /\ file.upd \in Nat
    BY <1>1 DEF Filed, Types, FileContent, Record
  <2>4. Loadable(p, k)' => Loadable(p, k)
    BY <1>1, <2>2, <2>3, PrivilegeConstants DEF Loadable, NeedClean, Filed
  <2>5. Right(p, k)'
    BY <1>1, <2>1, <2>2, <2>3, Statuses, PrivilegeConstants DEF Cell, Right
  <2>6. Kept(p, k)'
    BY <1>1, <1>2, <2>1, <2>2, <2>3 DEF Cell, Kept
  <2>7. Gone(p, k)'
    BY <1>1, <1>2, <2>1, <2>4 DEF Cell, Gone
  <2> QED BY <2>5, <2>6, <2>7 DEF Cell
<1> QED BY <1>2, <1>3, <1>4 DEF IInv, Cells

LEMMA RebootStep ==
    ASSUME IInv, Reboot
    PROVE  IInv'
<1>1. /\ Stop /\ clock' \in Boots /\ alive' = {} /\ inc' = Nobody /\ kernel' = {} /\ booting' = TRUE
      /\ UNCHANGED <<life, env, file, told>> /\ Types /\ Own /\ Dated
  BY DEF Reboot, IInv
<1>2. /\ ~up' /\ up' \in BOOLEAN /\ flight' = None /\ rec' \in Recs
      /\ \A p \in Pid, k \in Priv : rec'[p][k] = None
      /\ \A p \in Pid : ~Cached(rec', p) /\ cinc'[p] = 0 /\ own'[p] = 0
      /\ cinc' \in [Pid -> 0 .. MaxClock] /\ own' \in [Pid -> Nat]
      /\ watch' = {} /\ stops' \in 0 .. MaxStops
      /\ InFlight' /\ Empty(rec')
  BY <1>1, StopFacts
<1>3. Types' /\ Own' /\ Dated'
  <2>1. clock' \in 0 .. MaxClock /\ inc' \in [Pid -> 0 .. MaxClock] /\ (TickWorld' <=> TickWorld)
    BY <1>1, PrivilegeConstants DEF Nobody, TickWorld
  <2> QED BY <1>1, <1>2, <2>1 DEF Types, Own, Dated
<1>4. ASSUME NEW p \in Pid, NEW k \in Priv PROVE Cell(p, k)'
  <2>1. Cell(p, k) /\ rec'[p][k] = None /\ ~Live(p)'
    BY <1>1, <1>2 DEF IInv, Cells, Live
  <2> QED BY <1>1, <2>1 DEF Cell, Right, Kept, Gone
<1> QED BY <1>2, <1>3, <1>4 DEF IInv, Cells

LEMMA TickStep ==
    ASSUME IInv, Tick
    PROVE  IInv'
<1>1. /\ clock < MaxClock /\ clock' = clock + 1 /\ ~booting
      /\ UNCHANGED <<alive, inc, life, booting, env, stops, kernel, up, rec, cinc, own, watch>>
      /\ UNCHANGED <<file, flight, told>>
      /\ Types /\ Own /\ Dated /\ clock \in Nat /\ MaxClock \in Nat /\ Ready \in Nat
  BY ClockIsNat, PrivilegeConstants DEF Tick, IInv, cache
<1>2. clock' \in 0 .. MaxClock /\ (TickWorld' <=> TickWorld)
  BY <1>1 DEF TickWorld
<1>3. Types' /\ Own' /\ Dated'
  <2>1. Types'
    BY <1>1, <1>2 DEF Types, Cached
  <2>2. Own'
    BY <1>1, <1>2 DEF Own, Cached
  <2>3. Dated'
    BY <1>1, <1>2 DEF Dated, Empty, Cached
  <2> QED BY <2>1, <2>2, <2>3
<1>4. InFlight'
  <2>1. flight # None => flight.now \in Nat
    BY <1>1 DEF Types, Flight
  <2>2. file # None => file.upd \in Nat
    BY <1>1 DEF Types, FileContent
  <2> QED BY <1>1, <2>1, <2>2 DEF IInv, InFlight, Filed, Live
<1>5. ASSUME NEW p \in Pid, NEW k \in Priv PROVE Cell(p, k)'
  <2>1. Cell(p, k) /\ (Live(p)' <=> Live(p)) /\ Faults' = Faults
    BY <1>1 DEF IInv, Cells, Live, Faults
  <2>2. Filed(p, k)' <=> Filed(p, k)
    BY <1>1 DEF Filed
  <2>3. Filed(p, k) => file.rec[p][k].exp \in Nat /\ file.upd \in Nat
    BY <1>1 DEF Filed, Types, FileContent, Record
  <2>4. Loadable(p, k)' => Loadable(p, k)
    BY <1>1, <2>2, <2>3, PrivilegeConstants DEF Loadable, NeedClean, Filed
  <2>5. Right(p, k)'
    <3>1. rec[p][k] # None => rec[p][k].exp \in Nat
      BY <1>1 DEF Types, Recs, Record
    <3> QED BY <1>1, <2>1, <2>2, <2>3, <3>1, PrivilegeConstants DEF Cell, Right
  <2>6. Kept(p, k)'
    BY <1>1, <2>1, <2>2, <2>3 DEF Cell, Kept
  <2>7. Gone(p, k)'
    BY <1>1, <2>1, <2>4 DEF Cell, Gone
  <2> QED BY <2>5, <2>6, <2>7 DEF Cell
<1> QED BY <1>3, <1>4, <1>5 DEF IInv, Cells

\* A new process finds nothing of its own in the file, and nothing in the map
\* if its pid is not reused too early.
LEMMA StartProcessStep ==
    ASSUME IInv, NEW p \in Pid, StartProcess(p)
    PROVE  IInv'
<1>1. /\ p \notin alive /\ inc[p] < clock /\ life[p] < MaxLife
      /\ inc' = [inc EXCEPT ![p] = clock] /\ life' = [life EXCEPT ![p] = @ + 1]
      /\ alive' = alive \cup {p}
      /\ told' = [told EXCEPT ![p] = [k \in Priv |-> "nothing"]]
      /\ UNCHANGED <<clock, booting, env, stops, kernel, up, rec, cinc, own, watch, file, flight>>
      /\ Types /\ Own /\ Dated /\ clock \in Nat /\ inc[p] \in Nat /\ life[p] \in Nat
  BY PrivilegeConstants DEF StartProcess, IInv, Types, cache
<1>2. /\ inc'[p] = clock /\ life'[p] = life[p] + 1
      /\ \A q \in Pid : q # p => inc'[q] = inc[q] /\ life'[q] = life[q] /\ told'[q] = told[q]
      /\ \A k \in Priv : told'[p][k] = "nothing"
      /\ inc' \in [Pid -> 0 .. MaxClock] /\ life' \in [Pid -> 0 .. MaxLife]
      /\ told' \in [Pid -> [Priv -> Answers]]
  BY <1>1, PrivilegeConstants DEF Types, Answers
<1>3. Types'
  BY <1>1, <1>2 DEF Types, Cached
<1>4. /\ \A q \in Pid : inc[q] \in Nat /\ life[q] \in Nat
      /\ file # None => \A q \in Pid : file.inc[q] \in Nat /\ file.own[q] \in Nat
  BY <1>1, PrivilegeConstants DEF Types, FileContent
<1>5. /\ TickWorld' <=> TickWorld
      /\ Identified => ~Cached(rec, p)
      /\ Identified /\ file # None /\ file.inc[p] = clock => TickWorld /\ booting
  <2>1. Identified => ~Cached(rec, p)
    BY <1>1 DEF Identified, StartProcess, Types
  <2>2. Identified /\ ~TickWorld /\ file # None => file.inc[p] # clock
    BY DEF TickWorld, StartProcess
  <2>3. TickWorld /\ ~booting /\ file # None => file.inc[p] # clock
    BY <1>1, <1>4 DEF Dated
  <2> QED BY <1>1, <2>1, <2>2, <2>3 DEF TickWorld, Types
<1>6. Own'
  <2> SUFFICES ASSUME NEW q \in Pid
               PROVE  /\ q \in alive' => inc'[q] # 0 /\ life'[q] # 0
                      /\ IF Cached(rec, q) THEN cinc[q] # 0 ELSE cinc[q] = 0 /\ own[q] = 0
                      /\ Identified =>
                            /\ Cached(rec, q) => cinc[q] = inc'[q] /\ own[q] = life'[q]
                            /\ file # None => file.own[q] <= life'[q]
                            /\ file # None /\ q \in alive' =>
                                  /\ file.own[q] = life'[q] => file.inc[q] = inc'[q]
                                  /\ file.inc[q] = inc'[q]
                                        => file.own[q] = life'[q] \/ (TickWorld /\ booting)
    BY <1>1, <1>5 DEF Own, Cached
  <2>1. CASE q # p
    BY <1>1, <1>2, <2>1 DEF Own
  <2>2. CASE q = p
    BY <1>1, <1>2, <1>4, <1>5, <2>2 DEF Own
  <2> QED BY <2>1, <2>2
<1>7. Dated'
  <2>1. TickWorld /\ ~booting /\ file # None => \A q \in Pid : file.inc[q] <= inc'[q]
    BY <1>1, <1>2, <1>4 DEF Dated
  <2> QED BY <1>1, <1>5, <2>1 DEF Dated, Empty, Cached
<1>8. flight # None /\ Identified => flight.pid # p
  <2>1. flight # None => flight.pid \in Pid /\ flight.priv \in Priv
    BY <1>1 DEF Types, Flight, Priv
  <2> QED BY <1>5, <2>1, Statuses DEF IInv, InFlight, Cached
<1>9. InFlight'
  <2>1. flight # None => flight.pid \in Pid
    BY <1>1 DEF Types, Flight
  <2> QED BY <1>1, <1>2, <1>8, <2>1 DEF IInv, InFlight, Filed, Live
<1>10. ASSUME NEW q \in Pid, NEW k \in Priv PROVE Cell(q, k)'
  <2>1. Cell(q, k) /\ Faults' = Faults
    BY <1>1 DEF IInv, Cells, Faults
  <2>2. CASE q # p
    <3>1. /\ Filed(q, k)' <=> Filed(q, k)
          /\ Loadable(q, k)' <=> Loadable(q, k)
      BY <1>1, <1>2, <2>2 DEF Filed, Loadable, NeedClean
    <3>2. Live(q)' <=> Live(q)
      BY <1>1, <2>2 DEF Live
    <3> QED BY <1>1, <1>2, <2>1, <2>2, <3>1, <3>2 DEF Cell, Right, Kept, Gone
  <2>3. CASE q = p
    <3>1. Identified => ~(Filed(p, k))' /\ rec'[p][k] = None
      BY <1>1, <1>2, <1>4, <1>5 DEF Filed, Own, Cached
    <3>2. Live(p)' => Identified
      BY DEF Live
    <3> QED BY <1>1, <1>2, <2>1, <2>3, <3>1, <3>2, Statuses DEF Cell, Right, Kept, Gone, Loadable
  <2> QED BY <2>2, <2>3
<1> QED BY <1>3, <1>6, <1>7, <1>9, <1>10 DEF IInv, Cells

\* The kernel forgets the process, which is gone.
LEMMA ExitStep ==
    ASSUME IInv, NEW p \in Pid, Exit(p)
    PROVE  IInv'
<1>1. /\ alive' = alive \ {p} /\ kernel' = {x \in kernel : x[1] # p}
      /\ UNCHANGED <<clock, inc, life, booting, env, stops, up, rec, cinc, own, watch>>
      /\ UNCHANGED <<file, flight, told>>
      /\ Types /\ Own /\ Dated
  BY DEF Exit, IInv, cache
<1>2. \A q \in Pid, k \in Kernel : q # p => (<<q, k>> \in kernel' <=> <<q, k>> \in kernel)
  BY <1>1
<1>3. Types' /\ Own' /\ Dated'
  <2>1. kernel' \subseteq alive' \X Kernel /\ (TickWorld' <=> TickWorld)
    BY <1>1 DEF Types, TickWorld
  <2>2. Types'
    BY <1>1, <2>1 DEF Types, Cached
  <2>3. Own'
    BY <1>1, <2>1 DEF Own, Cached
  <2>4. Dated'
    BY <1>1, <2>1 DEF Dated, Empty, Cached
  <2> QED BY <2>2, <2>3, <2>4
<1>4. InFlight'
  <2>1. flight # None => flight.pid \in Pid /\ flight.priv \in Kernel
    BY <1>1 DEF Types, Flight
  <2> QED BY <1>1, <1>2, <2>1 DEF IInv, InFlight, Filed, Live
<1>5. ASSUME NEW q \in Pid, NEW k \in Priv PROVE Cell(q, k)'
  <2>1. Cell(q, k) /\ Faults' = Faults
    BY <1>1 DEF IInv, Cells, Faults
  <2>2. /\ Filed(q, k)' <=> Filed(q, k)
        /\ Loadable(q, k)' <=> Loadable(q, k)
        /\ Live(q)' => Live(q) /\ q # p
    BY <1>1 DEF Filed, Loadable, NeedClean, Live
  <2>3. Right(q, k)'
    BY <1>1, <1>2, <2>1, <2>2 DEF Cell, Right
  <2>4. Kept(q, k)'
    BY <1>1, <1>2, <2>1, <2>2 DEF Cell, Kept
  <2>5. Gone(q, k)'
    BY <1>1, <2>1, <2>2 DEF Cell, Gone
  <2> QED BY <2>3, <2>4, <2>5 DEF Cell
<1> QED BY <1>3, <1>4, <1>5 DEF IInv, Cells

-----------------------------------------------------------------------------
LEMMA InitOK == Init => IInv
<1> SUFFICES ASSUME Init PROVE IInv
  OBVIOUS
<1>1. rec \in Recs /\ \A p \in Pid, k \in Priv : rec[p][k] = None
  BY DEF Init, Blank, Recs
<1>2. Types
  <2>1. clock \in 0 .. MaxClock /\ Nobody \in [Pid -> 0 .. MaxClock]
        /\ Nobody \in [Pid -> 0 .. MaxLife] /\ Nobody \in [Pid -> Nat] /\ stops \in 0 .. MaxStops
    BY PrivilegeConstants DEF Init, Nobody
  <2>2. told \in [Pid -> [Priv -> Answers]]
    BY DEF Init, Answers
  <2> QED BY <1>1, <2>1, <2>2 DEF Init, Types
<1>3. Own /\ Dated
  BY <1>1 DEF Init, Own, Dated, Cached, Empty, Nobody
<1>4. Cells /\ InFlight
  <2>1. alive = {} /\ file = None /\ flight = None
    BY DEF Init
  <2>2. \A p \in Pid : ~Live(p)
    BY <2>1 DEF Live
  <2> QED BY <1>1, <2>1, <2>2 DEF Cells, Cell, Right, Kept, Gone, InFlight
<1> QED BY <1>2, <1>3, <1>4 DEF IInv

\* Every step keeps the invariant.
LEMMA NextOK == IInv /\ [Next]_vars => IInv'
<1> SUFFICES ASSUME IInv, [Next]_vars PROVE IInv'
  OBVIOUS
<1>1. ASSUME NEW p \in Pid, UpdatePrivilegeCache(p) PROVE IInv'
  BY <1>1, AddCacheStep, PrepareStep DEF UpdatePrivilegeCache
<1>2. ASSUME NEW p \in Pid, RemoveProcess(p) PROVE IInv'
  <2>1. PICK r : r = [rec EXCEPT ![p] = Blank[p]]
    OBVIOUS
  <2>2. r \in Recs
    BY <2>1 DEF IInv, Types, Recs, Blank
  <2>3. \A q \in Pid, l \in Priv : r[q][l] = rec[q][l] \/ (r[q][l] = None /\ ~Live(q))
    <3>1. ~Live(p)
      BY <1>2 DEF RemoveProcess, Died, Live, IInv, Types, Own
    <3> QED BY <2>1, <3>1 DEF IInv, Types, Recs, Blank
  <2> QED BY <1>2, <2>1, <2>2, <2>3, CleanStep DEF RemoveProcess
<1>3. CASE StartCleanTask
  <2>1. rec \in Recs
    BY DEF IInv, Types
  <2> QED BY <1>3, <2>1, CleanStep DEF StartCleanTask
<1>4. CASE UNCHANGED vars
  <2>1. /\ UNCHANGED <<clock, alive, inc, life, booting, env, stops, kernel, up, rec, cinc, own>>
        /\ UNCHANGED <<watch, file, flight, told>>
    BY <1>4 DEF vars, world, cache
  <2>2. Types' /\ Own' /\ Dated' /\ InFlight'
    BY <2>1 DEF IInv, Types, Own, Dated, Cached, Empty, InFlight, Filed, Live, TickWorld
  <2>3. ASSUME NEW p \in Pid, NEW k \in Priv PROVE Cell(p, k)'
    <3>1. Cell(p, k) /\ (Live(p)' <=> Live(p)) /\ Faults' = Faults
      BY <2>1 DEF IInv, Cells, Live, Faults
    <3>2. (Filed(p, k)' <=> Filed(p, k)) /\ (Loadable(p, k)' <=> Loadable(p, k))
      BY <2>1 DEF Filed, Loadable, NeedClean
    <3> QED BY <2>1, <3>1, <3>2 DEF Cell, Right, Kept, Gone
  <2> QED BY <2>2, <2>3 DEF IInv, Cells
<1> QED BY <1>1, <1>2, <1>3, <1>4, HasKernelStep, ReleaseStep, StartProcessStep, ExitStep,
           SetKernelStep, ConfirmStep, FromPersistFileStep, CrashStep, RebootStep, TickStep DEF Next

LEMMA Inductive == Spec => []IInv
BY InitOK, NextOK, PTL DEF Spec

-----------------------------------------------------------------------------
\* Records, times and the call in flight stay well formed, with every error,
\* crash and reboot.
THEOREM TypeCorrect == Spec => []TypeOK
<1>1. IInv => TypeOK
  <2> SUFFICES ASSUME IInv PROVE TypeOK
    OBVIOUS
  <2>1. \A p \in Pid : (cinc[p] # 0) = Cached(rec, p)
    BY DEF IInv, Own, Cached
  <2> QED BY <2>1 DEF IInv, Types, TypeOK, Recs, Answers
<1> QED BY <1>1, Inductive, PTL

\* CheckPrivilege, which far from the expiry does not ask the TEE, never
\* grants what the TEE no longer does: EXPIRED_TIME_OFFSET covers the way of
\* the grant into the cache, after any restart too.
THEOREM GrantsAreValid == Spec => []GrantedIsValid
<1>1. IInv => GrantedIsValid
  <2> SUFFICES ASSUME IInv, NEW p \in alive, NEW k \in Timed, CheckPrivilege(p, k)
               PROVE  clock - rec[p][k].safe < Timeout
    BY DEF GrantedIsValid
  <2>1. p \in Pid /\ k \in Priv /\ rec[p][k] # None
    BY DEF IInv, Types, Priv, CheckPrivilege
  <2>2. PICK x \in Record : x = rec[p][k]
    BY <2>1 DEF IInv, Types, Recs
  <2>3. x.status = "NOT_REQUIRED" /\ x.exp <= x.safe + Latency + Timeout
    BY <2>1, <2>2 DEF IInv, Cells, Cell, Right, Sound
  <2>4. /\ x.exp \in Nat /\ x.safe \in Nat /\ clock \in Nat /\ Timeout \in Nat
        /\ Latency \in Nat /\ Offset \in Nat /\ Latency <= Offset
    BY <2>2, ClockIsNat, PrivilegeConstants, OffsetCoversLatency DEF Record
  <2>5. clock < x.exp - Offset \/ TeeValid(x)
    BY <2>2, <2>3 DEF CheckPrivilege, GetRemainTime
  <2> QED BY <2>2, <2>3, <2>4, <2>5 DEF TeeValid
<1> QED BY <1>1, Inductive, PTL

\* If pid and start time identify a process, no record is AUTHORIZED, in the
\* map of AddCacheAndNotifyKernel or in the file that FromPersistFile would
\* load, before the kernel knows.
THEOREM AuthorizationsAreConfirmed ==
    ASSUME Identified
    PROVE  Spec => []AuthorizedIsConfirmed
<1>1. IInv => AuthorizedIsConfirmed
  <2> SUFFICES ASSUME IInv, NEW p \in alive, NEW k \in Kernel,
                      \/ rec[p][k] = Authorized
                      \/ file # None /\ file.own[p] = life[p] /\ file.rec[p][k] = Authorized
               PROVE  <<p, k>> \in kernel
    BY DEF AuthorizedIsConfirmed
  <2>1. Cell(p, k)
    BY DEF IInv, Types, Cells, Priv
  <2> QED BY <2>1, Statuses DEF Cell, Right, Filed, Live
<1> QED BY <1>1, Inductive, PTL

\* FromPersistFile gives no process the records of an earlier one with its
\* pid, though after a reboot the start time may be the same: the update time
\* of the file tells, if the service starts before anything can be granted.
THEOREM OwnRecords ==
    ASSUME Identified
    PROVE  Spec => []RecordsAreOwn
<1>1. IInv => RecordsAreOwn
  BY DEF IInv, Types, Own, RecordsAreOwn
<1> QED BY <1>1, Inductive, PTL

\* If the file can be read when the service starts, a kernel privilege whose
\* last acquisition AddCacheAndNotifyKernel reported as done survives every
\* crash and every write that fails, also those of a later acquisition that
\* was not answered yet.
THEOREM KernelGrantsStay ==
    ASSUME Identified, \A w \in Worlds : "load" \notin w.faults
    PROVE  Spec => []KernelGrantKept
<1>1. IInv => KernelGrantKept
  <2> SUFFICES ASSUME IInv, NEW p \in alive, NEW k \in Kernel, up, told[p][k] = "acquired"
               PROVE  rec[p][k] # None /\ <<p, k>> \in kernel
    BY DEF KernelGrantKept
  <2>1. Cell(p, k)
    BY DEF IInv, Types, Cells, Priv
  <2> QED BY <2>1 DEF Cell, Kept, Live, Faults, IInv, Types
<1> QED BY <1>1, Inductive, PTL

\* If the file can be read and deleted, what ReleaseAuthorization reported as
\* released never comes back, though it does not save a map that it finds
\* without the process.
THEOREM ReleasesStay ==
    ASSUME Identified, \A w \in Worlds : {"load", "delete"} \cap w.faults = {}
    PROVE  Spec => []ReleasedStaysReleased
<1>1. IInv => ReleasedStaysReleased
  <2> SUFFICES ASSUME IInv, NEW p \in alive, NEW k \in Priv, told[p][k] = "released"
               PROVE  rec[p][k] = None
    BY DEF ReleasedStaysReleased
  <2>1. Cell(p, k)
    BY DEF IInv, Types, Cells
  <2> QED BY <2>1 DEF Cell, Gone, Live, Faults, IInv, Types
<1> QED BY <1>1, Inductive, PTL

=============================================================================
