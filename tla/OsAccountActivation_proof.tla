---------------------- MODULE OsAccountActivation_proof ----------------------
(***************************************************************************)
(* Theorems about OsAccountActivation, for any threads, accounts, displays *)
(* and builds: the marks, the update locks and the displays, however many  *)
(* calls run at a time and whatever fails.                                 *)
(***************************************************************************)
EXTENDS OsAccountActivation, FiniteSetTheorems, TLAPS

\* Where an activation or a lock has the account's mark, and where an
\* activation has its update lock too.
ALocked == {"prepare", "storage", "ams", "foreground", "background", "leave",
            "deactivateOld", "wait", "end"}
AMarked == ALocked \cup {"lock", "plugin", "locked"}
Unmarked == {"idle", "unlock", "verify", "login"}

\* The same for a deactivation; "again" is after its end.
DLocked == {"read", "clean", "ams", "stop", "logOut", "unverify", "unshow", "erase",
            "done", "out"}
DMarked == DLocked \cup {"lock"}

\* The part that a switch runs without mark and lock, where one account is active.
Bare == {"logOut", "unverify", "unshow", "erase"}

Types ==
    /\ build \in Builds
    /\ activeAccountId \in Seq(Account)
    /\ foregroundAccountMap \in [Display -> Account \cup {None}]
    /\ verifiedAccounts \subseteq Account /\ el2 \subseteq Account
    /\ operating \subseteq Account
    /\ updateLocks \in [Account -> Proc \cup {None}]
    /\ apc \in [Proc -> AMarked \cup Unmarked] /\ aid \in [Proc -> Account]
    /\ adisp \in [Proc -> Display] /\ old \in [Proc -> Account \cup {None}]
    /\ dpc \in [Proc -> DMarked \cup {"idle", "again"}] /\ did \in [Proc -> Account]
    /\ dfg \in [Proc -> Display \cup {None}]

\* What a thread runs: a deactivation runs on its own or for an activation that
\* waits, for the account that leaves the foreground.
Places(p) ==
    /\ dpc[p] # "idle" => apc[p] \in {"idle", "wait"}
    /\ dpc[p] = "again" => apc[p] = "idle"
    /\ apc[p] \in {"background", "leave", "deactivateOld", "wait"} =>
          old[p] \in Account /\ old[p] # aid[p]
    /\ apc[p] = "deactivateOld" => build.multiple
    /\ apc[p] = "wait" /\ dpc[p] # "idle" => did[p] = old[p]
    /\ apc[p] = "wait" /\ ~build.multiple => dpc[p] \in Bare \cup {"idle"}
    /\ apc[p] \in {"unlock", "verify", "login"} => "auth" \in build.ops[p]

\* Thread p has a deactivation with mark and lock.
Guarded(p) == apc[p] = "wait" => build.multiple

Owns(p, i) ==
    \/ i = aid[p] /\ apc[p] \in AMarked
    \/ i = did[p] /\ dpc[p] \in DMarked /\ Guarded(p)

Holds(p, i) ==
    \/ i = aid[p] /\ apc[p] \in ALocked
    \/ i = did[p] /\ dpc[p] \in DLocked /\ Guarded(p)

\* operatingId_ has the accounts that a thread works on, one thread each, and an
\* update lock is held by the thread that took it.
Marks ==
    /\ \A i \in Account : i \in operating <=> \E p \in Proc : Owns(p, i)
    /\ \A p, q \in Proc : \A i \in Account : Owns(p, i) /\ Owns(q, i) => p = q
    /\ \A p \in Proc : \A i \in Account : updateLocks[i] = p <=> Holds(p, i)

\* What deactivatingAccounts_ and lockingAccounts_ have is being deactivated or
\* locked.
Deactivates(p, i) == i = did[p] /\ dpc[p] \in DLocked /\ Guarded(p)
Locking(p, i) == i = aid[p] /\ apc[p] \in {"plugin", "locked"}
Busy ==
    /\ \A i \in deactivatingAccounts : \E p \in Proc : Deactivates(p, i)
    /\ \A i \in lockingAccounts : \E p \in Proc : Locking(p, i)

\* The account that is about to be shown is on no other display, and in the
\* active list where that may hold several.
Shows(p) ==
    /\ apc[p] \in {"storage", "ams", "foreground"} => NotOnOtherDisplay(aid[p], adisp[p])
    /\ apc[p] = "foreground" /\ build.multiple => aid[p] \in Active

\* What a deactivation has taken away stays away.
Gone(p) ==
    dpc[p] \in DLocked /\ Guarded(p) =>
        /\ dpc[p] = "clean" /\ build.multiple =>
              \A d \in Display : foregroundAccountMap[d] = did[p] => d = dfg[p]
        /\ dpc[p] \notin {"read", "clean", "out"} /\ build.multiple =>
              \A d \in Display : foregroundAccountMap[d] # did[p]
        /\ dpc[p] \in {"unverify", "unshow", "erase", "done"} => did[p] \notin loggedInAccounts
        /\ dpc[p] \in {"unshow", "erase", "done"} => did[p] \notin verifiedAccounts
        /\ dpc[p] = "done" => did[p] \notin Active

\* Where several accounts may be active, what is shown is active.
ShownIsActive ==
    build.multiple => \A d \in Display : foregroundAccountMap[d] \in Active \cup {None}

\* A verified account without decrypted files is being locked or deactivated.
NoAuth == build.multiple /\ \A p \in Proc : "auth" \notin build.ops[p]
Encrypts(p, i) ==
    \/ i = aid[p] /\ apc[p] = "locked"
    \/ i = did[p] /\ dpc[p] \in {"logOut", "unverify"}
Decrypted ==
    NoAuth => \A i \in verifiedAccounts \ el2 : \E p \in Proc : Encrypts(p, i)

IInv ==
    /\ Types
    /\ \A p \in Proc : Places(p) /\ Shows(p) /\ Gone(p)
    /\ Marks /\ Busy
    /\ OneDisplay /\ ShownIsActive
    /\ Decrypted

-----------------------------------------------------------------------------
(* The active list.                                                        *)

Elements(list) == {list[k] : k \in 1 .. Len(list)}

\* The n-th of some positions is one of them, and every position is the n-th.
LEMMA Ranks ==
    ASSUME NEW l \in Nat, NEW K \in SUBSET (1 .. l)
    PROVE  /\ Cardinality(K) \in Nat
           /\ \A k \in K : Cardinality({m \in K : m <= k}) \in 1 .. Cardinality(K)
           /\ \A j, k \in K : Cardinality({m \in K : m <= j}) = Cardinality({m \in K : m <= k})
                                => j = k
           /\ \A n \in 1 .. Cardinality(K) :
                 \E k \in K : Cardinality({m \in K : m <= k}) = n
<1>. DEFINE Upto(k) == {m \in K : m <= k}
            rank == [k \in K |-> Cardinality(Upto(k))]
            N == 1 .. Cardinality(K)
<1>1. IsFiniteSet(K) /\ Cardinality(K) \in Nat
  <2>1. IsFiniteSet(1 .. l)
    BY FS_Interval
  <2>. QED
    BY <2>1, FS_Subset, FS_CardinalityType
<1>2. ASSUME NEW k \in K
      PROVE  /\ IsFiniteSet(Upto(k)) /\ Cardinality(Upto(k)) \in Nat
             /\ Cardinality(Upto(k)) <= Cardinality(K) /\ Upto(k) # {}
             /\ Cardinality(Upto(k)) # 0
  <2>1. Upto(k) \in SUBSET K /\ k \in Upto(k)
    OBVIOUS
  <2>2. /\ IsFiniteSet(Upto(k)) /\ Cardinality(Upto(k)) <= Cardinality(K)
        /\ Cardinality(Upto(k)) \in Nat
    BY <1>1, <2>1, FS_Subset, FS_CardinalityType
  <2>. QED
    BY <2>1, <2>2, FS_EmptySet
<1>3. \A k \in K : Cardinality(Upto(k)) \in N
  BY <1>1, <1>2
<1>4. ASSUME NEW j \in K, NEW k \in K, j < k
      PROVE  Cardinality(Upto(j)) # Cardinality(Upto(k))
  <2>0. j \in Int /\ k \in Int /\ \A m \in K : m \in Int
    OBVIOUS
  <2>1. Upto(j) \in SUBSET Upto(k) /\ k \in Upto(k) /\ k \notin Upto(j)
    <3>1. \A m \in K : m <= j => m <= k
      BY <1>4, <2>0
    <3>2. k <= k /\ ~(k <= j)
      BY <1>4, <2>0
    <3>. QED
      BY <3>1, <3>2
  <2>2. Upto(j) # Upto(k)
    BY <2>1
  <2>. HIDE DEF Upto
  <2>. QED
    BY <1>2, <2>1, <2>2, FS_Subset
<1>5. \A j, k \in K : Cardinality(Upto(j)) = Cardinality(Upto(k)) => j = k
  BY <1>4
<1>6. rank \in Injection(K, N)
  BY <1>3, <1>5 DEF Injection, IsInjective
<1>7. IsFiniteSet(N) /\ Cardinality(N) = Cardinality(K)
  BY <1>1, FS_Interval
<1>8. rank \in Surjection(K, N)
  <2>. HIDE DEF rank, N
  <2>. QED
    BY <1>6, <1>7, FS_Injection
<1>9. \A n \in N : \E k \in K : Cardinality(Upto(k)) = n
  BY <1>8 DEF Surjection
<1>. QED
  BY <1>1, <1>3, <1>5, <1>9

\* EraseIdFromActiveList leaves the other accounts.
LEMMA WithoutElements ==
    ASSUME NEW X, NEW s \in Seq(X), NEW i
    PROVE  Without(s, i) \in Seq(X) /\ Elements(Without(s, i)) = Elements(s) \ {i}
<1>. DEFINE K == {k \in 1 .. Len(s) : s[k] # i}
            Nth(n) == CHOOSE k \in K : Cardinality({m \in K : m <= k}) = n
            w == Without(s, i)
<1>1. Len(s) \in Nat /\ K \in SUBSET (1 .. Len(s))
  OBVIOUS
<1>2. /\ Cardinality(K) \in Nat
      /\ \A k \in K : Cardinality({m \in K : m <= k}) \in 1 .. Cardinality(K)
      /\ \A j, k \in K : Cardinality({m \in K : m <= j}) = Cardinality({m \in K : m <= k})
                           => j = k
      /\ \A n \in 1 .. Cardinality(K) :
            \E k \in K : Cardinality({m \in K : m <= k}) = n
  <2>. HIDE DEF K
  <2>. QED
    BY <1>1, Ranks
<1>3. w = [n \in 1 .. Cardinality(K) |-> s[Nth(n)]]
  BY DEF Without
<1>4. ASSUME NEW n \in 1 .. Cardinality(K)
      PROVE  Nth(n) \in K /\ Cardinality({m \in K : m <= Nth(n)}) = n
  <2>. HIDE DEF K
  <2>1. \E k \in K : Cardinality({m \in K : m <= k}) = n
    BY <1>2
  <2>. QED
    BY <2>1
<1>5. \A k \in K : \E n \in 1 .. Cardinality(K) : Nth(n) = k
  <2>. HIDE DEF K, Nth
  <2>. QED
    BY <1>2, <1>4
<1>6. \A n \in 1 .. Cardinality(K) : w[n] = s[Nth(n)] /\ s[Nth(n)] \in X /\ s[Nth(n)] # i
  <2>1. \A k \in K : s[k] \in X /\ s[k] # i
    OBVIOUS
  <2>. HIDE DEF Nth, w, K
  <2>. QED
    BY <1>3, <1>4, <2>1
<1>7. w \in Seq(X) /\ Len(w) = Cardinality(K)
  <2>1. w \in [1 .. Cardinality(K) -> X]
    <3>. HIDE DEF Nth, w, K
    <3>. QED
      BY <1>3, <1>6
  <2>. HIDE DEF w, K, Nth
  <2>. QED
    BY <1>2, <2>1
<1>8. Elements(w) = Elements(s) \ {i}
  <2>. HIDE DEF w, Nth
  <2>1. ASSUME NEW n \in 1 .. Len(w) PROVE w[n] \in Elements(s) \ {i}
    BY <1>4, <1>6, <1>7, <2>1 DEF Elements
  <2>2. ASSUME NEW k \in 1 .. Len(s), s[k] # i PROVE s[k] \in Elements(w)
    <3>1. PICK n \in 1 .. Cardinality(K) : Nth(n) = k
      BY <1>5, <2>2
    <3>. QED
      BY <1>6, <1>7, <3>1 DEF Elements
  <2>. QED
    BY <2>1, <2>2 DEF Elements
<1>. QED
  BY <1>7, <1>8

LEMMA Erased ==
    ASSUME Types, NEW i, EraseIdFromActiveList(i)
    PROVE  activeAccountId' \in Seq(Account) /\ Active' = Active \ {i}
<1>1. activeAccountId \in Seq(Account) /\ activeAccountId' = Without(activeAccountId, i)
  BY DEF Types, EraseIdFromActiveList
<1>2. /\ Without(activeAccountId, i) \in Seq(Account)
      /\ Elements(Without(activeAccountId, i)) = Elements(activeAccountId) \ {i}
  BY <1>1, WithoutElements
<1>3. Active = Elements(activeAccountId) /\ Active' = Elements(activeAccountId')
  BY DEF Active, Elements
<1>. QED
  BY <1>1, <1>2, <1>3

\* The callback of StartUser enters account i, and keeps the others where several
\* may be active.
LEMMA Pushed ==
    ASSUME Types, NEW i \in Account, NEW d, PushIdIntoActiveList(i, d)
    PROVE  /\ activeAccountId' \in Seq(Account)
           /\ i \in Active' /\ Active' \subseteq Active \cup {i}
           /\ build.multiple => Active \subseteq Active'
<1>1. activeAccountId \in Seq(Account)
  BY DEF Types
<1>2. PICK w \in Seq(Account) : /\ w = Without(activeAccountId, i)
                                /\ Elements(w) = Elements(activeAccountId) \ {i}
  BY <1>1, WithoutElements
<1>3. Active = Elements(activeAccountId) /\ Active' = Elements(activeAccountId')
  BY DEF Active, Elements
<1>4. /\ Append(activeAccountId, i) \in Seq(Account)
      /\ Elements(Append(activeAccountId, i)) = Elements(activeAccountId) \cup {i}
  <2>1. /\ Append(activeAccountId, i) \in Seq(Account)
        /\ Len(Append(activeAccountId, i)) = Len(activeAccountId) + 1
        /\ \A k \in 1 .. Len(activeAccountId) : Append(activeAccountId, i)[k] = activeAccountId[k]
        /\ Append(activeAccountId, i)[Len(activeAccountId) + 1] = i
    BY <1>1
  <2>2. PICK l \in Nat : l = Len(activeAccountId)
    BY <1>1
  <2>3. 1 .. l + 1 = (1 .. l) \cup {l + 1}
    OBVIOUS
  <2>. QED
    BY <2>1, <2>2, <2>3 DEF Elements
<1>5. /\ <<i>> \o w \in Seq(Account) /\ Elements(<<i>> \o w) = Elements(w) \cup {i}
  <2>1. /\ <<i>> \o w \in Seq(Account) /\ Len(<<i>> \o w) = Len(w) + 1
        /\ (<<i>> \o w)[1] = i
        /\ \A k \in 1 .. Len(w) : (<<i>> \o w)[k + 1] = w[k]
    BY <1>2
  <2>2. PICK l \in Nat : l = Len(w)
    BY <1>2
  <2>3. PICK s : s = <<i>> \o w
    OBVIOUS
  <2>4. ASSUME NEW k \in 1 .. l + 1 PROVE s[k] \in Elements(w) \cup {i}
    <3>1. CASE k = 1
      BY <2>1, <2>3, <3>1
    <3>2. CASE k # 1
      <4>1. k - 1 \in 1 .. l /\ (k - 1) + 1 = k
        BY <3>2
      <4>2. s[k] = w[k - 1]
        BY <2>1, <2>2, <2>3, <4>1
      <4>. QED
        BY <2>2, <4>1, <4>2 DEF Elements
    <3>. QED
      BY <3>1, <3>2
  <2>5. ASSUME NEW k \in 1 .. l PROVE w[k] \in Elements(s)
    <3>1. k + 1 \in 1 .. Len(s) /\ s[k + 1] = w[k]
      BY <2>1, <2>2, <2>3
    <3>. QED
      BY <3>1 DEF Elements
  <2>6. i \in Elements(s)
    <3>1. 1 \in 1 .. Len(s) /\ s[1] = i
      BY <2>1, <2>2, <2>3
    <3>. QED
      BY <3>1 DEF Elements
  <2>7. Elements(s) = Elements(w) \cup {i}
    <3>1. Len(s) = l + 1 /\ \A x \in Elements(s) : \E k \in 1 .. l + 1 : x = s[k]
      BY <2>1, <2>2, <2>3 DEF Elements
    <3>2. \A x \in Elements(w) : \E k \in 1 .. l : x = w[k]
      BY <2>2 DEF Elements
    <3>. QED
      BY <2>4, <2>5, <2>6, <3>1, <3>2
  <2>. QED
    BY <2>1, <2>3, <2>7
<1>6. <<i>> \in Seq(Account) /\ Elements(<<i>>) = {i}
  BY DEF Elements
<1>. QED
  BY <1>2, <1>3, <1>4, <1>5, <1>6 DEF PushIdIntoActiveList

-----------------------------------------------------------------------------
(* One step of thread p: what it leaves alone, and what it may change.     *)

Same(q) ==
    /\ apc'[q] = apc[q] /\ aid'[q] = aid[q] /\ adisp'[q] = adisp[q] /\ old'[q] = old[q]
    /\ dpc'[q] = dpc[q] /\ did'[q] = did[q] /\ dfg'[q] = dfg[q]

\* It takes a mark or a lock that is free, and gives back its own.
MarkStep(p) ==
    \A i \in Account :
        /\ Owns(p, i)' => Owns(p, i) \/ i \notin operating
        /\ i \in operating' <=> (Owns(p, i)' \/ (i \in operating /\ ~Owns(p, i)))
        /\ Holds(p, i)' => Holds(p, i) \/ updateLocks[i] = None
        /\ updateLocks'[i] = IF Holds(p, i)' THEN p
                             ELSE IF Holds(p, i) THEN None ELSE updateLocks[i]

BusyStep(p) ==
    /\ \A i \in deactivatingAccounts' :
          Deactivates(p, i)' \/ (i \in deactivatingAccounts /\ ~Deactivates(p, i))
    /\ \A i \in lockingAccounts' :
          Locking(p, i)' \/ (i \in lockingAccounts /\ ~Locking(p, i))

\* Only an activation shows an account, its own.
DisplayStep(p) ==
    \/ \A d \in Display : foregroundAccountMap'[d] \in {foregroundAccountMap[d], None}
    \/ /\ apc[p] = "foreground"
       /\ foregroundAccountMap' = [foregroundAccountMap EXCEPT ![adisp[p]] = aid[p]]

\* Only the owner enters an account, and takes it off the list when it is shown
\* nowhere.
ListStep(p) ==
    /\ \A i \in Active' \ Active : Owns(p, i)
    /\ build.multiple =>
          \A i \in Active \ Active' :
              Owns(p, i) /\ \A d \in Display : foregroundAccountMap'[d] # i

\* Only the owner, or a thread that finds the update lock free, verifies an
\* account or logs it in.
AuthStep(p) ==
    /\ \A i \in verifiedAccounts' \ verifiedAccounts : Owns(p, i) \/ updateLocks[i] = None
    /\ \A i \in loggedInAccounts' \ loggedInAccounts : Owns(p, i) \/ updateLocks[i] = None
    /\ NoAuth => \A i \in verifiedAccounts' \ el2' :
                    Encrypts(p, i)' \/ (i \in verifiedAccounts \ el2 /\ ~Encrypts(p, i))

StepOf(p) ==
    /\ build' = build /\ Types' /\ \A q \in Proc \ {p} : Same(q)
    /\ Places(p)' /\ Shows(p)' /\ Gone(p)'
    /\ MarkStep(p) /\ BusyStep(p)
    /\ DisplayStep(p) /\ ListStep(p) /\ AuthStep(p)

\* What another thread owns, holds and deactivates is what it was.
LEMMA Others ==
    ASSUME NEW q, Same(q), build' = build, NEW i
    PROVE  /\ Owns(q, i)' = Owns(q, i) /\ Holds(q, i)' = Holds(q, i)
           /\ Deactivates(q, i)' = Deactivates(q, i) /\ Locking(q, i)' = Locking(q, i)
           /\ Encrypts(q, i)' = Encrypts(q, i)
BY DEF Same, Owns, Holds, Deactivates, Locking, Encrypts, Guarded

LEMMA MarksKept ==
    ASSUME Types, Marks, NEW p \in Proc, MarkStep(p), build' = build,
           \A q \in Proc \ {p} : Same(q), Types'
    PROVE  Marks'
<1>1. \A q \in Proc \ {p} : \A i : Owns(q, i)' = Owns(q, i) /\ Holds(q, i)' = Holds(q, i)
  BY Others
<1>2. ASSUME NEW i \in Account PROVE (i \in operating <=> \E q \in Proc : Owns(q, i))'
  <2>1. CASE Owns(p, i)'
    BY <2>1 DEF MarkStep
  <2>2. CASE ~Owns(p, i)' /\ Owns(p, i)
    BY <1>1, <2>2 DEF MarkStep, Marks
  <2>3. CASE ~Owns(p, i)' /\ ~Owns(p, i)
    BY <1>1, <2>3 DEF MarkStep, Marks
  <2>. QED
    BY <2>1, <2>2, <2>3
<1>3. ASSUME NEW q \in Proc, NEW r \in Proc, NEW i \in Account, Owns(q, i)', Owns(r, i)'
      PROVE  q = r
  BY <1>1, <1>3 DEF MarkStep, Marks
<1>4. ASSUME NEW q \in Proc, NEW i \in Account
      PROVE  (updateLocks[i] = q)' <=> Holds(q, i)'
  <2>1. None \notin Proc
    BY ActivationConstants
  <2>2. CASE q = p
    BY <2>1, <2>2 DEF MarkStep, Marks
  <2>3. CASE q # p
    BY <1>1, <2>1, <2>3 DEF MarkStep, Marks
  <2>. QED
    BY <2>2, <2>3
<1>. QED
  BY <1>2, <1>3, <1>4 DEF Marks

LEMMA BusyKept ==
    ASSUME Busy, NEW p \in Proc, BusyStep(p), build' = build, \A q \in Proc \ {p} : Same(q)
    PROVE  Busy'
<1>1. \A q \in Proc \ {p} : \A i : /\ Deactivates(q, i)' = Deactivates(q, i)
                                   /\ Locking(q, i)' = Locking(q, i)
  BY Others
<1>. QED
  BY <1>1 DEF Busy, BusyStep

LEMMA DecryptedKept ==
    ASSUME Decrypted, NEW p \in Proc, AuthStep(p), build' = build, \A q \in Proc \ {p} : Same(q)
    PROVE  Decrypted'
<1>1. \A q \in Proc \ {p} : \A i : Encrypts(q, i)' = Encrypts(q, i)
  BY Others
<1>2. NoAuth' = NoAuth
  BY DEF NoAuth
<1>. QED
  BY <1>1, <1>2 DEF Decrypted, AuthStep

LEMMA DisplaysKept ==
    ASSUME IInv, NEW p \in Proc, DisplayStep(p), ListStep(p), build' = build
    PROVE  OneDisplay' /\ ShownIsActive'
<1>1. Types /\ OneDisplay /\ ShownIsActive /\ Shows(p) /\ adisp[p] \in Display /\ aid[p] \in Account
  BY DEF IInv, Types
<1>2. CASE \A d \in Display : foregroundAccountMap'[d] \in {foregroundAccountMap[d], None}
  BY <1>1, <1>2 DEF OneDisplay, ShownIsActive, ListStep
<1>3. CASE /\ apc[p] = "foreground"
           /\ foregroundAccountMap' = [foregroundAccountMap EXCEPT ![adisp[p]] = aid[p]]
  <2>1. \A d \in Display : foregroundAccountMap'[d] =
              IF d = adisp[p] THEN aid[p] ELSE foregroundAccountMap[d]
    BY <1>1, <1>3 DEF Types
  <2>2. \A d \in Display \ {adisp[p]} : foregroundAccountMap[d] # aid[p]
    BY <1>1, <1>3 DEF Shows, NotOnOtherDisplay
  <2>3. build.multiple => aid[p] \in Active
    BY <1>1, <1>3 DEF Shows
  <2>4. OneDisplay'
    BY <1>1, <2>1, <2>2 DEF OneDisplay
  <2>5. ShownIsActive'
    BY <1>1, <2>1, <2>3 DEF ShownIsActive, ListStep
  <2>. QED
    BY <2>4, <2>5
<1>. QED
  BY <1>2, <1>3 DEF DisplayStep

\* Another thread finds the displays, the list and the verified accounts as it
\* left them, as far as they are about the accounts it owns.
LEMMA OthersSee ==
    ASSUME IInv, NEW p \in Proc, NEW q \in Proc \ {p}, Same(q), build' = build,
           DisplayStep(p), ListStep(p), AuthStep(p)
    PROVE  Places(q)' /\ Shows(q)' /\ Gone(q)'
<1>1. /\ Types /\ Places(q) /\ Shows(q) /\ Gone(q) /\ aid[q] \in Account /\ did[q] \in Account
      /\ aid[p] \in Account /\ adisp[p] \in Display
  BY DEF IInv, Types
<1>2. Places(q)'
  BY <1>1 DEF Places, Same
<1>3. \A i \in Account : Owns(q, i) => ~Owns(p, i)
  BY DEF IInv, Marks
<1>4. \A i \in Account : Owns(q, i) =>
         \A d \in Display : foregroundAccountMap'[d] = i => foregroundAccountMap[d] = i
  <2>1. None \notin Account
    BY ActivationConstants
  <2>2. CASE \A d \in Display : foregroundAccountMap'[d] \in {foregroundAccountMap[d], None}
    BY <2>1, <2>2
  <2>3. CASE /\ apc[p] = "foreground"
             /\ foregroundAccountMap' = [foregroundAccountMap EXCEPT ![adisp[p]] = aid[p]]
    <3>1. Owns(p, aid[p])
      BY <2>3 DEF Owns, AMarked, ALocked
    <3>. QED
      BY <1>1, <1>3, <2>3, <3>1 DEF Types
  <2>. QED
    BY <2>2, <2>3 DEF DisplayStep
<1>5. Shows(q)'
  <2>1. CASE apc[q] \in {"storage", "ams", "foreground"}
    <3>1. Owns(q, aid[q])
      BY <2>1 DEF Owns, AMarked, ALocked
    <3>2. NotOnOtherDisplay(aid[q], adisp[q])'
      BY <1>1, <1>4, <2>1, <3>1 DEF Shows, NotOnOtherDisplay, Same
    <3>3. aid[q] \in Active /\ build.multiple => aid[q] \in Active'
      BY <1>1, <1>3, <3>1 DEF ListStep
    <3>. QED
      BY <1>1, <3>2, <3>3 DEF Shows, Same
  <2>2. CASE apc[q] \notin {"storage", "ams", "foreground"}
    BY <2>2 DEF Shows, Same
  <2>. QED
    BY <2>1, <2>2
<1>6. Gone(q)'
  <2>1. SUFFICES ASSUME dpc[q] \in DLocked, Guarded(q) PROVE Gone(q)'
    BY DEF Gone, Same, Guarded
  <2>2. Owns(q, did[q]) /\ ~Owns(p, did[q])
    BY <1>1, <1>3, <2>1 DEF Owns, DMarked
  <2>3. updateLocks[did[q]] # None
    <3>1. updateLocks[did[q]] = q
      BY <1>1, <2>1 DEF IInv, Marks, Holds
    <3>. QED
      BY <3>1, ActivationConstants
  <2>4. /\ did[q] \notin loggedInAccounts => did[q] \notin loggedInAccounts'
        /\ did[q] \notin verifiedAccounts => did[q] \notin verifiedAccounts'
        /\ did[q] \notin Active => did[q] \notin Active'
    BY <2>2, <2>3 DEF AuthStep, ListStep
  <2>5. \A d \in Display : foregroundAccountMap'[d] = did[q] => foregroundAccountMap[d] = did[q]
    BY <1>1, <1>4, <2>2
  <2>. QED
    BY <1>1, <2>1, <2>4, <2>5 DEF Gone, Same, Guarded
<1>. QED
  BY <1>2, <1>5, <1>6

LEMMA Compose == ASSUME IInv, NEW p \in Proc, StepOf(p) PROVE IInv'
<1>1. /\ build' = build /\ Types' /\ \A q \in Proc \ {p} : Same(q)
      /\ MarkStep(p) /\ BusyStep(p) /\ DisplayStep(p) /\ ListStep(p) /\ AuthStep(p)
  BY DEF StepOf
<1>2. Marks' /\ Busy' /\ Decrypted'
  BY <1>1, MarksKept, BusyKept, DecryptedKept DEF IInv
<1>3. OneDisplay' /\ ShownIsActive'
  BY <1>1, DisplaysKept
<1>4. ASSUME NEW q \in Proc PROVE Places(q)' /\ Shows(q)' /\ Gone(q)'
  <2>1. CASE q = p
    BY <2>1 DEF StepOf
  <2>2. CASE q # p
    BY <1>1, <2>2, OthersSee
  <2>. QED
    BY <2>1, <2>2
<1>. QED
  BY <1>1, <1>2, <1>3, <1>4 DEF IInv

\* What is known where a step of thread p begins.
LEMMA Here ==
    ASSUME IInv, NEW p \in Proc
    PROVE  /\ Types /\ Places(p) /\ Shows(p) /\ Gone(p) /\ OneDisplay /\ ShownIsActive
           /\ \A i \in Account : Owns(p, i) => i \in operating
           /\ \A i \in Account : updateLocks[i] = p <=> Holds(p, i)
           /\ None \notin Proc /\ None \notin Account /\ None \notin Display
           /\ Main \in Account /\ Default \in Display
           /\ aid[p] \in Account /\ did[p] \in Account /\ adisp[p] \in Display
BY ActivationConstants DEF IInv, Types, Marks


USE DEF GoA, GoD, Acquire, Release, shown, auth, busy, act, deact
USE DEF ALocked, AMarked, Unmarked, DLocked, DMarked, Bare
-----------------------------------------------------------------------------
(* Calls.                                                                  *)

LEMMA ActivateOsAccountStep ==
    ASSUME IInv, NEW p \in Proc, NEW i \in Account, NEW d \in Display,
           ActivateOsAccount(p, i, d), UNCHANGED build
    PROVE  StepOf(p)
<1>1. Types'
  BY Here DEF ActivateOsAccount, Idle, Types, Places
<1>2. Places(p)' /\ \A q \in Proc \ {p} : Same(q)
  BY Here DEF ActivateOsAccount, Idle, Types, Places, Same
<1>3. MarkStep(p) /\ BusyStep(p)
  BY Here DEF ActivateOsAccount, Idle, Types, MarkStep, BusyStep, Owns, Holds, Deactivates,
     Locking, Guarded, Places
<1>4. DisplayStep(p) /\ ListStep(p) /\ AuthStep(p)
  BY Here DEF ActivateOsAccount, Idle, Types, DisplayStep, ListStep, AuthStep, Active, Owns,
     Encrypts, NoAuth, Places
<1>5. Shows(p)' /\ Gone(p)'
  BY Here DEF ActivateOsAccount, Idle, Types, Shows, Gone, Active, NotOnOtherDisplay, Guarded,
     Places
<1>. QED
  BY <1>1, <1>2, <1>3, <1>4, <1>5 DEF StepOf

LEMMA DeactivateOsAccountStep ==
    ASSUME IInv, NEW p \in Proc, NEW i \in Account, DeactivateOsAccount(p, i), UNCHANGED build
    PROVE  StepOf(p)
<1>1. Types'
  BY Here DEF DeactivateOsAccount, Idle, Types, Places
<1>2. Places(p)' /\ \A q \in Proc \ {p} : Same(q)
  BY Here DEF DeactivateOsAccount, Idle, Types, Places, Same
<1>3. MarkStep(p) /\ BusyStep(p)
  BY Here DEF DeactivateOsAccount, Idle, Types, MarkStep, BusyStep, Owns, Holds, Deactivates,
     Locking, Guarded, Places
<1>4. DisplayStep(p) /\ ListStep(p) /\ AuthStep(p)
  BY Here DEF DeactivateOsAccount, Idle, Types, DisplayStep, ListStep, AuthStep, Active, Owns,
     Encrypts, NoAuth, Places
<1>5. Shows(p)' /\ Gone(p)'
  BY Here DEF DeactivateOsAccount, Idle, Types, Shows, Gone, Active, NotOnOtherDisplay, Guarded,
     Places
<1>. QED
  BY <1>1, <1>2, <1>3, <1>4, <1>5 DEF StepOf

LEMMA LockOsAccountStep ==
    ASSUME IInv, NEW p \in Proc, NEW i \in Account, LockOsAccount(p, i), UNCHANGED build
    PROVE  StepOf(p)
<1>1. Types'
  BY Here DEF LockOsAccount, Idle, Types, Places
<1>2. Places(p)' /\ \A q \in Proc \ {p} : Same(q)
  BY Here DEF LockOsAccount, Idle, Types, Places, Same
<1>3. MarkStep(p) /\ BusyStep(p)
  BY Here DEF LockOsAccount, Idle, Types, MarkStep, BusyStep, Owns, Holds, Deactivates, Locking,
     Guarded, Places
<1>4. DisplayStep(p) /\ ListStep(p) /\ AuthStep(p)
  BY Here DEF LockOsAccount, Idle, Types, DisplayStep, ListStep, AuthStep, Active, Owns, Encrypts,
     NoAuth, Places
<1>5. Shows(p)' /\ Gone(p)'
  BY Here DEF LockOsAccount, Idle, Types, Shows, Gone, Active, NotOnOtherDisplay, Guarded, Places
<1>. QED
  BY <1>1, <1>2, <1>3, <1>4, <1>5 DEF StepOf

LEMMA AuthOnResultStep ==
    ASSUME IInv, NEW p \in Proc, NEW i \in Account, AuthOnResult(p, i), UNCHANGED build
    PROVE  StepOf(p)
<1>1. Types'
  BY Here DEF AuthOnResult, Idle, Types, Places
<1>2. Places(p)' /\ \A q \in Proc \ {p} : Same(q)
  BY Here DEF AuthOnResult, Idle, Types, Places, Same
<1>3. MarkStep(p) /\ BusyStep(p)
  BY Here DEF AuthOnResult, Idle, Types, MarkStep, BusyStep, Owns, Holds, Deactivates, Locking,
     Guarded, Places
<1>4. DisplayStep(p) /\ ListStep(p) /\ AuthStep(p)
  BY Here DEF AuthOnResult, Idle, Types, DisplayStep, ListStep, AuthStep, Active, Owns, Encrypts,
     NoAuth, Places
<1>5. Shows(p)' /\ Gone(p)'
  BY Here DEF AuthOnResult, Idle, Types, Shows, Gone, Active, NotOnOtherDisplay, Guarded, Places
<1>. QED
  BY <1>1, <1>2, <1>3, <1>4, <1>5 DEF StepOf

-----------------------------------------------------------------------------
(* Activation.                                                             *)

LEMMA ActivateLockStep ==
    ASSUME IInv, NEW p \in Proc, ActivateLock(p), UNCHANGED build
    PROVE  StepOf(p)
<1>1. Types'
  BY Here DEF ActivateLock, Types, Places
<1>2. Places(p)' /\ \A q \in Proc \ {p} : Same(q)
  BY Here DEF ActivateLock, Types, Places, Same
<1>3. MarkStep(p) /\ BusyStep(p)
  BY Here DEF ActivateLock, Types, MarkStep, BusyStep, Owns, Holds, Deactivates, Locking, Guarded,
     Places
<1>4. DisplayStep(p) /\ ListStep(p) /\ AuthStep(p)
  BY Here DEF ActivateLock, Types, DisplayStep, ListStep, AuthStep, Active, Owns, Encrypts,
     NoAuth, Places
<1>5. Shows(p)' /\ Gone(p)'
  BY Here DEF ActivateLock, Types, Shows, Gone, Active, NotOnOtherDisplay, Guarded, Places
<1>. QED
  BY <1>1, <1>2, <1>3, <1>4, <1>5 DEF StepOf

LEMMA PrepareActivateOsAccountStep ==
    ASSUME IInv, NEW p \in Proc, PrepareActivateOsAccount(p), UNCHANGED build
    PROVE  StepOf(p)
<1>1. Types'
  BY Here DEF PrepareActivateOsAccount, Types, Places
<1>2. Places(p)' /\ \A q \in Proc \ {p} : Same(q)
  BY Here DEF PrepareActivateOsAccount, Types, Places, Same
<1>3. MarkStep(p) /\ BusyStep(p)
  BY Here DEF PrepareActivateOsAccount, Types, MarkStep, BusyStep, Owns, Holds, Deactivates,
     Locking, Guarded, Places
<1>4. DisplayStep(p) /\ ListStep(p) /\ AuthStep(p)
  BY Here DEF PrepareActivateOsAccount, Types, DisplayStep, ListStep, AuthStep, Active, Owns,
     Encrypts, NoAuth, Places
<1>5. Shows(p)' /\ Gone(p)'
  BY Here DEF PrepareActivateOsAccount, Types, Shows, Gone, Active, NotOnOtherDisplay, Guarded,
     Places
<1>. QED
  BY <1>1, <1>2, <1>3, <1>4, <1>5 DEF StepOf

LEMMA SendToStorageAccountStartStep ==
    ASSUME IInv, NEW p \in Proc, SendToStorageAccountStart(p), UNCHANGED build
    PROVE  StepOf(p)
<1>1. Types'
  BY Here DEF SendToStorageAccountStart, Types, Places
<1>2. Places(p)' /\ \A q \in Proc \ {p} : Same(q)
  BY Here DEF SendToStorageAccountStart, Types, Places, Same
<1>3. MarkStep(p) /\ BusyStep(p)
  BY Here DEF SendToStorageAccountStart, Types, MarkStep, BusyStep, Owns, Holds, Deactivates,
     Locking, Guarded, Places
<1>4. DisplayStep(p) /\ ListStep(p) /\ AuthStep(p)
  BY Here DEF SendToStorageAccountStart, Types, DisplayStep, ListStep, AuthStep, Active, Owns,
     Encrypts, NoAuth, Places
<1>5. Shows(p)' /\ Gone(p)'
  BY Here DEF SendToStorageAccountStart, Types, Shows, Gone, Active, NotOnOtherDisplay, Guarded,
     Places
<1>. QED
  BY <1>1, <1>2, <1>3, <1>4, <1>5 DEF StepOf

LEMMA SendToAMSAccountStartStep ==
    ASSUME IInv, NEW p \in Proc, SendToAMSAccountStart(p), UNCHANGED build
    PROVE  StepOf(p)
<1>1. /\ activeAccountId' \in Seq(Account)
      /\ Active' \subseteq Active \cup {aid[p]}
      /\ build.multiple => Active \subseteq Active'
      /\ apc'[p] = "foreground" => aid[p] \in Active'
      /\ apc' \in [Proc -> AMarked \cup Unmarked]
      /\ apc'[p] \in {"foreground", "end"} /\ \A q \in Proc \ {p} : apc'[q] = apc[q]
  <2>1. CASE PushIdIntoActiveList(aid[p], adisp[p]) /\ GoA(p, "foreground")
    <3>1. /\ activeAccountId' \in Seq(Account)
          /\ aid[p] \in Active' /\ Active' \subseteq Active \cup {aid[p]}
          /\ build.multiple => Active \subseteq Active'
      BY <2>1, Here, Pushed
    <3>. QED
      BY <2>1, <3>1, Here DEF Types
  <2>2. CASE GoA(p, "end") /\ UNCHANGED activeAccountId
    BY <2>2, Here DEF Types, Active
  <2>. QED
    BY <2>1, <2>2 DEF SendToAMSAccountStart
<1>2. /\ apc[p] = "ams"
      /\ UNCHANGED <<foregroundAccountMap, auth, busy, operating, updateLocks, act, dpc, deact>>
  BY DEF SendToAMSAccountStart
<1>3. Types'
  BY <1>1, <1>2, Here DEF Types
<1>4. Places(p)' /\ \A q \in Proc \ {p} : Same(q)
  BY <1>1, <1>2, Here DEF Places, Same
<1>5. MarkStep(p) /\ BusyStep(p)
  BY <1>1, <1>2, Here
     DEF MarkStep, BusyStep, Owns, Holds, Deactivates, Locking, Guarded, Places
<1>6. DisplayStep(p) /\ ListStep(p) /\ AuthStep(p)
  BY <1>1, <1>2, Here DEF DisplayStep, ListStep, AuthStep, Owns, Encrypts, NoAuth, Places
<1>7. Shows(p)' /\ Gone(p)'
  BY <1>1, <1>2, Here DEF Shows, Gone, NotOnOtherDisplay, Guarded, Places
<1>. QED
  BY <1>3, <1>4, <1>5, <1>6, <1>7 DEF StepOf

LEMMA ForegroundInsertStep ==
    ASSUME IInv, NEW p \in Proc, ForegroundInsert(p), UNCHANGED build
    PROVE  StepOf(p)
<1>1. Types'
  BY Here DEF ForegroundInsert, Types, Places
<1>2. Places(p)' /\ \A q \in Proc \ {p} : Same(q)
  BY Here DEF ForegroundInsert, Types, Places, Same
<1>3. MarkStep(p) /\ BusyStep(p)
  BY Here DEF ForegroundInsert, Types, MarkStep, BusyStep, Owns, Holds, Deactivates, Locking,
     Guarded, Places
<1>4. DisplayStep(p) /\ ListStep(p) /\ AuthStep(p)
  BY Here DEF ForegroundInsert, Types, DisplayStep, ListStep, AuthStep, Active, Owns, Encrypts,
     NoAuth, Places
<1>5. apc'[p] \in {"end", "background"} /\ dpc'[p] = "idle"
  BY Here DEF ForegroundInsert, Types, Places
<1>6. Shows(p)' /\ Gone(p)'
  BY <1>5 DEF Shows, Gone
<1>. QED
  BY <1>1, <1>2, <1>3, <1>4, <1>6 DEF StepOf

LEMMA UpdateAccountToBackgroundStep ==
    ASSUME IInv, NEW p \in Proc, UpdateAccountToBackground(p), UNCHANGED build
    PROVE  StepOf(p)
<1>1. Types'
  BY Here DEF UpdateAccountToBackground, Types, Places
<1>2. Places(p)' /\ \A q \in Proc \ {p} : Same(q)
  BY Here DEF UpdateAccountToBackground, Types, Places, Same
<1>3. MarkStep(p) /\ BusyStep(p)
  BY Here DEF UpdateAccountToBackground, Types, MarkStep, BusyStep, Owns, Holds, Deactivates,
     Locking, Guarded, Places
<1>4. DisplayStep(p) /\ ListStep(p) /\ AuthStep(p)
  BY Here DEF UpdateAccountToBackground, Types, DisplayStep, ListStep, AuthStep, Active, Owns,
     Encrypts, NoAuth, Places
<1>5. Shows(p)' /\ Gone(p)'
  BY Here DEF UpdateAccountToBackground, Types, Shows, Gone, Active, NotOnOtherDisplay, Guarded,
     Places
<1>. QED
  BY <1>1, <1>2, <1>3, <1>4, <1>5 DEF StepOf

LEMMA LeaveForegroundStep ==
    ASSUME IInv, NEW p \in Proc, LeaveForeground(p), UNCHANGED build
    PROVE  StepOf(p)
<1>1. /\ apc[p] = "leave" /\ dpc[p] = "idle" /\ old[p] \in Account /\ old[p] # aid[p]
      /\ UNCHANGED <<shown, auth, busy, operating, updateLocks, act>>
  BY Here DEF LeaveForeground, Places, Types
<1>2. CASE build.multiple
  <2>1. /\ apc' \in [Proc -> AMarked \cup Unmarked] /\ apc'[p] \in {"end", "deactivateOld"}
        /\ \A q \in Proc \ {p} : apc'[q] = apc[q]
        /\ UNCHANGED <<dpc, deact>>
    BY <1>2, Here DEF LeaveForeground, Types
  <2>2. Types'
    BY <1>1, <2>1, Here DEF Types
  <2>3. Places(p)' /\ \A q \in Proc \ {p} : Same(q)
    BY <1>1, <1>2, <2>1, Here DEF Places, Same
  <2>4. MarkStep(p) /\ BusyStep(p)
    BY <1>1, <2>1, Here
       DEF MarkStep, BusyStep, Owns, Holds, Deactivates, Locking, Guarded, Places
  <2>5. DisplayStep(p) /\ ListStep(p) /\ AuthStep(p)
    BY <1>1, <2>1, Here DEF DisplayStep, ListStep, AuthStep, Active, Encrypts
  <2>6. Shows(p)' /\ Gone(p)'
    BY <1>1, <2>1, Here DEF Shows, Gone
  <2>. QED
    BY <2>2, <2>3, <2>4, <2>5, <2>6 DEF StepOf
<1>3. CASE ~build.multiple
  <2>1. /\ apc' = [apc EXCEPT ![p] = "wait"] /\ dpc' = [dpc EXCEPT ![p] = "logOut"]
        /\ did' = [did EXCEPT ![p] = old[p]] /\ dfg' = [dfg EXCEPT ![p] = None]
    BY <1>3 DEF LeaveForeground
  <2>2. Types'
    BY <1>1, <2>1, Here DEF Types
  <2>3. Places(p)' /\ \A q \in Proc \ {p} : Same(q)
    BY <1>1, <1>3, <2>1, Here DEF Types, Places, Same
  <2>4. MarkStep(p) /\ BusyStep(p)
    BY <1>1, <1>3, <2>1, Here
       DEF Types, MarkStep, BusyStep, Owns, Holds, Deactivates, Locking, Guarded
  <2>5. DisplayStep(p) /\ ListStep(p) /\ AuthStep(p)
    BY <1>1, <1>3, <2>1, Here DEF Types, DisplayStep, ListStep, AuthStep, Active, Encrypts
  <2>6. Shows(p)' /\ Gone(p)'
    BY <1>1, <1>3, <2>1, Here DEF Types, Shows, Gone, Guarded
  <2>. QED
    BY <2>2, <2>3, <2>4, <2>5, <2>6 DEF StepOf
<1>. QED
  BY <1>2, <1>3

LEMMA DeactivateOldAccountStep ==
    ASSUME IInv, NEW p \in Proc, DeactivateOldAccount(p), UNCHANGED build
    PROVE  StepOf(p)
<1>1. /\ apc[p] = "deactivateOld" /\ dpc[p] = "idle" /\ old[p] \in Account /\ old[p] # aid[p]
      /\ build.multiple
      /\ UNCHANGED <<shown, auth, busy, updateLocks, act>>
  BY Here DEF DeactivateOldAccount, Places, Types
<1>2. CASE GoA(p, "end") /\ UNCHANGED <<operating, dpc, deact>>
  <2>1. Types'
    BY <1>1, <1>2, Here DEF Types
  <2>2. Places(p)' /\ \A q \in Proc \ {p} : Same(q)
    BY <1>1, <1>2, Here DEF Types, Places, Same
  <2>3. MarkStep(p) /\ BusyStep(p)
    BY <1>1, <1>2, Here
       DEF Types, MarkStep, BusyStep, Owns, Holds, Deactivates, Locking, Guarded, Places
  <2>4. DisplayStep(p) /\ ListStep(p) /\ AuthStep(p)
    BY <1>1, <1>2, Here DEF Types, DisplayStep, ListStep, AuthStep, Active, Encrypts
  <2>5. Shows(p)' /\ Gone(p)'
    BY <1>1, <1>2, Here DEF Types, Shows, Gone
  <2>. QED
    BY <2>1, <2>2, <2>3, <2>4, <2>5 DEF StepOf
<1>3. CASE /\ old[p] \notin operating /\ operating' = operating \cup {old[p]}
           /\ did' = [did EXCEPT ![p] = old[p]] /\ UNCHANGED dfg
           /\ GoD(p, "lock") /\ GoA(p, "wait")
  <2>1. Types'
    BY <1>1, <1>3, Here DEF Types
  <2>2. Places(p)' /\ \A q \in Proc \ {p} : Same(q)
    BY <1>1, <1>3, Here DEF Types, Places, Same
  <2>3. MarkStep(p) /\ BusyStep(p)
    BY <1>1, <1>3, Here
       DEF Types, MarkStep, BusyStep, Owns, Holds, Deactivates, Locking, Guarded
  <2>4. DisplayStep(p) /\ ListStep(p) /\ AuthStep(p)
    BY <1>1, <1>3, Here DEF Types, DisplayStep, ListStep, AuthStep, Active, Encrypts
  <2>5. Shows(p)' /\ Gone(p)'
    BY <1>1, <1>3, Here DEF Types, Shows, Gone
  <2>. QED
    BY <2>1, <2>2, <2>3, <2>4, <2>5 DEF StepOf
<1>. QED
  BY <1>2, <1>3 DEF DeactivateOldAccount

LEMMA LeaveForegroundDoneStep ==
    ASSUME IInv, NEW p \in Proc, LeaveForegroundDone(p), UNCHANGED build
    PROVE  StepOf(p)
<1>1. Types'
  BY Here DEF LeaveForegroundDone, Types, Places
<1>2. Places(p)' /\ \A q \in Proc \ {p} : Same(q)
  BY Here DEF LeaveForegroundDone, Types, Places, Same
<1>3. MarkStep(p) /\ BusyStep(p)
  BY Here DEF LeaveForegroundDone, Types, MarkStep, BusyStep, Owns, Holds, Deactivates, Locking,
     Guarded, Places
<1>4. DisplayStep(p) /\ ListStep(p) /\ AuthStep(p)
  BY Here DEF LeaveForegroundDone, Types, DisplayStep, ListStep, AuthStep, Active, Owns, Encrypts,
     NoAuth, Places
<1>5. Shows(p)' /\ Gone(p)'
  BY Here DEF LeaveForegroundDone, Types, Shows, Gone, Active, NotOnOtherDisplay, Guarded, Places
<1>. QED
  BY <1>1, <1>2, <1>3, <1>4, <1>5 DEF StepOf

LEMMA ActivateReturnStep ==
    ASSUME IInv, NEW p \in Proc, ActivateReturn(p), UNCHANGED build
    PROVE  StepOf(p)
<1>1. Types'
  BY Here DEF ActivateReturn, Types, Places
<1>2. Places(p)' /\ \A q \in Proc \ {p} : Same(q)
  BY Here DEF ActivateReturn, Types, Places, Same
<1>3. MarkStep(p) /\ BusyStep(p)
  BY Here DEF ActivateReturn, Types, MarkStep, BusyStep, Owns, Holds, Deactivates, Locking,
     Guarded, Places
<1>4. DisplayStep(p) /\ ListStep(p) /\ AuthStep(p)
  BY Here DEF ActivateReturn, Types, DisplayStep, ListStep, AuthStep, Active, Owns, Encrypts,
     NoAuth, Places
<1>5. Shows(p)' /\ Gone(p)'
  BY Here DEF ActivateReturn, Types, Shows, Gone, Active, NotOnOtherDisplay, Guarded, Places
<1>. QED
  BY <1>1, <1>2, <1>3, <1>4, <1>5 DEF StepOf

-----------------------------------------------------------------------------
(* Deactivation.                                                           *)

LEMMA DeactivateLockStep ==
    ASSUME IInv, NEW p \in Proc, DeactivateLock(p), UNCHANGED build
    PROVE  StepOf(p)
<1>1. /\ dpc[p] = "lock" /\ Guarded(p) /\ apc[p] \in {"idle", "wait"}
      /\ dpc' = [dpc EXCEPT ![p] = "read"]
      /\ updateLocks[did[p]] = None /\ updateLocks' = [updateLocks EXCEPT ![did[p]] = p]
      /\ UNCHANGED <<shown, auth, busy, operating, apc, act, deact>>
  BY Here DEF DeactivateLock, Places, Guarded
<1>2. Types'
  BY <1>1, Here DEF Types
<1>3. Places(p)' /\ \A q \in Proc \ {p} : Same(q)
  BY <1>1, Here DEF Types, Places, Same, Guarded
<1>4. MarkStep(p)
  BY <1>1, Here DEF Types, MarkStep, Owns, Holds, Guarded
<1>5. BusyStep(p)
  BY <1>1, Here DEF Types, BusyStep, Deactivates, Locking
<1>6. DisplayStep(p) /\ ListStep(p) /\ AuthStep(p)
  BY <1>1, Here DEF Types, DisplayStep, ListStep, AuthStep, Active, Encrypts
<1>7. Shows(p)' /\ Gone(p)'
  BY <1>1, Here DEF Types, Shows, Gone
<1>. QED
  BY <1>2, <1>3, <1>4, <1>5, <1>6, <1>7 DEF StepOf

LEMMA DeactivateReadStep ==
    ASSUME IInv, NEW p \in Proc, DeactivateRead(p), UNCHANGED build
    PROVE  StepOf(p)
<1>1. /\ dpc[p] = "read" /\ Guarded(p) /\ apc[p] \in {"idle", "wait"}
      /\ dpc' \in [Proc -> DMarked \cup {"idle", "again"}]
      /\ dpc'[p] \in {"clean", "out"} /\ \A q \in Proc \ {p} : dpc'[q] = dpc[q]
      /\ UNCHANGED <<shown, auth, lockingAccounts, operating, updateLocks, apc, act, did>>
      /\ deactivatingAccounts' \subseteq deactivatingAccounts \cup {did[p]}
  <2>1. /\ dpc[p] = "read" /\ Guarded(p) /\ apc[p] \in {"idle", "wait"}
        /\ UNCHANGED <<shown, auth, lockingAccounts, operating, updateLocks, apc, act, did>>
        /\ deactivatingAccounts' \subseteq deactivatingAccounts \cup {did[p]}
    BY Here DEF DeactivateRead, Places, Guarded
  <2>2. dpc' = [dpc EXCEPT ![p] = "clean"] \/ dpc' = [dpc EXCEPT ![p] = "out"]
    BY DEF DeactivateRead
  <2>3. /\ dpc' \in [Proc -> DMarked \cup {"idle", "again"}]
        /\ dpc'[p] \in {"clean", "out"} /\ \A q \in Proc \ {p} : dpc'[q] = dpc[q]
    BY <2>2, Here DEF Types
  <2>. QED
    BY <2>1, <2>3
<1>2. /\ dfg' \in [Proc -> Display \cup {None}] /\ \A q \in Proc \ {p} : dfg'[q] = dfg[q]
      /\ dpc'[p] = "clean" /\ build.multiple =>
            \A d \in Display : foregroundAccountMap[d] = did[p] => d = dfg'[p]
  <2>1. CASE dfg' = [dfg EXCEPT ![p] =
           IF did[p] \in Active /\ \E d \in Display : foregroundAccountMap[d] = did[p]
           THEN CHOOSE d \in Display : foregroundAccountMap[d] = did[p]
           ELSE None]
    <3>1. dfg' \in [Proc -> Display \cup {None}] /\ \A q \in Proc \ {p} : dfg'[q] = dfg[q]
      BY <2>1, Here DEF Types
    <3>2. ASSUME build.multiple, NEW d \in Display, foregroundAccountMap[d] = did[p]
          PROVE  d = dfg'[p]
      <4>1. did[p] \in Active
        BY <3>2, Here DEF ShownIsActive
      <4>2. PICK e \in Display : e = dfg'[p] /\ foregroundAccountMap[e] = did[p]
        BY <2>1, <3>2, <4>1, Here DEF Types
      <4>. QED
        BY <3>2, <4>2, Here DEF OneDisplay
    <3>. QED
      BY <3>1, <3>2
  <2>2. CASE dpc' = [dpc EXCEPT ![p] = "out"] /\ UNCHANGED dfg
    BY <2>2, Here DEF Types
  <2>. QED
    BY <2>1, <2>2 DEF DeactivateRead
<1>3. Types'
  BY <1>1, <1>2, Here DEF Types
<1>4. Places(p)' /\ \A q \in Proc \ {p} : Same(q)
  BY <1>1, <1>2, Here DEF Places, Same, Guarded
<1>5. MarkStep(p)
  BY <1>1, Here DEF MarkStep, Owns, Holds, Guarded
<1>6. BusyStep(p)
  BY <1>1, Here DEF BusyStep, Deactivates, Locking, Guarded
<1>7. DisplayStep(p) /\ ListStep(p) /\ AuthStep(p)
  BY <1>1, Here DEF DisplayStep, ListStep, AuthStep, Active, Encrypts
<1>8. Shows(p)' /\ Gone(p)'
  BY <1>1, <1>2, Here DEF Shows, Gone
<1>. QED
  BY <1>3, <1>4, <1>5, <1>6, <1>7, <1>8 DEF StepOf

LEMMA DeactivateCleanStep ==
    ASSUME IInv, NEW p \in Proc, DeactivateClean(p), UNCHANGED build
    PROVE  StepOf(p)
<1>1. Types'
  BY Here DEF DeactivateClean, Types, Places, CleanForegroundAccountMap
<1>2. Places(p)' /\ \A q \in Proc \ {p} : Same(q)
  BY Here DEF DeactivateClean, Types, Places, Same
<1>3. MarkStep(p) /\ BusyStep(p)
  BY Here DEF DeactivateClean, Types, MarkStep, BusyStep, Owns, Holds, Deactivates, Locking,
     Guarded, Places
<1>4. DisplayStep(p) /\ ListStep(p) /\ AuthStep(p)
  BY Here DEF DeactivateClean, Types, DisplayStep, ListStep, AuthStep, CleanForegroundAccountMap,
     Active, Owns, Encrypts, NoAuth, Places
<1>5. /\ dpc[p] = "clean" /\ apc[p] \in {"idle", "wait"} /\ dpc'[p] = "ams"
      /\ UNCHANGED <<did, dfg, apc>>
  BY Here DEF DeactivateClean, Types, Places
<1>6. Shows(p)'
  BY <1>5 DEF Shows
<1>7. ASSUME build.multiple, NEW d \in Display PROVE foregroundAccountMap'[d] # did[p]
  <2>1. foregroundAccountMap[d] = did[p] => d = dfg[p]
    BY <1>5, <1>7, Here DEF Gone, Guarded
  <2>. QED
    BY <2>1, Here DEF DeactivateClean, CleanForegroundAccountMap
<1>8. Gone(p)'
  BY <1>5, <1>7 DEF Gone
<1>. QED
  BY <1>1, <1>2, <1>3, <1>4, <1>6, <1>8 DEF StepOf

LEMMA SendToAMSAccountDeactivateStep ==
    ASSUME IInv, NEW p \in Proc, SendToAMSAccountDeactivate(p), UNCHANGED build
    PROVE  StepOf(p)
<1>1. /\ dpc' \in [Proc -> DMarked \cup {"idle", "again"}]
      /\ dpc[p] = "ams" /\ dpc'[p] \in {"stop", "logOut", "out"}
      /\ \A q \in Proc \ {p} : dpc'[q] = dpc[q]
      /\ UNCHANGED <<shown, auth, busy, operating, updateLocks, apc, act, deact>>
  BY Here DEF SendToAMSAccountDeactivate, Types
<1>2. Types'
  BY <1>1, Here DEF Types
<1>3. Places(p)' /\ \A q \in Proc \ {p} : Same(q)
  BY <1>1, Here DEF Places, Same
<1>4. MarkStep(p) /\ BusyStep(p)
  BY <1>1, Here DEF MarkStep, BusyStep, Owns, Holds, Deactivates, Locking, Guarded, Places
<1>5. DisplayStep(p) /\ ListStep(p) /\ AuthStep(p)
  BY <1>1, Here DEF DisplayStep, ListStep, AuthStep, Active, Encrypts
<1>6. Shows(p)' /\ Gone(p)'
  BY <1>1, Here DEF Shows, Gone, Active, NotOnOtherDisplay, Guarded, Places
<1>. QED
  BY <1>2, <1>3, <1>4, <1>5, <1>6 DEF StepOf

LEMMA SendToStorageAccountStopStep ==
    ASSUME IInv, NEW p \in Proc, SendToStorageAccountStop(p), UNCHANGED build
    PROVE  StepOf(p)
<1>1. /\ dpc[p] = "stop" /\ Guarded(p) /\ apc[p] \in {"idle", "wait"}
      /\ build.multiple => \A d \in Display : foregroundAccountMap[d] # did[p]
      /\ UNCHANGED <<foregroundAccountMap, busy, operating, updateLocks, apc, act, deact>>
  BY Here DEF SendToStorageAccountStop, Places, Gone, Guarded
<1>2. /\ activeAccountId' \in Seq(Account)
      /\ Active' \subseteq Active /\ Active \ Active' \subseteq {did[p]}
      /\ verifiedAccounts' \subseteq verifiedAccounts
      /\ loggedInAccounts' \subseteq loggedInAccounts /\ el2' \subseteq el2
      /\ dpc' \in [Proc -> DMarked \cup {"idle", "again"}]
      /\ dpc'[p] \in {"logOut", "out"} /\ \A q \in Proc \ {p} : dpc'[q] = dpc[q]
      /\ \/ dpc'[p] = "logOut" /\ el2' = el2 \ {did[p]}
         \/ dpc'[p] = "out" /\ UNCHANGED el2
  <2>1. CASE /\ el2' = el2 \ {did[p]} /\ GoD(p, "logOut")
             /\ UNCHANGED <<loggedInAccounts, verifiedAccounts, activeAccountId>>
    BY <2>1, Here DEF Types, Active
  <2>2. CASE /\ loggedInAccounts' = loggedInAccounts \ {did[p]}
             /\ verifiedAccounts' = verifiedAccounts \ {did[p]}
             /\ EraseIdFromActiveList(did[p])
             /\ GoD(p, "out")
             /\ UNCHANGED el2
    <3>1. activeAccountId' \in Seq(Account) /\ Active' = Active \ {did[p]}
      BY <2>2, Here, Erased
    <3>. QED
      BY <2>2, <3>1, Here DEF Types
  <2>. QED
    BY <2>1, <2>2 DEF SendToStorageAccountStop
<1>3. Types'
  BY <1>1, <1>2, Here DEF Types
<1>4. Places(p)' /\ \A q \in Proc \ {p} : Same(q)
  BY <1>1, <1>2, Here DEF Places, Same
<1>5. MarkStep(p) /\ BusyStep(p)
  BY <1>1, <1>2, Here DEF MarkStep, BusyStep, Owns, Holds, Deactivates, Locking, Guarded, Places
<1>6. DisplayStep(p) /\ ListStep(p)
  BY <1>1, <1>2, Here DEF DisplayStep, ListStep, Owns
<1>7. AuthStep(p)
  BY <1>1, <1>2, Here DEF AuthStep, Encrypts
<1>8. Shows(p)' /\ Gone(p)'
  BY <1>1, <1>2, Here DEF Shows, Gone, Guarded
<1>. QED
  BY <1>3, <1>4, <1>5, <1>6, <1>7, <1>8 DEF StepOf

LEMMA DeactivateLogOutStep ==
    ASSUME IInv, NEW p \in Proc, DeactivateLogOut(p), UNCHANGED build
    PROVE  StepOf(p)
<1>1. Types'
  BY Here DEF DeactivateLogOut, Types, Places
<1>2. Places(p)' /\ \A q \in Proc \ {p} : Same(q)
  BY Here DEF DeactivateLogOut, Types, Places, Same
<1>3. MarkStep(p) /\ BusyStep(p)
  BY Here DEF DeactivateLogOut, Types, MarkStep, BusyStep, Owns, Holds, Deactivates, Locking,
     Guarded, Places
<1>4. DisplayStep(p) /\ ListStep(p) /\ AuthStep(p)
  BY Here DEF DeactivateLogOut, Types, DisplayStep, ListStep, AuthStep, Active, Owns, Encrypts,
     NoAuth, Places
<1>5. Shows(p)' /\ Gone(p)'
  BY Here DEF DeactivateLogOut, Types, Shows, Gone, Active, NotOnOtherDisplay, Guarded, Places
<1>. QED
  BY <1>1, <1>2, <1>3, <1>4, <1>5 DEF StepOf

LEMMA DeactivateUnverifyStep ==
    ASSUME IInv, NEW p \in Proc, DeactivateUnverify(p), UNCHANGED build
    PROVE  StepOf(p)
<1>1. Types'
  BY Here DEF DeactivateUnverify, Types, Places
<1>2. Places(p)' /\ \A q \in Proc \ {p} : Same(q)
  BY Here DEF DeactivateUnverify, Types, Places, Same
<1>3. MarkStep(p) /\ BusyStep(p)
  BY Here DEF DeactivateUnverify, Types, MarkStep, BusyStep, Owns, Holds, Deactivates, Locking,
     Guarded, Places
<1>4. DisplayStep(p) /\ ListStep(p) /\ AuthStep(p)
  BY Here DEF DeactivateUnverify, Types, DisplayStep, ListStep, AuthStep, Active, Owns, Encrypts,
     NoAuth, Places
<1>5. Shows(p)' /\ Gone(p)'
  BY Here DEF DeactivateUnverify, Types, Shows, Gone, Active, NotOnOtherDisplay, Guarded, Places
<1>. QED
  BY <1>1, <1>2, <1>3, <1>4, <1>5 DEF StepOf

LEMMA DeactivateUnshowStep ==
    ASSUME IInv, NEW p \in Proc, DeactivateUnshow(p), UNCHANGED build
    PROVE  StepOf(p)
<1>1. Types'
  BY Here DEF DeactivateUnshow, Types, Places, CleanForegroundAccountMap
<1>2. Places(p)' /\ \A q \in Proc \ {p} : Same(q)
  BY Here DEF DeactivateUnshow, Types, Places, Same
<1>3. MarkStep(p) /\ BusyStep(p)
  BY Here DEF DeactivateUnshow, Types, MarkStep, BusyStep, Owns, Holds, Deactivates, Locking,
     Guarded, Places
<1>4. DisplayStep(p) /\ ListStep(p) /\ AuthStep(p)
  BY Here DEF DeactivateUnshow, Types, DisplayStep, ListStep, AuthStep, CleanForegroundAccountMap,
     Active, Owns, Encrypts, NoAuth, Places
<1>5. /\ dpc[p] = "unshow" /\ apc[p] \in {"idle", "wait"} /\ dpc'[p] = "erase"
      /\ UNCHANGED <<did, apc, activeAccountId, verifiedAccounts, loggedInAccounts>>
  BY Here DEF DeactivateUnshow, Types, Places
<1>6. Shows(p)'
  BY <1>5 DEF Shows
<1>7. \A d \in Display : foregroundAccountMap'[d] \in {foregroundAccountMap[d], None}
  BY DEF DeactivateUnshow, CleanForegroundAccountMap
<1>8. Gone(p)'
  BY <1>5, <1>7, Here DEF Gone, Guarded
<1>. QED
  BY <1>1, <1>2, <1>3, <1>4, <1>6, <1>8 DEF StepOf

LEMMA DeactivateEraseStep ==
    ASSUME IInv, NEW p \in Proc, DeactivateErase(p), UNCHANGED build
    PROVE  StepOf(p)
<1>1. /\ dpc[p] = "erase" /\ apc[p] \in {"idle", "wait"} /\ (apc[p] = "wait" => did[p] # aid[p])
      /\ UNCHANGED <<foregroundAccountMap, auth, busy, operating, updateLocks, apc, act, deact>>
  BY Here DEF DeactivateErase, Places
<1>2. activeAccountId' \in Seq(Account) /\ Active' = Active \ {did[p]}
  BY Here, Erased DEF DeactivateErase
<1>3. updateLocks[did[p]] = p <=> Guarded(p)
  BY <1>1, Here DEF Holds, Guarded
<1>4. /\ dpc' \in [Proc -> DMarked \cup {"idle", "again"}]
      /\ IF Guarded(p) THEN dpc'[p] \in {"done", "out"} ELSE dpc'[p] = "idle"
      /\ \A q \in Proc \ {p} : dpc'[q] = dpc[q]
  <2>1. PICK d \in {"done", "out", "idle"} :
             /\ dpc' = [dpc EXCEPT ![p] = d]
             /\ IF Guarded(p) THEN d \in {"done", "out"} ELSE d = "idle"
    BY <1>3 DEF DeactivateErase, GoD
  <2>2. dpc \in [Proc -> DMarked \cup {"idle", "again"}]
    BY Here DEF Types
  <2>3. {"done", "out"} \subseteq DMarked
    BY DEF DMarked, DLocked
  <2>. QED
    BY <2>1, <2>2, <2>3
<1>5. Types'
  BY <1>1, <1>2, <1>4, Here DEF Types
<1>6. Places(p)' /\ \A q \in Proc \ {p} : Same(q)
  BY <1>1, <1>4, Here DEF Places, Same, Guarded
<1>7. MarkStep(p) /\ BusyStep(p)
  BY <1>1, <1>4, Here DEF MarkStep, BusyStep, Owns, Holds, Deactivates, Locking, Guarded
<1>8. DisplayStep(p) /\ ListStep(p) /\ AuthStep(p)
  <2>1. build.multiple => Owns(p, did[p]) /\ \A d \in Display : foregroundAccountMap[d] # did[p]
    BY <1>1, Here DEF Owns, Gone, Guarded
  <2>. QED
    BY <1>1, <1>2, <1>4, <2>1 DEF DisplayStep, ListStep, AuthStep, Encrypts
<1>9. Shows(p)' /\ Gone(p)'
  BY <1>1, <1>2, <1>4, Here DEF Shows, Gone, Guarded
<1>. QED
  BY <1>5, <1>6, <1>7, <1>8, <1>9 DEF StepOf

LEMMA DeactivateReturnStep ==
    ASSUME IInv, NEW p \in Proc, DeactivateReturn(p), UNCHANGED build
    PROVE  StepOf(p)
<1>1. Types'
  BY Here DEF DeactivateReturn, Types, Places
<1>2. Places(p)' /\ \A q \in Proc \ {p} : Same(q)
  BY Here DEF DeactivateReturn, Types, Places, Same
<1>3. MarkStep(p) /\ BusyStep(p)
  BY Here DEF DeactivateReturn, Types, MarkStep, BusyStep, Owns, Holds, Deactivates, Locking,
     Guarded, Places
<1>4. DisplayStep(p) /\ ListStep(p) /\ AuthStep(p)
  BY Here DEF DeactivateReturn, Types, DisplayStep, ListStep, AuthStep, Active, Owns, Encrypts,
     NoAuth, Places
<1>5. Shows(p)' /\ Gone(p)'
  BY Here DEF DeactivateReturn, Types, Shows, Gone, Active, NotOnOtherDisplay, Guarded, Places
<1>. QED
  BY <1>1, <1>2, <1>3, <1>4, <1>5 DEF StepOf

LEMMA ActivateMainAgainStep ==
    ASSUME IInv, NEW p \in Proc, ActivateMainAgain(p), UNCHANGED build
    PROVE  StepOf(p)
<1>1. Types'
  <2>1. CASE UNCHANGED <<operating, apc, aid, adisp, startStorage>>
    BY <2>1, Here DEF ActivateMainAgain, Types
  <2>2. CASE /\ operating' = operating \cup {Main}
             /\ aid' = [aid EXCEPT ![p] = Main]
             /\ adisp' = [adisp EXCEPT ![p] = Default]
             /\ GoA(p, "lock")
    BY <2>2, Here DEF ActivateMainAgain, Types
  <2>. QED
    BY <2>1, <2>2 DEF ActivateMainAgain
<1>2. Places(p)' /\ \A q \in Proc \ {p} : Same(q)
  BY Here DEF ActivateMainAgain, Types, Places, Same
<1>3. MarkStep(p) /\ BusyStep(p)
  BY Here DEF ActivateMainAgain, Types, MarkStep, BusyStep, Owns, Holds, Deactivates, Locking,
     Guarded, Places
<1>4. DisplayStep(p) /\ ListStep(p) /\ AuthStep(p)
  BY Here DEF ActivateMainAgain, Types, DisplayStep, ListStep, AuthStep, Active, Owns, Encrypts,
     NoAuth, Places
<1>5. Shows(p)' /\ Gone(p)'
  BY Here DEF ActivateMainAgain, Types, Shows, Gone, Active, NotOnOtherDisplay, Guarded, Places
<1>. QED
  BY <1>1, <1>2, <1>3, <1>4, <1>5 DEF StepOf

-----------------------------------------------------------------------------
(* Locks and authentications.                                              *)

LEMMA LockPluginStep ==
    ASSUME IInv, NEW p \in Proc, LockPlugin(p), UNCHANGED build
    PROVE  StepOf(p)
<1>1. Types'
  <2>1. CASE el2' = el2 \ {aid[p]} /\ GoA(p, "locked") /\ UNCHANGED operating
    BY <2>1, Here DEF LockPlugin, Types
  <2>2. CASE operating' = operating \ {aid[p]} /\ GoA(p, "idle") /\ UNCHANGED el2
    BY <2>2, Here DEF LockPlugin, Types
  <2>. QED
    BY <2>1, <2>2 DEF LockPlugin
<1>2. Places(p)' /\ \A q \in Proc \ {p} : Same(q)
  BY Here DEF LockPlugin, Types, Places, Same
<1>3. MarkStep(p) /\ BusyStep(p)
  BY Here DEF LockPlugin, Types, MarkStep, BusyStep, Owns, Holds, Deactivates, Locking, Guarded,
     Places
<1>4. DisplayStep(p) /\ ListStep(p) /\ AuthStep(p)
  BY Here DEF LockPlugin, Types, DisplayStep, ListStep, AuthStep, Active, Owns, Encrypts, NoAuth,
     Places
<1>5. Shows(p)' /\ Gone(p)'
  BY Here DEF LockPlugin, Types, Shows, Gone, Active, NotOnOtherDisplay, Guarded, Places
<1>. QED
  BY <1>1, <1>2, <1>3, <1>4, <1>5 DEF StepOf

LEMMA LockReturnStep ==
    ASSUME IInv, NEW p \in Proc, LockReturn(p), UNCHANGED build
    PROVE  StepOf(p)
<1>1. Types'
  BY Here DEF LockReturn, Types, Places
<1>2. Places(p)' /\ \A q \in Proc \ {p} : Same(q)
  BY Here DEF LockReturn, Types, Places, Same
<1>3. MarkStep(p) /\ BusyStep(p)
  BY Here DEF LockReturn, Types, MarkStep, BusyStep, Owns, Holds, Deactivates, Locking, Guarded,
     Places
<1>4. DisplayStep(p) /\ ListStep(p) /\ AuthStep(p)
  BY Here DEF LockReturn, Types, DisplayStep, ListStep, AuthStep, Active, Owns, Encrypts, NoAuth,
     Places
<1>5. Shows(p)' /\ Gone(p)'
  BY Here DEF LockReturn, Types, Shows, Gone, Active, NotOnOtherDisplay, Guarded, Places
<1>. QED
  BY <1>1, <1>2, <1>3, <1>4, <1>5 DEF StepOf

LEMMA UnlockUserStorageStep ==
    ASSUME IInv, NEW p \in Proc, UnlockUserStorage(p), UNCHANGED build
    PROVE  StepOf(p)
<1>1. Types'
  BY Here DEF UnlockUserStorage, Types, Places
<1>2. Places(p)' /\ \A q \in Proc \ {p} : Same(q)
  BY Here DEF UnlockUserStorage, Types, Places, Same
<1>3. MarkStep(p) /\ BusyStep(p)
  BY Here DEF UnlockUserStorage, Types, MarkStep, BusyStep, Owns, Holds, Deactivates, Locking,
     Guarded, Places
<1>4. DisplayStep(p) /\ ListStep(p) /\ AuthStep(p)
  BY Here DEF UnlockUserStorage, Types, DisplayStep, ListStep, AuthStep, Active, Owns, Encrypts,
     NoAuth, Places
<1>5. Shows(p)' /\ Gone(p)'
  BY Here DEF UnlockUserStorage, Types, Shows, Gone, Active, NotOnOtherDisplay, Guarded, Places
<1>. QED
  BY <1>1, <1>2, <1>3, <1>4, <1>5 DEF StepOf

LEMMA SetOsAccountIsVerifiedStep ==
    ASSUME IInv, NEW p \in Proc, SetOsAccountIsVerified(p), UNCHANGED build
    PROVE  StepOf(p)
<1>1. Types'
  BY Here DEF SetOsAccountIsVerified, Types, Places
<1>2. Places(p)' /\ \A q \in Proc \ {p} : Same(q)
  BY Here DEF SetOsAccountIsVerified, Types, Places, Same
<1>3. MarkStep(p) /\ BusyStep(p)
  BY Here DEF SetOsAccountIsVerified, Types, MarkStep, BusyStep, Owns, Holds, Deactivates,
     Locking, Guarded, Places
<1>4. DisplayStep(p) /\ ListStep(p)
  BY DEF SetOsAccountIsVerified, DisplayStep, ListStep, Active
<1>5. AuthStep(p)
  <2>1. ~NoAuth
    BY Here DEF SetOsAccountIsVerified, Places, NoAuth
  <2>2. UNCHANGED loggedInAccounts /\ (verifiedAccounts' # verifiedAccounts =>
             verifiedAccounts' = verifiedAccounts \cup {aid[p]} /\ updateLocks[aid[p]] = None)
    BY DEF SetOsAccountIsVerified
  <2>. QED
    BY <2>1, <2>2 DEF AuthStep
<1>6. Shows(p)' /\ Gone(p)'
  BY Here DEF SetOsAccountIsVerified, Types, Shows, Gone, Active, NotOnOtherDisplay, Guarded,
     Places
<1>. QED
  BY <1>1, <1>2, <1>3, <1>4, <1>5, <1>6 DEF StepOf
LEMMA SetOsAccountIsLoggedInStep ==
    ASSUME IInv, NEW p \in Proc, SetOsAccountIsLoggedIn(p), UNCHANGED build
    PROVE  StepOf(p)
<1>1. Types'
  BY Here DEF SetOsAccountIsLoggedIn, Types, Places
<1>2. Places(p)' /\ \A q \in Proc \ {p} : Same(q)
  BY Here DEF SetOsAccountIsLoggedIn, Types, Places, Same
<1>3. MarkStep(p) /\ BusyStep(p)
  BY Here DEF SetOsAccountIsLoggedIn, Types, MarkStep, BusyStep, Owns, Holds, Deactivates,
     Locking, Guarded, Places
<1>4. DisplayStep(p) /\ ListStep(p) /\ AuthStep(p)
  BY Here DEF SetOsAccountIsLoggedIn, Types, DisplayStep, ListStep, AuthStep, Active, Owns,
     Encrypts, NoAuth, Places
<1>5. Shows(p)' /\ Gone(p)'
  BY Here DEF SetOsAccountIsLoggedIn, Types, Shows, Gone, Active, NotOnOtherDisplay, Guarded,
     Places
<1>. QED
  BY <1>1, <1>2, <1>3, <1>4, <1>5 DEF StepOf

-----------------------------------------------------------------------------
(* The invariant.                                                          *)

LEMMA InitOK == Init => IInv
<1>. SUFFICES ASSUME Init PROVE IInv
  OBVIOUS
<1>1. \A p \in Proc : apc[p] = "idle" /\ dpc[p] = "idle"
  BY DEF Init
<1>2. None \notin Proc /\ None \notin Account /\ Main \in Account /\ Default \in Display
  BY ActivationConstants
<1>3. Types
  BY <1>2 DEF Init, Types
<1>4. \A p \in Proc : Places(p) /\ Shows(p) /\ Gone(p)
  BY <1>1 DEF Places, Shows, Gone
<1>5. Marks
  BY <1>1, <1>2 DEF Init, Marks, Owns, Holds
<1>6. Busy /\ OneDisplay /\ ShownIsActive /\ Decrypted
  BY DEF Init, Busy, OneDisplay, ShownIsActive, Decrypted
<1>. QED
  BY <1>3, <1>4, <1>5, <1>6 DEF IInv

LEMMA NextOK == IInv /\ [Next]_vars => IInv'
<1>. SUFFICES ASSUME IInv, [Next]_vars PROVE IInv'
  OBVIOUS
<1>1. ASSUME NEW p \in Proc, Call(p) PROVE StepOf(p)
  BY <1>1, ActivateOsAccountStep, DeactivateOsAccountStep, LockOsAccountStep, AuthOnResultStep
     DEF Call
<1>2. ASSUME NEW p \in Proc, Step(p) PROVE StepOf(p)
  <2>1. CASE ActivateStep(p)
    BY <1>2, <2>1, ActivateLockStep, PrepareActivateOsAccountStep, SendToStorageAccountStartStep,
       SendToAMSAccountStartStep, ForegroundInsertStep, UpdateAccountToBackgroundStep,
       LeaveForegroundStep, DeactivateOldAccountStep, LeaveForegroundDoneStep, ActivateReturnStep
       DEF Step, ActivateStep
  <2>2. CASE DeactivateStep(p)
    BY <1>2, <2>2, DeactivateLockStep, DeactivateReadStep, DeactivateCleanStep,
       SendToAMSAccountDeactivateStep, SendToStorageAccountStopStep, DeactivateLogOutStep,
       DeactivateUnverifyStep, DeactivateUnshowStep, DeactivateEraseStep, DeactivateReturnStep,
       ActivateMainAgainStep
       DEF Step, DeactivateStep
  <2>3. CASE OtherStep(p)
    BY <1>2, <2>3, LockPluginStep, LockReturnStep, UnlockUserStorageStep,
       SetOsAccountIsVerifiedStep, SetOsAccountIsLoggedInStep
       DEF Step, OtherStep
  <2>. QED
    BY <1>2, <2>1, <2>2, <2>3 DEF Step
<1>3. CASE UNCHANGED vars
  <2>1. \A p \in Proc : \A i :
           /\ Owns(p, i)' = Owns(p, i) /\ Holds(p, i)' = Holds(p, i)
           /\ Deactivates(p, i)' = Deactivates(p, i) /\ Locking(p, i)' = Locking(p, i)
           /\ Encrypts(p, i)' = Encrypts(p, i)
    BY <1>3, Others DEF vars, Same
  <2>2. Marks' /\ Busy' /\ Decrypted'
    BY <1>3, <2>1 DEF vars, IInv, Marks, Busy, Decrypted, NoAuth
  <2>3. \A p \in Proc : Places(p)' /\ Shows(p)' /\ Gone(p)'
    BY <1>3 DEF vars, IInv, Places, Shows, Gone, Guarded, NotOnOtherDisplay, Active
  <2>4. Types' /\ OneDisplay' /\ ShownIsActive'
    BY <1>3 DEF vars, IInv, Types, OneDisplay, ShownIsActive, Active
  <2>. QED
    BY <2>2, <2>3, <2>4 DEF IInv
<1>. QED
  BY <1>1, <1>2, <1>3, Compose DEF Next

LEMMA Inductive == Spec => []IInv
BY InitOK, NextOK, PTL DEF Spec

-----------------------------------------------------------------------------
\* No account is shown on two displays, whatever the threads switch at a time:
\* between the check of PrepareActivateOsAccount and the entry in the map the
\* mark keeps the account.
THEOREM OnOneDisplay == Spec => []OneDisplay
<1>1. IInv => OneDisplay
  BY DEF IInv
<1>. QED
  BY <1>1, Inductive, PTL

\* No account is activated, deactivated or locked by two threads at a time where
\* several accounts may be active.
THEOREM OneThreadPerAccount == Spec => []OneOperation
<1>1. IInv => OneOperation
  <2>. SUFFICES ASSUME IInv, build.multiple, NEW p \in Proc, NEW q \in Proc, p # q,
                       NEW i \in Account, i \in Handles(p), i \in Handles(q)
                PROVE  FALSE
    BY DEF OneOperation, Handles
  <2>1. Owns(p, i) /\ Owns(q, i)
    BY DEF IInv, Types, Handles, Owns, Guarded
  <2>. QED
    BY <2>1 DEF IInv, Marks
<1>. QED
  BY <1>1, Inductive, PTL

\* No error path leaves a mark, an update lock, or an account that counts as
\* being deactivated or locked.
THEOREM NothingStays == Spec => []NothingLeftWhenIdle
<1>1. IInv => NothingLeftWhenIdle
  <2>. SUFFICES ASSUME IInv, \A p \in Proc : Idle(p)
                PROVE  /\ operating = {} /\ deactivatingAccounts = {} /\ lockingAccounts = {}
                       /\ \A i \in Account : updateLocks[i] = None
    BY DEF NothingLeftWhenIdle
  <2>1. \A p \in Proc : \A i : /\ ~Owns(p, i) /\ ~Holds(p, i)
                               /\ ~Deactivates(p, i) /\ ~Locking(p, i)
    BY DEF Idle, Owns, Holds, Deactivates, Locking
  <2>. QED
    BY <2>1 DEF IInv, Types, Marks, Busy
<1>. QED
  BY <1>1, Inductive, PTL

\* Builds with ENABLE_MULTIPLE_ACTIVE_ACCOUNTS.
Several == \A b \in Builds : b.multiple

\* Where several accounts may be active, the account on a display is an active
\* one at every moment.
THEOREM ShownAccountsAreActive == ASSUME Several PROVE Spec => []ForegroundIsActive
<1>1. IInv => ForegroundIsActive
  BY DEF IInv, Types, Several, ShownIsActive, ForegroundIsActive
<1>. QED
  BY <1>1, Inductive, PTL

\* Where several accounts may be active, a deactivation that reports success has
\* taken the account off the active list, the displays and the verified and
\* logged-in accounts, whoever activates, locks or authenticates meanwhile.
THEOREM DeactivatedStaysGone == ASSUME Several PROVE Spec => []DeactivatedIsGone
<1>1. IInv => DeactivatedIsGone
  <2>. SUFFICES ASSUME IInv, NEW p \in Proc, dpc[p] = "done"
                PROVE  /\ did[p] \notin Active \cup verifiedAccounts \cup loggedInAccounts
                       /\ \A d \in Display : foregroundAccountMap[d] # did[p]
    BY DEF DeactivatedIsGone
  <2>1. build.multiple
    BY DEF IInv, Types, Several
  <2>. QED
    BY <2>1 DEF IInv, Gone, Guarded
<1>. QED
  BY <1>1, Inductive, PTL

\* No thread of a build with several active accounts is asked to authenticate.
NobodyAuthenticates == \A b \in Builds : b.multiple => \A p \in Proc : "auth" \notin b.ops[p]

\* Then a verified account is decrypted once the calls are over.
THEOREM VerifiedStaysDecrypted == ASSUME NobodyAuthenticates PROVE Spec => []VerifiedIsDecrypted
<1>1. IInv => VerifiedIsDecrypted
  <2>. SUFFICES ASSUME IInv, build.multiple, \A p \in Proc : Idle(p)
                PROVE  verifiedAccounts \subseteq el2
    BY DEF VerifiedIsDecrypted
  <2>1. NoAuth
    BY DEF IInv, Types, NobodyAuthenticates, NoAuth
  <2>2. \A p \in Proc : \A i : ~Encrypts(p, i)
    BY DEF Idle, Encrypts
  <2>. QED
    BY <2>1, <2>2 DEF IInv, Decrypted
<1>. QED
  BY <1>1, Inductive, PTL
=============================================================================
