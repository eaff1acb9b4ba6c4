--------------------------- MODULE DomainBinding ---------------------------
(***************************************************************************)
(* The binding of OS accounts to domain accounts: BindDomainAccount in     *)
(* inner_domain_account_manager.cpp, the recovery of a binding that was    *)
(* interrupted, and the removal of accounts as far as bindings are         *)
(* concerned.                                                              *)
(*                                                                         *)
(* A binding is kept twice: in the record of the account and by the plugin *)
(* of the domain (a library that is loaded into the service).  A file in   *)
(* the directory of the account names the domain account while it is       *)
(* being bound.  The service may die between any two steps and starts      *)
(* again with the collection of removed accounts and of unfinished         *)
(* bindings, beside which calls are already served.                        *)
(*                                                                         *)
(* Accounts exist and are completed (their creation, also for a domain     *)
(* account, is modelled in OsAccountLifecycle).  Files are replaced by     *)
(* renaming, hence never half written.                                     *)
(***************************************************************************)
EXTENDS Naturals, FiniteSets, FiniteSetsExt

CONSTANTS
    Proc,       \* threads of callers
    Cleaner,    \* the thread of CleanGarbageOsAccountsAsync
    Account,    \* local ids, in the order of the account list
    Domain,     \* domain accounts
    None,       \* nothing
    Faults,     \* which steps may report an error
    MaxCrashes  \* how often the service dies

ASSUME DomainAssumption ==
    /\ Cleaner \notin Proc
    /\ Account \subseteq Nat \ {0} /\ IsFiniteSet(Account)
    /\ None \notin Domain \cup Proc \cup {Cleaner}
    /\ Faults \subseteq {"flag", "read", "scan", "record", "bind", "unbind", "remove"}
    /\ MaxCrashes \in Nat

VARIABLES
    record,     \* account_info.json of every account
    flag,       \* the file of the unfinished binding: a domain account
    plugin,     \* the bindings that the plugin keeps
    unbinds,    \* OnAccountUnBound in detached threads
    bindMutex,  \* owner of createOrBindDomainAccountMutex_
    operating,  \* operatingId_, the marked accounts
    pc, job,    \* where a thread is, and its local variables
    crashes     \* how often the service died

files == <<record, flag>>
vars == <<record, flag, plugin, unbinds, bindMutex, operating, pc, job, crashes>>

Thread == Proc \cup {Cleaner}

\* A record, as far as bindings go: whether the account exists, is to be
\* removed, and the domain account it is bound to.
Unbound == [exists |-> TRUE, toBeRemoved |-> FALSE, domain |-> None]
Removed == [exists |-> FALSE, toBeRemoved |-> FALSE, domain |-> None]

\* Local variables: the call's account, domain account and selectInfo; the
\* account that is recovered or removed, with the copy of its record and the
\* domain account of its file; who goes on afterwards and with which result;
\* accounts still to be visited, those found bound, and isBound.
NoJob ==
    [acct |-> 0, domain |-> None, select |-> Removed, cur |-> 0,
     snap |-> Removed, stored |-> None, back |-> "none", ok |-> TRUE,
     todo |-> {}, found |-> {}, isBound |-> FALSE]

Init ==
    /\ record = [a \in Account |-> Unbound]
    /\ flag = [a \in Account |-> None]
    /\ plugin = {} /\ unbinds = {}
    /\ bindMutex = None /\ operating = {}
    /\ pc = [t \in Thread |-> "idle"]
    /\ job = [t \in Thread |-> NoJob]
    /\ crashes = 0

GetOsAccountIdList == {a \in Account : record[a].exists}

Go(t, l) == pc' = [pc EXCEPT ![t] = l]
GoWith(t, l, j) == Go(t, l) /\ job' = [job EXCEPT ![t] = j]

----------------------------------------------------------------------------
(***************************************************************************)
(* CheckAndRecoverBindDomainForUncomplete, for job.cur with the copy of    *)
(* its record that the caller has read.                                    *)
(***************************************************************************)

\* Where the three callers go on.  BindDomainAccount looks at the other
\* accounts if its own one is free; the scan of GetOsAccountsByDomainInfo
\* takes an account that is bound to the domain account; every error ends
\* the bind.
Recovered(t, ok) ==
    LET j == job[t]
        over == [j EXCEPT !.cur = 0, !.snap = Removed, !.stored = None,
                          !.back = "none"] IN
    CASE j.back = "self" /\ ok /\ j.select.domain = None ->
            GoWith(t, "scan", [over EXCEPT !.todo = GetOsAccountIdList])
      [] j.back = "scan" /\ ok ->
            GoWith(t, "scan",
                   [over EXCEPT !.found = IF j.snap.domain = j.domain
                                          THEN @ \cup {<<j.cur, j.snap>>} ELSE @])
      [] j.back = "clean" ->
            GoWith(t, "cleanUnmark", [over EXCEPT !.cur = j.cur])
      [] OTHER -> GoWith(t, "unmark", [NoJob EXCEPT !.acct = j.acct])

\* Mutant of CheckAndRecoverBindDomainForUncomplete: the record is not looked at.
CheckAndRecoverAlwaysUnbinds(t) ==
    /\ pc[t] = "flag"
    /\ LET j == job[t]  x == flag[j.cur] IN
       IF x = None THEN Recovered(t, TRUE)
       ELSE GoWith(t, "recUnbind", [j EXCEPT !.stored = x])
    /\ UNCHANGED <<files, plugin, unbinds, bindMutex, operating, crashes>>

\* GetDomainBoundFlag: no file, nothing to do; one that cannot be read is an
\* error.
CheckAndRecoverBindDomainForUncomplete(t) ==
    /\ pc[t] = "flag"
    /\ \/ LET j == job[t]  x == flag[j.cur] IN
          IF x = None THEN Recovered(t, TRUE)
          ELSE GoWith(t, IF j.snap.domain # None THEN "recDelete" ELSE "recUnbind",
                      [j EXCEPT !.stored = x])
       \/ "read" \in Faults /\ Recovered(t, FALSE)
    /\ UNCHANGED <<files, plugin, unbinds, bindMutex, operating, crashes>>

\* RecoverBindDomainForUncomplete: the plugin forgets the binding, or does not
\* know of it (ERR_JS_ACCOUNT_NOT_FOUND), or fails ...
RecoverUnbind(t) ==
    /\ pc[t] = "recUnbind"
    /\ \/ /\ plugin' = plugin \ {<<job[t].stored, job[t].cur>>}
          /\ Go(t, "recDelete") /\ UNCHANGED job
       \/ /\ "unbind" \in Faults
          /\ Recovered(t, FALSE) /\ UNCHANGED plugin
    /\ UNCHANGED <<files, unbinds, bindMutex, operating, crashes>>

\* ... and the file is deleted; that it is not counts as an error only when
\* the record is bound.
RecoverDelete(t) ==
    /\ pc[t] = "recDelete"
    /\ \/ /\ flag' = [flag EXCEPT ![job[t].cur] = None]
          /\ Recovered(t, TRUE)
       \/ /\ "flag" \in Faults
          /\ Recovered(t, job[t].snap.domain = None)
          /\ UNCHANGED flag
    /\ UNCHANGED <<record, plugin, unbinds, bindMutex, operating, crashes>>

----------------------------------------------------------------------------
(***************************************************************************)
(* BindDomainAccount.                                                      *)
(***************************************************************************)

BindLock(t) == bindMutex = None /\ bindMutex' = t
BindReturn(t) == bindMutex' = None /\ GoWith(t, "idle", NoJob)

\* A thread that waits for the mutex is one that has not called yet.
BindDomainAccount(t, a, x) ==
    /\ pc[t] = "idle"
    /\ BindLock(t)
    /\ GoWith(t, "select", [NoJob EXCEPT !.acct = a, !.domain = x])
    /\ UNCHANGED <<files, plugin, unbinds, operating, crashes>>

\* The record is read before the account is marked.
BindSelect(t) ==
    /\ pc[t] = "select"
    /\ LET r == record[job[t].acct] IN
       IF r.exists
       THEN GoWith(t, "mark", [job[t] EXCEPT !.select = r]) /\ UNCHANGED bindMutex
       ELSE BindReturn(t)
    /\ UNCHANGED <<files, plugin, unbinds, operating, crashes>>

\* CheckAndAddLocalIdOperating and CheckOsAccountCanBindDomainAccount.
BindMark(t) ==
    LET j == job[t] IN
    /\ pc[t] = "mark"
    /\ IF j.acct \in operating
       THEN BindReturn(t) /\ UNCHANGED operating
       ELSE /\ operating' = operating \cup {j.acct}
            /\ UNCHANGED bindMutex
            /\ GoWith(t, IF j.select.toBeRemoved THEN "unmark" ELSE "flag",
                      [j EXCEPT !.cur = j.acct, !.snap = j.select, !.back = "self"])
    /\ UNCHANGED <<files, plugin, unbinds, crashes>>

\* Mutant of GetOsAccountsByDomainInfo: unfinished bindings are not recovered.
GetOsAccountsByDomainInfoOnly(t) ==
    LET j == job[t]  a == Min(j.todo) IN
    /\ pc[t] = "scan"
    /\ IF j.todo = {} THEN Go(t, "filter") /\ UNCHANGED job
       ELSE GoWith(t, "scan",
                   [j EXCEPT !.todo = @ \ {a},
                             !.found = IF record[a].domain = j.domain
                                       THEN @ \cup {<<a, record[a]>>} ELSE @])
    /\ UNCHANGED <<files, plugin, unbinds, bindMutex, operating, crashes>>

\* GetOsAccountsByDomainInfo: every account is recovered, marked or not; one
\* that is gone is passed over, and so is one whose record cannot be read: the
\* result of GetRealOsAccountInfoById is not looked at.
GetOsAccountsByDomainInfo(t) ==
    LET j == job[t]  a == Min(j.todo) IN
    /\ pc[t] = "scan"
    /\ IF j.todo = {} THEN Go(t, "filter") /\ UNCHANGED job
       ELSE \/ /\ ~record[a].exists \/ "scan" \in Faults
               /\ GoWith(t, "scan", [j EXCEPT !.todo = @ \ {a}])
            \/ /\ record[a].exists
               /\ GoWith(t, "flag", [j EXCEPT !.todo = @ \ {a}, !.cur = a,
                                              !.snap = record[a], !.back = "scan"])
    /\ UNCHANGED <<files, plugin, unbinds, bindMutex, operating, crashes>>

\* CheckDomainAccountBound: of the accounts found, those to be removed are
\* removed for good; one that is busy, or stays, is a binding.
CheckDomainAccountBound(t) ==
    LET j == job[t]  f == CHOOSE f \in j.found : \A g \in j.found : f[1] =< g[1] IN
    /\ pc[t] = "filter"
    /\ IF j.found = {}
       THEN /\ Go(t, IF j.isBound THEN "unmark" ELSE "work")
            /\ UNCHANGED <<operating, job>>
       ELSE IF ~f[2].toBeRemoved \/ f[1] \in operating
       THEN /\ GoWith(t, "filter", [j EXCEPT !.found = @ \ {f}, !.isBound = TRUE])
            /\ UNCHANGED operating
       ELSE /\ operating' = operating \cup {f[1]}
            /\ GoWith(t, "rmPrepare", [j EXCEPT !.found = @ \ {f}, !.cur = f[1],
                                                !.snap = f[2], !.back = "filter"])
    /\ UNCHANGED <<files, plugin, unbinds, bindMutex, crashes>>

\* BindDomainAccountWork.  The plugin knows the domain account (or not) and
\* the file is written; after an error of the write it is deleted.
BindWorkFlag(t) ==
    /\ pc[t] = "work"
    /\ \/ /\ flag' = [flag EXCEPT ![job[t].acct] = job[t].domain]
          /\ Go(t, "bind")
       \/ /\ "bind" \in Faults \* GetDomainAccountInfoSync
          /\ Go(t, "unmark") /\ UNCHANGED flag
       \/ /\ "flag" \in Faults
          /\ flag' = [flag EXCEPT ![job[t].acct] = None]
          /\ Go(t, "unmark")
    /\ UNCHANGED <<record, plugin, unbinds, bindMutex, operating, job, crashes>>

\* BindDomainAccountSync waits for the plugin; a plugin that fails has not
\* bound the account.
BindDomainAccountSync(t) ==
    /\ pc[t] = "bind"
    /\ \/ /\ plugin' = plugin \cup {<<job[t].domain, job[t].acct>>}
          /\ Go(t, "write")
       \/ "bind" \in Faults /\ Go(t, "delFlag") /\ UNCHANGED plugin
    /\ UNCHANGED <<files, unbinds, bindMutex, operating, job, crashes>>

\* UpdateOsAccount writes the record that was selected; without success the
\* plugin is asked to forget the binding.
BindWorkWrite(t) ==
    LET j == job[t] IN
    /\ pc[t] = "write"
    /\ \/ /\ record[j.acct].exists
          /\ record' = [record EXCEPT ![j.acct] = [j.select EXCEPT !.domain = j.domain]]
          /\ Go(t, "delFlag") /\ UNCHANGED job
       \/ /\ ~record[j.acct].exists \/ "record" \in Faults
          /\ GoWith(t, "recUnbind", [j EXCEPT !.cur = j.acct, !.snap = j.select,
                                              !.stored = j.domain, !.back = "work"])
          /\ UNCHANGED record
    /\ UNCHANGED <<flag, plugin, unbinds, bindMutex, operating, crashes>>

\* The file is deleted, bound or not; an error is ignored.
BindWorkDeleteFlag(t) ==
    /\ pc[t] = "delFlag"
    /\ \/ flag' = [flag EXCEPT ![job[t].acct] = None]
       \/ "flag" \in Faults /\ UNCHANGED flag
    /\ Go(t, "unmark")
    /\ UNCHANGED <<record, plugin, unbinds, bindMutex, operating, job, crashes>>

BindUnmark(t) ==
    /\ pc[t] = "unmark"
    /\ operating' = operating \ {job[t].acct}
    /\ BindReturn(t)
    /\ UNCHANGED <<files, plugin, unbinds, crashes>>

----------------------------------------------------------------------------
(***************************************************************************)
(* Removal: RemoveOsAccount, the collector, and CheckDomainAccountBound.   *)
(***************************************************************************)

RemoveOsAccount(t, a) ==
    /\ pc[t] = "idle"
    /\ a \notin operating
    /\ operating' = operating \cup {a}
    /\ GoWith(t, "rmRead", [NoJob EXCEPT !.cur = a, !.back = "remove"])
    /\ UNCHANGED <<files, plugin, unbinds, bindMutex, crashes>>

RemoveRead(t) ==
    /\ pc[t] = "rmRead"
    /\ LET r == record[job[t].cur] IN
       GoWith(t, IF r.exists THEN "rmFlag" ELSE "rmUnmark",
              [job[t] EXCEPT !.snap = [r EXCEPT !.toBeRemoved = TRUE]])
    /\ UNCHANGED <<files, plugin, unbinds, bindMutex, operating, crashes>>

\* "set remove flag first"
RemoveSetFlag(t) ==
    /\ pc[t] = "rmFlag"
    /\ \/ /\ record' = [record EXCEPT ![job[t].cur] = job[t].snap]
          /\ Go(t, "rmPrepare")
       \/ "record" \in Faults /\ Go(t, "rmUnmark") /\ UNCHANGED record
    /\ UNCHANGED <<flag, plugin, unbinds, bindMutex, operating, job, crashes>>

\* PrepareRemoveOsAccount: the plugin is told by a thread of its own.  The
\* services that are told before and after may fail.
PrepareRemoveOsAccount(t) ==
    LET j == job[t] IN
    /\ pc[t] = "rmPrepare"
    /\ \/ /\ unbinds' = IF j.snap.domain = None THEN unbinds
                        ELSE unbinds \cup {<<j.snap.domain, j.cur>>}
          /\ Go(t, "rmDelete") /\ UNCHANGED job
       \/ /\ "remove" \in Faults
          /\ GoWith(t, "rmUnmark", [j EXCEPT !.ok = FALSE]) /\ UNCHANGED unbinds
    /\ UNCHANGED <<files, plugin, bindMutex, operating, crashes>>

\* DelOsAccount: the directory, and the account in the list.  The deletion
\* may fail, and so may what follows it.
DelOsAccount(t) ==
    LET j == job[t] IN
    /\ pc[t] = "rmDelete"
    /\ \/ /\ record' = [record EXCEPT ![j.cur] = Removed]
          /\ flag' = [flag EXCEPT ![j.cur] = None]
          /\ \E ok \in {TRUE, "remove" \notin Faults} :
                GoWith(t, "rmUnmark", [j EXCEPT !.ok = ok])
       \/ /\ "remove" \in Faults
          /\ GoWith(t, "rmUnmark", [j EXCEPT !.ok = FALSE]) /\ UNCHANGED files
    /\ UNCHANGED <<plugin, unbinds, bindMutex, operating, crashes>>

\* RemoveLocalIdToOperating; the caller goes on.
RemoveUnmark(t) ==
    LET j == job[t] IN
    /\ pc[t] = "rmUnmark"
    /\ operating' = operating \ {j.cur}
    /\ CASE j.back = "remove" -> GoWith(t, "idle", NoJob)
         [] j.back = "filter" ->
               GoWith(t, "filter", [j EXCEPT !.isBound = @ \/ ~j.ok, !.ok = TRUE,
                                             !.cur = 0, !.snap = Removed, !.back = "none"])
         [] OTHER -> GoWith(t, "garbage", [NoJob EXCEPT !.todo = j.todo])
    /\ UNCHANGED <<files, plugin, unbinds, bindMutex, crashes>>

\* StartPluginOnAccountBindOrUnBind in the detached thread; nobody waits for
\* the result.
StartPluginOnAccountUnBound(b) ==
    /\ b \in unbinds
    /\ unbinds' = unbinds \ {b}
    /\ \/ plugin' = plugin \ {b}
       \/ "unbind" \in Faults /\ UNCHANGED plugin
    /\ UNCHANGED <<files, bindMutex, operating, pc, job, crashes>>

----------------------------------------------------------------------------
(***************************************************************************)
(* The service dies and starts again: CleanGarbageOsAccountsAsync.         *)
(***************************************************************************)

Restart ==
    /\ crashes < MaxCrashes
    /\ crashes' = crashes + 1
    /\ unbinds' = {} /\ bindMutex' = None /\ operating' = {}
    /\ pc' = [t \in Thread |-> IF t = Cleaner THEN "garbage" ELSE "idle"]
    /\ job' = [t \in Thread |->
                 IF t = Cleaner THEN [NoJob EXCEPT !.todo = GetOsAccountIdList] ELSE NoJob]
    /\ UNCHANGED <<files, plugin>>

\* CleanGarbageOsAccounts marks an account ...
CleanGarbageMark(t) ==
    LET j == job[t]  a == Min(j.todo) IN
    /\ pc[t] = "garbage"
    /\ IF j.todo = {}
       THEN /\ GoWith(t, "clean", [NoJob EXCEPT !.todo = GetOsAccountIdList])
            /\ UNCHANGED operating
       ELSE IF a \in operating
       THEN GoWith(t, "garbage", [j EXCEPT !.todo = @ \ {a}]) /\ UNCHANGED operating
       ELSE /\ operating' = operating \cup {a}
            /\ GoWith(t, "garbageRead", [j EXCEPT !.todo = @ \ {a}, !.cur = a,
                                                  !.back = "garbage"])
    /\ UNCHANGED <<files, plugin, unbinds, bindMutex, crashes>>

\* ... and removes it if it was to be removed.
CleanGarbageOsAccounts(t) ==
    /\ pc[t] = "garbageRead"
    /\ LET r == record[job[t].cur] IN
       GoWith(t, IF r.toBeRemoved THEN "rmPrepare" ELSE "rmUnmark",
              [job[t] EXCEPT !.snap = IF r.toBeRemoved THEN r ELSE @])
    /\ UNCHANGED <<files, plugin, unbinds, bindMutex, operating, crashes>>

\* CleanUnbindDomainAccount marks an account ...
CleanUnbindMark(t) ==
    LET j == job[t]  a == Min(j.todo) IN
    /\ pc[t] = "clean"
    /\ IF j.todo = {} THEN GoWith(t, "idle", NoJob) /\ UNCHANGED operating
       ELSE IF a \in operating
       THEN GoWith(t, "clean", [j EXCEPT !.todo = @ \ {a}]) /\ UNCHANGED operating
       ELSE /\ operating' = operating \cup {a}
            /\ GoWith(t, "cleanRead", [j EXCEPT !.todo = @ \ {a}, !.cur = a,
                                                !.back = "clean"])
    /\ UNCHANGED <<files, plugin, unbinds, bindMutex, crashes>>

\* ... and recovers it.
CleanUnbindDomainAccount(t) ==
    /\ pc[t] = "cleanRead"
    /\ LET r == record[job[t].cur] IN
       GoWith(t, IF r.exists THEN "flag" ELSE "cleanUnmark", [job[t] EXCEPT !.snap = r])
    /\ UNCHANGED <<files, plugin, unbinds, bindMutex, operating, crashes>>

CleanUnbindUnmark(t) ==
    /\ pc[t] = "cleanUnmark"
    /\ operating' = operating \ {job[t].cur}
    /\ Go(t, "clean")
    /\ UNCHANGED <<files, plugin, unbinds, bindMutex, job, crashes>>

----------------------------------------------------------------------------
BindStep(t) ==
    \/ BindSelect(t) \/ BindMark(t)
    \/ GetOsAccountsByDomainInfo(t) \/ CheckDomainAccountBound(t)
    \/ BindWorkFlag(t) \/ BindDomainAccountSync(t) \/ BindWorkWrite(t)
    \/ BindWorkDeleteFlag(t) \/ BindUnmark(t)

RecoverStep(t) ==
    \/ CheckAndRecoverBindDomainForUncomplete(t)
    \/ RecoverUnbind(t) \/ RecoverDelete(t)

RemoveStep(t) ==
    \/ RemoveRead(t) \/ RemoveSetFlag(t) \/ PrepareRemoveOsAccount(t)
    \/ DelOsAccount(t) \/ RemoveUnmark(t)

CleanStep(t) ==
    \/ CleanGarbageMark(t) \/ CleanGarbageOsAccounts(t)
    \/ CleanUnbindMark(t) \/ CleanUnbindDomainAccount(t) \/ CleanUnbindUnmark(t)

Step(t) == BindStep(t) \/ RecoverStep(t) \/ RemoveStep(t) \/ CleanStep(t)

Call(t, a) == (\E x \in Domain : BindDomainAccount(t, a, x)) \/ RemoveOsAccount(t, a)

Next ==
    \/ \E t \in Thread : Step(t)
    \/ \E t \in Proc, a \in Account : Call(t, a)
    \/ \E b \in unbinds : StartPluginOnAccountUnBound(b)
    \/ Restart

Spec == Init /\ [][Next]_vars

----------------------------------------------------------------------------
Live(a) == record[a].exists /\ ~record[a].toBeRemoved

\* A live account that the plugin has bound says so in its record or in the
\* file of the unfinished binding, from which it is undone; and one that is
\* bound by its record is bound by the plugin: at every moment, with crashes
\* and errors at every step, beside recoveries of other threads.
BindingsAgree ==
    \A a \in Account, x \in Domain :
        Live(a) =>
            /\ <<x, a>> \in plugin => record[a].domain = x \/ flag[a] = x
            /\ record[a].domain = x => <<x, a>> \in plugin

\* A domain account is bound to one live account at most, by a record or by
\* the plugin: BindDomainAccount looks at every account, and for unfinished
\* bindings, long before it binds.
OneAccountPerDomain ==
    \A x \in Domain, a, b \in Account :
        /\ Live(a) /\ (record[a].domain = x \/ <<x, a>> \in plugin)
        /\ Live(b) /\ (record[b].domain = x \/ <<x, b>> \in plugin)
        => a = b

=============================================================================
