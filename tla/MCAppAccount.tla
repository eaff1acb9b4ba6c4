----------------------------- MODULE MCAppAccount -----------------------------
EXTENDS AppAccount, TLC

CONSTANTS t1, t2, appA, appB, appC, a1, a2, b1, c1

MCOwner == [a \in Account |-> CASE a \in {a1, a2} -> appA
                                [] a = b1 -> appB
                                [] OTHER -> appC]

Call(ops, a, x) == {[op |-> o, acct |-> a, app |-> x] : o \in ops}

\* App A does everything with its accounts, app B is uninstalled, and an
\* authenticator adds the account of app C.
MCCalls ==
    Call({"create", "delete", "enable", "disable", "getdata", "setdata",
          "settoken"}, a1, appB)
    \cup Call({"create", "delete", "getdata"}, a2, appB)
    \cup Call({"deltoken"}, a1, appA)
    \cup Call({"enable", "disable", "getdata", "uninstall"}, b1, appA)
    \cup Call({"implicit", "setinfo"}, c1, appA)

\* The theorems of AppAccount_proof apply to these calls and faults.
ASSUME CallsAreGuarded == AccessGuarded /\ CacheGuarded /\ QuotaGuarded

Symmetric == Permutations(Thread)
=============================================================================
