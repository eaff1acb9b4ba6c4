SPECIFICATION Spec
CONSTANTS
    t1 = t1
    t2 = t2
    appA = appA
    appB = appB
    appC = appC
    a1 = a1
    a2 = a2
    b1 = b1
    c1 = c1
    None = None
    Thread = {t1, t2}
    App = {appA, appB, appC}
    Account = {a1, a2, b1, c1}
    Existing = {b1}
    Owner <- MCOwner
    Calls <- MCCalls
    Data = {0, 1}
    MaxAccounts = 1
    CacheMax = 1
    Faults = {"commit", "acl"}
    MaxCrashes = 1
SYMMETRY Symmetric
INVARIANTS AccessAgrees CacheFresh AccountQuota
