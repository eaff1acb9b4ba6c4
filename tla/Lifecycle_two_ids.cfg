SPECIFICATION Spec
CONSTANTS
    p1 = p1
    p2 = p2
    None = None
    Proc <- MCProc
    MaxId = 2
    MaxOsAccountNum = 3
    Ops = {"create", "remove", "clean"}
    Faults = {"io", "name", "cons", "tee", "teeFull", "storage", "bms", "stop"}
    IdReuse = FALSE
    MaxCrash = 1
SYMMETRY ProcSymmetry
INVARIANTS NoOrphanData ExclusiveOperation LiveHasData RemoveFlagKept PrivateQuota
