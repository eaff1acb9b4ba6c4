SPECIFICATION FairSpec
CONSTANTS
    p1 = p1
    p2 = p2
    None = None
    Proc <- MCProc
    MaxId = 2
    MaxOsAccountNum = 2
    Ops = {"create", "clean"}
    Faults = {}
    IdReuse = FALSE
    MaxCrash = 2
INVARIANTS AccountQuota
PROPERTIES GarbageCollected CallsReturn
