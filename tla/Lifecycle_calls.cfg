SPECIFICATION Spec
CONSTANTS
    p1 = p1
    p2 = p2
    None = None
    Proc <- MCProc
    MaxId = 1
    MaxOsAccountNum = 2
    Ops = {"createWithId", "bind", "setInfo", "activate", "clearToBeRemoved"}
    Faults = {"bms", "lost"}
    IdReuse = TRUE
    MaxCrash = 0
SYMMETRY ProcSymmetry
INVARIANTS TypeOK NothingHeldWhenIdle
