SPECIFICATION Spec
CONSTANTS
    p1 = p1
    p2 = p2
    x1 = x1
    x2 = x2
    None = None
    Cleaner = Cleaner
    Proc = {p1, p2}
    Account = {1, 2}
    Domain = {x1, x2}
    Faults = {"flag", "read", "record", "bind", "unbind", "remove"}
    MaxCrashes = 1
SYMMETRY DomainSymmetry
INVARIANTS BindingsAgree OneAccountPerDomain
