SPECIFICATION Spec
CONSTANTS
    t1 = t1
    t2 = t2
    a1 = a1
    a2 = a2
    u1 = u1
    None = None
    Thread = {t1, t2}
    Account = {a1, a2}
    App = {u1}
    MaxId = 2
    MaxCount = 2
    Faults = {"ctx", "parse", "save", "delete"}
    MaxCrashes = 1
    Operations = {"create", "delete", "switch", "login", "logout", "package"}
SYMMETRY Symmetric
INVARIANTS ContextConsistent
PROPERTIES BindingRefined
