SPECIFICATION Spec
CONSTANTS
    p1 = p1
    p2 = p2
    p3 = p3
    c1 = c1
    c2 = c2
    c3 = c3
    None = None
    Empty = Empty
    Proc = {p1, p2, p3}
    Cred = {c1, c2, c3}
    Worlds <- MCWorlds
    Apart <- MCApart
SYMMETRY Symmetric
INVARIANTS DataReachable KeysAgreeWhenIdle CallsGoOn
