SPECIFICATION Spec
CONSTANTS
    p1 = p1
    p2 = p2
    l1 = l1
    l2 = l2
    l3 = l3
    s1 = s1
    s2 = s2
    s3 = s3
    k1 = k1
    None = None
    Process = {p1, p2}
    Uid <- MCUid
    Listener = {l1, l2, l3}
    Owner <- MCOwner
    Subscriber = {s1, s2, s3}
    Home <- MCHome
    States <- MCStates
    Shakes = {s1, s2, s3}
    Stop = {k1}
    Budgets <- MCBudgets
    Faults = {"ipc", "send"}
INVARIANTS SubscribedIsRecorded OkMeansDone
PROPERTIES SwitchServedInOrder
CHECK_DEADLOCK FALSE
