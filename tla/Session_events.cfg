SPECIFICATION SessionSpec
CONSTANTS
    p1 = p1
    q1 = q1
    q2 = q2
    Nobody = Nobody
    Plain = {p1}
    Select = {q1, q2}
    Candidates <- MCCandidates
    MaxSessions = 3
    Answers = {"yes9"}
    SessionFaults = {"open", "connect", "ask"}
INVARIANTS SessionTypeOK SelectionAnsweredOnce ConnectedIsReleased LabelledIsConfirmed ClosedWhenIdle
CHECK_DEADLOCK FALSE
