SPECIFICATION FairSpec
CONSTANTS
    p1 = p1
    p2 = p2
    a0 = a0
    a1 = a1
    a2 = a2
    d0 = d0
    d1 = d1
    None = None
    Proc = {p1, p2}
    Main = a0
    Default = d0
    Account = {a0, a1, a2}
    Credentialed = {a1}
    Private = {}
    Display = {d0, d1}
    MaxLoggedIn = 2
    MaxListed = 3
    Builds <- MCBuilds
INVARIANTS ForegroundIsActive OneDisplay DeactivatedIsGone OneOperation VerifiedIsDecrypted NothingLeftWhenIdle
PROPERTIES CallsReturn
