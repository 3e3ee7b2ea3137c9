CONSTANTS
    h1 = h1
    h2 = h2
    h3 = h3
    k1 = k1
    k2 = k2
    s1 = s1
    BadJwt = BadJwt
    None = None
    Handler = {h1, h2}
    Key = {k1, k2}
    Session = {s1}
    TTL = 1
    MaxTime = 2
    RetryCount = 1
SYMMETRY Symmetric
SPECIFICATION Spec
CHECK_DEADLOCK FALSE
INVARIANT IInv
PROPERTIES AcceptedTokensAreRecent GoodTokensAreAccepted
