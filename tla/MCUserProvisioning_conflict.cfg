CONSTANTS
    r1 = r1  r2 = r2  l1 = l1  l2 = l2  e1 = e1
    u1 = u1  u2 = u2  n1 = n1
    Req = {r1, r2}
    LogtoId = {l1}
    Email = {e1}
    Username <- MCUsername
    Name <- MCName
    NoUsername = NoUsername
    Slug <- MCSlug
    Body <- RivalSetups
    EmptySub = EmptySub
    None = None
    MaxCrashes = 1
SPECIFICATION Spec
INVARIANTS ConflictHasNoEffect
CHECK_DEADLOCK FALSE
