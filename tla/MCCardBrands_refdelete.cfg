CONSTANTS
    r1 = r1  r2 = r2  r3 = r3  b1 = b1  b2 = b2  b3 = b3
    visa = visa  VISA = VISA  amex = amex
    Req = {r1, r2}
    Id = {b1, b2, b3}
    Name <- MCName
    Key <- MCKey
    NoBrand = NoBrand
    EmptyName = EmptyName
    NilId = NilId
    Seed <- TwoBrands
    Work <- AllWork
    MaxConns = 2
SPECIFICATION Spec
SYMMETRY ReqSymmetry
INVARIANTS ReferencedDeleteConflicts
CHECK_DEADLOCK FALSE
