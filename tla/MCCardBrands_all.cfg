CONSTANTS
    r1 = r1  r2 = r2  r3 = r3  b1 = b1  b2 = b2  b3 = b3
    visa = visa  VISA = VISA  amex = amex
    Req = {r1, r2, r3}
    Id = {b1, b2, b3}
    Name <- MCName
    Key <- MCKey
    NoBrand = NoBrand
    EmptyName = EmptyName
    NilId = NilId
    Seed <- TwoBrands
    Work <- AllWork
    MaxConns = 2
SPECIFICATION FairSpec
INVARIANTS IInv UniqueNames NoDanglingReference ConnectionsAreReturned NobodyIsStuck
PROPERTIES RegistrySpec EveryRequestEnds
CHECK_DEADLOCK FALSE
