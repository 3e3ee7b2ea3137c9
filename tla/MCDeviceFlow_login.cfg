CONSTANTS
    r1 = r1
    r2 = r2
    r3 = r3
    Request = {r1, r2, r3}
    MaxGen = 3
SPECIFICATION FairSpec
INVARIANTS IInv DefiniteAnswersAreTrue StoredTokenIsGood
PROPERTIES PollingEnds
