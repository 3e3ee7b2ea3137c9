CONSTANTS
    Row <- MCRow
    Filter <- MCFilter
    MaxPageSize = 3
    Modulus = 32
    MaxChanges = 3
SPECIFICATION FairSpec
INVARIANTS IInv QuietWalkIsExact CreatesSkipNothing DeletesRepeatNothing
PROPERTIES WalkEnds
CHECK_DEADLOCK FALSE
