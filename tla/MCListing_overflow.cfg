CONSTANTS
    Row <- MCRow
    Filter <- MCFilter
    MaxPageSize = 3
    Modulus = 8
    MaxChanges = 3
SPECIFICATION Spec
INVARIANTS PagesBehindTheEndAreEmpty
CHECK_DEADLOCK FALSE
