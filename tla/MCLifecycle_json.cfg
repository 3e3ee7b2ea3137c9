CONSTANTS
    h1 = h1
    h2 = h2
    h3 = h3
    Handler = {h1, h2}
    Environment <- Starts
    MaxQueries = 2
SPECIFICATION Spec
CHECK_DEADLOCK FALSE
INVARIANT DocumentedFormatsStart
