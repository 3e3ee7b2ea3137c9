CONSTANTS
    h1 = h1
    h2 = h2
    h3 = h3
    Handler = {h1, h2, h3}
    Environment <- Starts
    MaxQueries = 2
SPECIFICATION FairSpec
CHECK_DEADLOCK FALSE
INVARIANTS IInv ResourcesOutliveRequests StopIsGraceful NoProviderIsLeftRunning
    StopTimeoutIsReported
PROPERTIES StopEnds
