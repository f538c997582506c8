CONSTANTS
    None = None
    MaxBlock = 3
    Chains <- MCChains
    Heads = {1, 2}
    Options <- MCOptions
    RpcCapacity = 1
    BlockCapacity = 1
    MaxEvents = 2
    MaxRestarts = 1

SPECIFICATION FairSpec

INVARIANT LatestIsAchieved
INVARIANT FinishedHasData
 
 
PROPERTY AnnouncedIsProcessed
PROPERTY SyncCompletes

\* Announcements are bounded, and the tasks may all have returned.
CHECK_DEADLOCK FALSE
