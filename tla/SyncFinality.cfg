CONSTANTS
    SetIdWindow = 10
    FirstSetId = 20
    NoHash = NoHash
    None = None
    MaxBlock = 6
    AuthChange = {2, 3, 6}
    SetId <- MCSetId
    Authorities <- MCAuthorities
    Justification <- MCJustification
    MaxRestarts = 2
    MaxLag = 1
    MaxLead = 1

SPECIFICATION FairSpec

 
INVARIANT SyncAccepts
 
PROPERTY SyncEnds

\* The chain ends at MaxBlock, and a failed sync ends the process.
CHECK_DEADLOCK FALSE
