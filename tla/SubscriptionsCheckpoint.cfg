CONSTANTS
    SetIdWindow = 10
    FirstSetId = 20
    NoHash = NoHash
    None = None
    MaxBlock = 5
    StartHead = 1
    AuthChange = {2, 4}
    SetId <- MCSetId
    Authorities <- MCAuthorities
    Justification <- MCJustification
    MaxResubscriptions = 0
    MaxMissed = 2

SPECIFICATION Spec

INVARIANT CheckpointResumes

\* The task ends with a panic or an error, and the chain ends at MaxBlock.
CHECK_DEADLOCK FALSE
