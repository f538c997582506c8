CONSTANTS
    SetIdWindow = 10
    FirstSetId = 20
    NoHash = NoHash
    None = None
    MaxBlock = 5
    StartHead = 1
    AuthChange = {2, 4}
    SetId <- MCSetId
    Authorities <- MCAuthorities
    Justification <- MCJustification
    MaxResubscriptions = 1
    MaxMissed = 2

SPECIFICATION FairSpec

INVARIANT NothingWithheld
INVARIANT FailsOnlyOnLostSetChange
INVARIANT AnnouncedAreFinal
INVARIANT HeaderVerifiedIsTip
INVARIANT CheckpointSetNotStale
PROPERTY FeedRefinement
PROPERTY CheckpointAdvances
PROPERTY JustifiedIsAnnounced

\* The task ends with a panic or an error, and the chain ends at MaxBlock.
CHECK_DEADLOCK FALSE
