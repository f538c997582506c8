CONSTANTS
    None = None
    p1 = p1
    p2 = p2
    Peer = {p1, p2}
    Bootstraps <- MCBootstraps
    Relays = {p1, p2}
    Key <- MCKey
    MaxRecords = 2
    RecordTtl = 1
    Scenarios <- MCScenarios

SPECIFICATION FairSpec

INVARIANT NoLostReply
INVARIANT UploadsAccounted
 
PROPERTY CallsAnswered

\* The events of the environment are bounded.
CHECK_DEADLOCK FALSE
