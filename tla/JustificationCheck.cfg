CONSTANTS
    SetIdWindow = 10
    NoHash = NoHash
    v1 = v1
    v2 = v2
    v3 = v3
    o1 = o1
    Member = {v1, v2, v3}
    Outsider = {o1}
    ExpectedSetId = {9, 10, 19, 20}
    VoteSetId = {9, 19, 20}
    Hash = {1, 2, 3, 4}
    Parent <- MCParent
    MaxPrecommits = 3

SYMMETRY Signers

SPECIFICATION CheckSpec

INVARIANT AncestryIsReachability
 

\* The justification is complete at some point.
CHECK_DEADLOCK FALSE
