CONSTANTS
    None = None
    Node = {n1, n2, n3}
    Matching = {n1, n2}
    Conn = {c1, c2}
    Stream = stream
    Caller <- MCCaller
    Id = {i1}
    Topics = {"data-verified"}
    Subscription <- MCSubscription
    Scenarios <- MCScenarios
    Retries = 1
    Capacity = 1

SPECIFICATION FairSpec

INVARIANT FailsOnlyAfterSwitch
INVARIANT AnsweredInOrder
INVARIANT PublishedToLatest
PROPERTY CallsGetNearer
PROPERTY RequestsAreHandled

\* Requests and messages are bounded.
CHECK_DEADLOCK FALSE
