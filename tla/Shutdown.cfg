CONSTANTS
    None = None
    Reason = {signal, failure}
    Token = {d1, d2}
    Task = {t1, t2}
    Waiter = {main}
    MaxClones = 2
SPECIFICATION FairSpec
INVARIANTS TokensCounted NoLostWakeup DropTriggers
PROPERTIES LifecycleRefinement CancelReaches CompletionIsSeen
