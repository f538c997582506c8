CONSTANTS
    None = None
    Reason = {stop}
    Main = Main
    P2p = P2p
    Sub = Sub
    Worker = {w1}
SPECIFICATION NodeFairSpec
INVARIANT ExitAfterLoop
PROPERTY ShutdownEnds
CHECK_DEADLOCK FALSE
