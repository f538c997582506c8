------------------------------- MODULE MCP2P -------------------------------
EXTENDS P2PEventLoop

CONSTANT p1, p2

MCKey == {<<1, 1>>, <<1, 2>>, <<2, 1>>}
MCBootstraps == <<p1>>

Quiet == [e \in Event |-> 0]
After(counts) == [fat |-> FALSE, rocks |-> FALSE, boot |-> "failed", left |-> counts]

MCScenarios ==
    {\* the bootstrap, with a dial of its node, a relay and a shutdown
     [After([Quiet EXCEPT !["dial"] = 1, !["nat"] = 1, !["timer"] = 1, !["stop"] = 1])
        EXCEPT !.boot = "listen"],
     \* the bootstrap, with what changes the routing table
     [After([Quiet EXCEPT !["identify"] = 1, !["mdns"] = 1, !["close"] = 1, !["query"] = 1])
        EXCEPT !.boot = "listen"],
     \* relays and dials of the same peers
     After([Quiet EXCEPT !["dial"] = 2, !["nat"] = 2, !["inbound"] = 1, !["close"] = 1]),
     After([Quiet EXCEPT !["dial"] = 1, !["nat"] = 1, !["inbound"] = 1, !["identify"] = 1, !["query"] = 1,
                         !["mdns"] = 1]),
     \* uploads, reads and pruning in a store that fills up
     After([Quiet EXCEPT !["put"] = 2, !["get"] = 1, !["block"] = 1, !["info"] = 1]),
     After([Quiet EXCEPT !["put"] = 1, !["record"] = 2, !["tick"] = 2, !["block"] = 1]),
     [After([Quiet EXCEPT !["put"] = 1, !["record"] = 1, !["tick"] = 2, !["block"] = 1])
        EXCEPT !.rocks = TRUE],
     \* a fat client
     [After([Quiet EXCEPT !["put"] = 3, !["nat"] = 1, !["record"] = 1, !["stop"] = 1]) EXCEPT !.fat = TRUE]}
=============================================================================
