------------------------------ MODULE MCWsApi ------------------------------
EXTENDS WsApi

MCSubscription == {[topics |-> Topics, fields |-> {"extrinsic"}]}
MCCaller == Conn \cup {Stream}

Quiet == [submitter |-> FALSE, flaps |-> 0, stops |-> 0, calls |-> 0, closes |-> 0, requests |-> 0,
          messages |-> 0, payloads |-> {}]

MCScenarios ==
    {\* two connections submit while nodes fail
     [Quiet EXCEPT !.submitter = TRUE, !.flaps = 1, !.requests = 2, !.payloads = {"data"}],
     \* a transaction signed elsewhere, and a shutdown
     [Quiet EXCEPT !.submitter = TRUE, !.flaps = 1, !.stops = 1, !.requests = 1, !.payloads = {"extrinsic"}],
     \* the subscription loop, with nodes that fail and recover
     [Quiet EXCEPT !.flaps = 3, !.stops = 1, !.calls = 2],
     \* requests and published messages of connections that replace each other
     [Quiet EXCEPT !.closes = 1, !.requests = 2, !.messages = 2,
                   !.payloads = {"binary", "data"}],
     [Quiet EXCEPT !.submitter = TRUE, !.closes = 1, !.requests = 2, !.messages = 0,
                   !.payloads = {"invalid", "version", "status", "empty"}],
     [Quiet EXCEPT !.closes = 1, !.messages = 3]}
=============================================================================
