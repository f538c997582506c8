----------------------------- MODULE BlockFeed ------------------------------
(***************************************************************************)
(* What the subscription loop promises to the tasks that receive its       *)
(* events (light client, fat client, application client, web socket        *)
(* publisher): finalized blocks are announced one by one, without a gap;   *)
(* a block is announced a second time only after the node's stream itself  *)
(* went back.                                                              *)
(***************************************************************************)
EXTENDS Naturals, Sequences

CONSTANT
    StartHead,    \* the finalized head the loop started from
    MaxBlock      \* the last block of the chain considered

VARIABLE
    events,       \* numbers of the blocks announced so far, in order
    rewound       \* the stream of the node went back at some point

feedVars == <<events, rewound>>

Tip == IF events = <<>> THEN StartHead ELSE events[Len(events)]

FeedInit ==
    /\ events = <<>>
    /\ rewound = FALSE

Announce ==
    /\ \E n \in 0..MaxBlock :
          /\ n = Tip + 1 \/ (rewound /\ n <= Tip)
          /\ events' = Append(events, n)
    /\ UNCHANGED rewound

Rewind ==
    /\ rewound' = TRUE
    /\ UNCHANGED events

FeedNext == Announce \/ Rewind

FeedSpec == FeedInit /\ [][FeedNext]_feedVars
=============================================================================
