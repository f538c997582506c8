----------------------------- MODULE ClientState ----------------------------
(***************************************************************************)
(* The State that the client tasks share behind a mutex (src/types.rs),    *)
(* the database they write, and what the HTTP API answers from the two     *)
(* (src/api/v1/handlers.rs, src/api/v2/handlers.rs).                       *)
(***************************************************************************)
EXTENDS Naturals, Sequences

CONSTANT
    None,        \* Rust's Option::None
    MaxBlock     \* bound: the last block the nodes finalize

Block == 1..MaxBlock

BlockRange == [first : Block, last : Block]

BlockStatus ==
    {"unavailable", "pending", "verifying-header", "verifying-confidence", "verifying-data",
     "incomplete", "finished"}

ASSUME StateAssumption ==
    /\ MaxBlock \in Nat \ {0}
    /\ None \notin Block /\ None \notin BlockRange /\ None \notin BlockStatus /\ None \notin BOOLEAN

VARIABLE
    opt,      \* the configuration: app (app_id is set), fat (a partition is set),
              \*   start (sync_start_block)
    chain,    \* of each block: the app lookup in its header and the dimensions
    state,    \* State
    db        \* the blocks with a Key::BlockHeader, Key::VerifiedCellCount, Key::AppData

Lookup == {"empty", "other", "app"}       \* size 0; cells, but none or some of this app
Dims == {"invalid", "narrow", "wide"}     \* a zero dimension; at most two columns; more
-----------------------------------------------------------------------------
(* utils.rs: extract_kate and Dimensions::new on a header *)

extract_kate(n) == chain[n].lookup # "empty"
HasDimensions(n) == chain[n].dims # "invalid"
ColumnsSuffice(n) == chain[n].dims = "wide"

\* BlockVerified::try_from and the extension it builds
TryFromFails(n) == extract_kate(n) /\ ~HasDimensions(n)
Extension(n) == extract_kate(n) /\ HasDimensions(n)

(* types.rs: OptionBlockRange *)

MutRangeRestarted(range, n) == [first |-> n, last |-> n]
RangeSet(range, n) ==
    IF range = None THEN [first |-> n, last |-> n] ELSE [range EXCEPT !.last = n]

RangeContains(range, n) == range # None /\ range.first <= n /\ n <= range.last

\* State::default
InitialState ==
    [synced |-> None, latest |-> 0, header_verified |-> None, confidence_achieved |-> None,
     data_verified |-> None, sync_latest |-> None, sync_header_verified |-> None,
     sync_confidence_achieved |-> None, sync_data_verified |-> None]
-----------------------------------------------------------------------------
(* api/v2 *)

FirstBlock ==
    IF state.header_verified = None THEN state.latest ELSE state.header_verified.first
FirstSyncBlock == IF opt.start = None THEN FirstBlock ELSE opt.start

\* block_status past its early returns, for the ranges of one kind of blocks.
Progress(n, data, confidence, header, latest) ==
    IF RangeContains(data, n) THEN "finished"
    ELSE IF RangeContains(confidence, n) THEN "verifying-data"
    ELSE IF RangeContains(header, n) THEN "verifying-confidence"
    ELSE IF latest = n THEN "verifying-header" ELSE "pending"

block_status(n) ==
    IF n > state.latest THEN None
    ELSE IF n < FirstSyncBlock THEN "unavailable"
    ELSE IF ~extract_kate(n) THEN "incomplete"
    ELSE IF n < FirstBlock
         THEN Progress(n, state.sync_data_verified, state.sync_confidence_achieved,
                       state.sync_header_verified, state.sync_latest)
         ELSE Progress(n, state.data_verified, state.confidence_achieved,
                       state.header_verified, state.latest)

\* GET /v2/blocks/{n}: the status, None when the answer is 404.
block(n) == IF n \in db.header THEN block_status(n) ELSE None

\* GET /v2/blocks/{n}/data: "not_found", "not_available", "no_data" (an empty
\* list) or "data".
block_data(n) ==
    IF ~opt.app \/ block(n) = None THEN "not_found"
    ELSE IF block(n) # "finished" THEN "not_available"
    ELSE IF n \in db.data THEN "data" ELSE "no_data"

(* api/v1 *)

\* GET /v1/latest_block
latest_block ==
    IF state.confidence_achieved = None THEN None ELSE state.confidence_achieved.last

\* GET /v1/status answers with a confidence.
status_found == latest_block # None /\ latest_block \in db.cells

\* GET /v1/confidence/{n} answers with a confidence: the stored one, or the
\* configured one for a block that is not above the range.
confidence_found(n) == n \in db.cells \/ (latest_block # None /\ n <= latest_block)

\* GET /v1/appdata/{n}
appdata(n) ==
    IF n \in db.data THEN "data" ELSE IF n = latest_block THEN "in_process" ELSE "not_found"
=============================================================================
