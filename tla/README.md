# Avail light client: TLA+ models and proofs

This directory holds a verification of the Avail light client kept in this
repository: TLA+ modules translated from the Rust sources under `src/`, TLC
configurations that check them on small instances, and TLAPS proofs for every
value of the constants. `PROJECT.json` maps each definition to the lines it
models and lists runs, mutants, hazards, findings and theorems.

## The system and its parts

The light client follows a chain through RPC nodes and a Kademlia network:

| part | source | state it owns or changes | modelled by |
|---|---|---|---|
| subscription loop | `network/rpc/subscriptions.rs` | unverified headers, justifications, validator sets, `latest`, `header_verified`, checkpoint; announces verified headers | `Subscriptions`, abstractly `BlockFeed` |
| justification check | `finality.rs` | none (pure) | `Finality`, against a reference in `JustificationCheck` |
| finality sync | `sync_finality.rs` | checkpoint, headers, `finality_synced` | `SyncFinality` |
| shutdown controller | `shutdown.rs`, `shutdown/*.rs` | reason, tokens, wakers | `Controller`, `Shutdown`, abstractly `ShutdownLifecycle` |
| process | `bin/avail-light.rs` | tasks on the controller; which clients are started | `NodeShutdown`, `Clients` (`Spawn`, `Restart`) |
| light, fat, sync and app client | `light_client.rs`, `fat_client.rs`, `sync_client.rs`, `app_client.rs` | ranges of `State`, counts, headers, application data; messages to each other | `Clients`; their fetching in `BlockFetch` |
| shared state, block status | `types.rs`, `api/v1`, `api/v2` handlers | `State`, and what the API answers from it | `ClientState` |
| fetching, crawl client | `network.rs`, `proof.rs`, `crawl_client.rs` | cells and rows of one block, uploads | `BlockFetch` |
| RPC client | `network/rpc/client.rs`, `network/rpc.rs` | connection, connected node, stream | `RpcClient`; lost and repeated items of the stream in `Subscriptions` |
| web-socket API, transactions | `api/v2/ws.rs`, `api/v2/mod.rs`, `api/v2/types.rs`, `api/v2/transactions.rs` | subscribers, connections, publishers | `WsApi`, over `RpcClient` |
| P2P event loop, its client, maintenance | `network/p2p/event_loop.rs`, `network/p2p/client.rs`, `maintenance.rs` | pending queries and dials, upload counters, relay, routing | `P2PEventLoop`, over `KadStore`; its start and end in `NodeShutdown` |
| Kademlia stores | `kad_mem_store.rs`, `kad_rocksdb_store.rs` | records | `KadStore` |
| database | `data*` | keys | as the `db` of `ClientState` and of `SyncFinality` |
| telemetry, configuration, routing | | none that others read | not modelled (see below) |

The subscription loop, finality sync and the clients share `Arc<Mutex<State>>`
and the database; the loop feeds the clients through a broadcast channel; every
task runs under the shutdown controller.

## Modules

`Chain` (values in `MCChain`) is the chain that nodes serve: a header is its
block number, `AuthChange` the headers with an authority set change, `SetId`
and `Authorities` the sets, `Justification` what a node hands out. Its
assumptions state only what a GRANDPA chain gives: a change at block n takes
effect at n + 1, and justifications are accepted under the set of their block.

`Finality` translates `check_finality`, `confirm_ancestry` and
`is_signed_by_supermajority`. A signature is the signer with what it signed
(target and set id); the search for another set id is kept. `JustificationCheck`
enumerates justifications and compares with a declarative reference.

`Subscriptions` is `SubscriptionLoop`. `HandleHeader` and `HandleJustification`
are the two arms of `handle_new_subscription`; `Match`, `NoMatch`, `SendSkipped`,
`SendFinalized` are the steps of `verify_and_output_block_headers` between its
awaits; `FetchFails` and the failing branch of `Match` are its panics. The stream
comes from `subscription_stream`: `Resubscribe` may lose up to `MaxMissed` blocks
or repeat some, `StreamFails` ends it. `tracked` and `rewound` are history
variables that tell whether a set change was lost or the stream repeated blocks.
`BlockFeed` is what the rest of the client relies on: one block after the other.

`SyncFinality` is `sync` and `run` over restarts. The database (checkpoint,
headers) survives `Restart`; the next node may be `MaxLag` blocks behind. After
`finality_synced` the subscription loop writes the same key: `LoopCheckpoint`
allows what `Subscriptions` shows of these writes on an undisturbed stream, with
the set up to `MaxLead` blocks ahead. `verified` and `led` are history variables.

`Controller` is `ControllerInner` under its mutex and the polls of the futures
`Signal` and `Completed` with wakers and scheduling. `Shutdown` has every user of
it: delay and trigger tokens with clones and drops, tasks under `with_cancel`,
waiters. `ShutdownLifecycle` is the promise: running, triggered, completed.
`NodeShutdown` composes the same controller with `main`, `run`, the signal
handler and the spawned tasks; a task's steps are those between its awaits.

`ClientState` is `State`, the database and the answers computed from them:
`RangeSet` is `OptionBlockRange::set`, `block_status` the function of that name
(with `Progress` its second half), `block`, `block_data`, `latest_block`,
`confidence_found` and `appdata` the handlers. A header is the two things the
clients tell apart: whose data its lookup has, and whether its dimensions are
valid and wide enough. `Clients` has the tasks, with one action for each write to
the database, to `State` or to a channel, so that the API, a shutdown or a crash
(`Restart`, which keeps the database only) may come between any two. A broadcast
channel is the log of what was sent and a position for each receiver; a receiver
further behind than the capacity gets an error and its task returns. The source
of blocks is the feed that `BlockFeed` describes; `Announce` is the write of
`header_verified` with the announcement of the block.

`BlockFetch` is what happens inside one `process_block` of each client: the
number of cells for a confidence, the cells from the DHT and then from the node,
verification, uploads, and for the application client rows from both sources and
the reconstruction of those that are missing. A cell is good or bad, which is all
that a proof tells; a peer or a node answers any position with either, or not.

`RpcClient` has the callers of `with_retries`, with the connection and
`State.connected_node` as two variables written in two steps. An `Operation` is
the sequence of requests of a method. `call[c].steady` (the suitable nodes that
were up throughout the call) and `switched` (State named another node than the
call had failed on) are history. `WsApi` extends it with the connections, whose
transactions are calls, and the publishers.

`KadStore` is the record store in its two builds. The RocksDB one stores a time
to live and counts it from the moment of the read (`Expires`). `P2PEventLoop` is
the loop with its command queue. A command's oneshot sender is the task's name in
the queue, in a query or in `pending_swarm_events`. The swarm (dials, connections,
queries, routing table) is external and kept as sets; every event handler that
changes state is an action.

## Runs

| run | shows |
|---|---|
| `subscriptions` | the feed is contiguous, announced blocks are covered by a justification, `header_verified` matches the feed at every await, the checkpoint moves forward and its set is not stale, the check fails only after a lost set change; on an undisturbed stream nothing is withheld that could be announced, and every justified block is announced |
| `justification_check` | acceptance is exactly a two-thirds majority of votes whose targets descend from the justified block; the ancestry passes compute reachability |
| `sync_finality` | no gap in the chain of trust when `finality_synced` is set, the check succeeds unless a leading checkpoint was stored, the checkpoint never moves back, sync ends |
| `shutdown` | exact token count, no lost wake-up, drop of a trigger token, the life cycle, every task is cancelled, completion is seen |
| `node_shutdown` | `main` ends after a shutdown from anywhere, and not before the event loop |
| `clients` | what the API reports is backed by the database: the latest block has its count, a finished block its data, `synced` the data of the range; a block's status only moves forward; every announced block is processed unless the channel overflowed; sync ends |
| `block_fetch` | the confidence counts good cells of every position sampled and reaches the configured one; samplers upload verified cells only, the fat client complete rows only; no application row is missing from what is decoded |
| `ws_api` | a call gives up beside a good node only when another call's switch hid that node, or the transaction is in a block already; every step brings a call nearer to its end; requests are answered one by one in order; a message goes to the latest connection of each subscription; every request is handled |
| `p2p` | each waiting task has exactly one sender in the loop; the counters of uploads add up; a selected relay is being dialled; every call is answered |
| `subscriptions_checkpoint`, `fetch_rows`, `p2p_put` | violations, see Findings |

Bounds. The chains of the finality runs have five or six blocks with two or three
set changes, two of them close together, so that a block can be verified before,
between and after changes. One resubscription and up to two missed blocks lose a
change or nothing. Two restarts let a process resume from a checkpoint made after
a resume. Three members per set, without a common member, make a wrong set fail.
The justification run uses a small block tree with forks, and set ids on both
sides of each end of the tolerated range and of the first ten sets, where the
range is empty. `SyncEnds` is checked on a chain that ends: a sync that starts past
its end follows the node's head and ends with an error when it asks for a block
that the node does not have yet. The controller has a few tokens, tasks and waiters and a bounded
number of clones; the proofs cover every number.

`Clients` has three blocks, so that there is one before and one after the first
announced, every kind of header among the three chains, channels of capacity one
that two messages overflow, and one restart, after which the sync client meets
blocks that the light client left in any state. `BlockFetch` has a matrix of two rows
and two columns before the extension: a column is recoverable with half of
its cells and not with fewer, and confidences are on both sides of each step of
the count. `WsApi` and `P2PEventLoop` take a `Scenario` for each behaviour, which
says how often each event of the environment happens in it: events that interact
(two submissions and a node failure; relays and dials of the same peer; uploads
into a store of two records) are combined, independent ones are not multiplied.
`WsApi` has two connections of one subscription, two nodes of the chain and one
of another; `P2PEventLoop` two peers that are relays, one of them also the
bootstrap node, and two blocks.

Deadlock checking is off where the program ends or its environment is bounded: a
chain that ends at `MaxBlock`, a process that has exited, a fetch that is done,
events that are used up.

Fairness. `Subscriptions` has weak fairness of the loop's own steps and
of delivery by the node. `SyncFinality` has weak fairness of the task: it is
polled and its calls return, with a value or an error. Restarts, node errors and
writes of the loop are not fair. `Shutdown` has weak fairness of polling what
is scheduled and of finishing a poll, which is what the tokio runtime gives;
nothing forces a trigger or the drop of a token. `NodeShutdown` has the same for
every task, and weak fairness of the two setup calls of `run` and of the event
loop's cleanup, which return. `Clients` has weak fairness of `run` and of the
light and the sync client, whose calls return; announcements, the app client,
shutdowns and restarts are not fair. `WsApi` has weak fairness of each connection's
handler and of its calls, whose retries are bounded; nodes need not recover.
`P2PEventLoop` has weak fairness of running commands and of the end of every query
and dial, which libp2p bounds by its timeouts (`query_timeout` for queries).

Each property of a passing run has a mutant in `PROJECT.json`: a plausible slip in
one mapped definition (an operator named `Mut...` beside it) under which TLC finds
the property violated.

## Proofs

All theorems are proved by TLAPS from the named assumptions of the modules. Every
safety invariant, action property and refinement that a passing run checks is the
statement of a theorem: the run shows it on an instance, the theorem for every value of the
constants. TLC was used to check each inductive invariant before its proof.

- `SubscriptionsProofs`: `IInv` relates the headers kept, the sets paired with
  them and the position in the stream. It is needed because the safety of a
  check depends on the set stored with the header when it arrived, and the
  contiguity of the feed on where the output was suspended. From it follow the
  safety invariants, the action property and the refinement of `BlockFeed`.
  `NothingWithheld` needs `WithheldInv`, relative to `IInv`: the justifications are
  in ascending order, and the header of each one that is still to be announced
  (and of each block above them) is in the queue from its arrival on
  (`HeadersKept`), although `swap_remove` reorders it. So when the newest
  justification has no header, it is announced, with all below it, or its header is
  still to come.
- `FinalityProofs`: the truncating threshold is the strict two-thirds bound for
  every set size, and two accepted groups share more than a third. Over
  `JustificationCheck`, `confirm_ancestry` is reachability for every tree, cycles
  included: its passes are the values of a walk through the parents (`Up`), and a
  walk that has made as many steps as there are headers has left them or repeats a
  block, so that the blocks it met are closed under the parents known
  (`WalkCloses`). With that and the arithmetic of the tolerated set ids
  (`ToleratedExactly`), `check_finality` accepts exactly what its reference accepts.
  `JustificationInv` says only that the enclosed headers are the tree's and finitely many.
  For `SyncFinality` (`JustificationCheck` carries the prefix `Check`, as the two share
  this proof module), `IInv` says that the held set is in force at the next block
  (unless a leading checkpoint was stored), that every earlier change was
  verified, and that neither writer is behind the checkpoint.
- `ShutdownProofs`: `IInv` ties the counter to the tokens and each registered
  waker to the phase; the life cycle is a refinement.
  For `NodeShutdown` (whose definitions carry the prefix `Node`, as the two modules
  share one proof module), `ExitInv` ties the only delay token to the event loop.
  `StuckInv` says that an idle task is scheduled or has its waker with the
  controller in time (`Remembered`), that `main` lives until its end and the
  event loop for as long as it holds the token. From the two, `NeverStuck`: after the
  trigger `main` can go on, or it waits for the token of an event loop that is polled.
  They also give the refinement `ProcessRefinement`, in which `main` is the one
  that awaits the completion: a token taken late, on the first poll of the event
  loop, does not take a completion back.
- `ClientsProofs`: `LatestIsAchieved`, `FinishedHasData` and `SyncedMeansDone` for every
  chain, configuration and channel capacity. None is inductive: that a range covers
  only stored blocks depends on the order in which the app client received the
  blocks, hence on the order the light and the sync client sent them, hence on the
  feed. `IInv` says this link by link: `FeedInv` (announced blocks follow the head
  without a gap), `MessagesInv` (the messages of each sender are in block order, and
  none with an extension that the light client is done with is missing), `DataInv`
  (the data of every message the app client is done with is stored, and the range
  covers no other), `CountInv` (the count is stored before the range moves).
  `SyncInv` adds who set `synced`. It is relative to `IInv`. The action property
  `StatusAdvances` rests on `RangesInv`, also relative to `IInv`: no range is ahead of the
  one task that moves it, and a range of the app client ends at a message that it took.
  Hence every step of a session leaves each range or moves it forward (`RangeStep`),
  and the status computed from ranges that only grow does not go back.
  `StopsForAReason` is inductive with the type of `data`: a task that has returned
  stays behind its channel, or the shutdown stays.
- `RpcProofs`: `RpcInv` says what a call has learnt of the nodes: the one it failed on
  was not steady, and the steady ones are still on the list it works through,
  unless it was switched. From it, `FailsOnlyAfterSwitch`, and that the connection stays on
  the configured chain, for any number of nodes and callers. The action property
  `CallsGetNearer` (`CallsEnd`) is the bound of the retries: requests left, stage,
  delays used and position in the list give a lexicographic order in which a call
  cannot go on for ever, and each of its steps descends in it. The module also
  holds the steps of `AnswerInv`, which relates the outbox of each connection to the requests it has handled and, by `SubmitInv`, a
  submission under way to its request and to the block that includes it; it is
  needed because an answer is sent when the call has returned, several steps of the RPC
  client later.
- `WsApiProofs` extends it: `WindowInv` says that a connection is the sender of its id until it is
  replaced, over the positions of the publishers recorded in `window`. It is inductive together with `AnswerInv`, and from the two follow
  `AnsweredInOrder` and `PublishedToLatest`.
- `BlockFetchProofs`: the arithmetic of `cell_count_for_confidence` (the number of
  cells is enough for each confidence, `CountIsEnough`), and `FetchInv`, which says for each
  client what it holds between its steps: a sampler good cells of those it asked for
  (`SampleInv`), the application client rows of the node only where the DHT gave none that
  is verified (`AppInv`), and that rows are uploaded last, by the fat client (`RowsInv`).
  It holds for every matrix, lookup, partition and threshold.
- `P2PProofs`: `DialInv` for the relay and for the dials that tasks wait for, and
  `UploadInv` with `QueueInv` for the counters, which count the put queries of each block
  under way, in any order and with any number of records. `ReplyInv`, for `NoLostReply`,
  needs both: a sender moves from the queue to a query or a dial and is dropped only
  with an answer, because ids of queries are not given out twice and a query that has
  answered is not pending any more.

The assumptions on constants say what the types of the code give: sets are finite
where the code counts them (validators, tokens), numbers are naturals, and `None` is not
one of the values it is told apart from.

Only model-checked: the liveness properties (`JustifiedIsAnnounced`, `SyncEnds`,
`CancelReaches`, `CompletionIsSeen`, `ShutdownEnds`, `AnnouncedIsProcessed`,
`SyncCompletes`, `RequestsAreHandled`, `CallsAnswered`), as the prover has no reasoning about
fairness or `ENABLED`. What safety contributes to them is proved: `NothingWithheld` for
`JustifiedIsAnnounced`, `NoLostWakeup` for `CancelReaches` and `CompletionIsSeen`, `NeverStuck` for
`ShutdownEnds`, `StopsForAReason` for `AnnouncedIsProcessed` and `SyncCompletes`, `CallsGetNearer`
and `AnsweredInOrder` for `RequestsAreHandled`, and `NoLostReply` for `CallsAnswered`; what is left to
TLC is that fairness makes the steps happen. `NeverStuck`, `ProcessRefinement` and
`StopsForAReason`, and the type invariants, which are a part of each inductive
invariant, are stated as theorems and not repeated in a run. `SyncEnds` has no such
half: that a sync meets the head depends on the pace of the chain.

Induction over data is not available to the prover either; where an argument needs one
(the walk of the ancestry, the least sufficient number of cells) it takes the
least counterexample instead, from the well-foundedness of the natural
numbers (`LeastElement`).

## Findings

1. The loop's checkpoint pairs a block with the set current at the time, which
   may be that of a later block; finality sync resumed from it fails
   (`subscriptions.rs:193`, `sync_finality.rs:309`; run `subscriptions_checkpoint`).
2. The application client verifies the rows of the DHT and those of the node
   separately and takes a row as verified when either is, but decodes the one of
   the DHT when both are there (`app_client.rs:351`; run `fetch_rows`). The run
   `block_fetch` shows that this is the only way an unverified row gets decoded.
3. A put that the record store refuses panics and ends the P2P event loop, where
   the comment of `insert_cells_into_dht` says that errors are skipped
   (`p2p/client.rs:249`; run `p2p_put`). All pending calls then end with an error.

Met while modelling, without a run of their own:

- A resubscription that skips a header with a set change makes the subscription
  loop panic on a valid justification (`subscriptions.rs:180`);
  `FailsOnlyOnLostSetChange` shows that nothing else does.
- A shutdown that completes before the event loop is first polled makes it
  panic (`event_loop.rs:188`), and `with_cancel` around the loop can drop it before
  its cleanup (`avail-light.rs:182`). `main` ends properly in both cases.
- The crawl client tests the same modes for rows as for cells, so that the mode
  `rows` reads nothing (`crawl_client.rs:122`, against its documentation at `:38`).
- The RocksDB store counts a record's time to live anew from each read, so that the
  compaction filter never sees one expire (`kad_rocksdb_store.rs:57`).
- With an app client, `synced` depends on the message of the last block of the sync
  range; when that block is skipped, `synced` stays false (`app_client.rs:444`).

## Not modelled

- Telemetry and the traffic analyzer write metrics and logs that nothing reads.
- Configuration, identity and command-line handling: pure data before any task
  starts; the models take what they produce as constants.
- Codecs, serialization, HTTP routing and the text of errors.
- Provider records (`kad_mem_providers.rs`): the behaviour filters inserts
  (`StoreInserts::FilterBoth`) and the event loop never stores a provider.
- `kate-recovery` (polynomial proofs, reconstruction of columns, decoding), `subxt`,
  tokio and libp2p: external, modelled by how the sources use them.
- The pieces are composed where they share state that a property needs (`NodeShutdown`
  with `Controller`, `WsApi` with `RpcClient`, `P2PEventLoop` with `KadStore`,
  `Clients` with `ClientState`). `Clients` takes its blocks from the behaviour
  that `SubscriptionsProofs` shows the subscription loop to implement, rather than
  from the loop itself: the product is out of TLC's reach.
- The API compatibility program `bin/api_compat_test.rs` compares two running clients
  and is not part of the light client.
