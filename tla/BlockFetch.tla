----------------------------- MODULE BlockFetch -----------------------------
(***************************************************************************)
(* How the cells and rows of one block are fetched, verified and uploaded. *)
(* mode tells on whose behalf:                                             *)
(*   "sample"  the light and the sync client: cells from the DHT, the rest *)
(*             from the node (network.rs, proof.rs)                        *)
(*   "app"     the application client: rows, then cells (app_client.rs)    *)
(*   "fat"     the fat client: its partition from the node (fat_client.rs) *)
(*   "crawl"   the crawl client: whatever the DHT has (crawl_client.rs)    *)
(* A cell or row is good when its proof or commitment holds and bad        *)
(* otherwise.  The DHT and the node answer as they like.                   *)
(***************************************************************************)
EXTENDS Naturals, FiniteSets

CONSTANT
    Rows,           \* number of rows before the extension
    Cols,           \* number of columns
    Confidences,    \* configured confidences considered, in 1/100 percent
    AppRows,        \* extended rows with data of the application
    Partition,      \* positions of the fat client's partition, in batches
    Threshold,      \* AppClientConfig.threshold, in cells
    CrawlModes      \* crawl_block_mode considered

ExtendedRow == 0..(2 * Rows - 1)
Position == ExtendedRow \X (0..(Cols - 1))
IsExtended(p) == p[1] % 2 = 1
RowOf(r) == {p \in Position : p[1] = r}
ColumnOf(c) == {p \in Position : p[2] = c}

ASSUME FetchAssumption ==
    /\ Rows \in Nat \ {0} /\ Cols \in Nat \ {0}
    /\ Confidences \subseteq Nat
    /\ AppRows \subseteq ExtendedRow
    /\ DOMAIN Partition \in SUBSET Nat /\ \A i \in DOMAIN Partition : Partition[i] \subseteq Position
    /\ Threshold \in Nat
    /\ CrawlModes \subseteq {"cells", "rows", "both"}

VARIABLE
    mode,
    option,      \* the confidence sampled for, or the crawl mode
    disable_rpc,
    pc,
    wanted,      \* positions to fetch
    fetched,     \* of each position fetched so far: "good" or "bad"
    unfetched,   \* positions left to fetch
    dht_rows,    \* of each application row: as the DHT and as the node gave it,
    rpc_rows,    \*   "none", "good" or "bad"
    rows,        \*   and as it is decoded
    uploaded,    \* what was put into the DHT: cells with their quality, and rows
    count        \* batches of the partition done, or rows crawled

vars == <<mode, option, disable_rpc, pc, wanted, fetched, unfetched, dht_rows, rpc_rows, rows,
          uploaded, count>>
config == <<mode, option, disable_rpc>>
rowVars == <<dht_rows, rpc_rows, rows>>
-----------------------------------------------------------------------------
(* rpc.rs: how many cells, and which *)

Pow2(k) == 2 ^ k

\* The least k with 1 - 2^-k at or above the confidence.
MutCountRoundedDown(c) ==
    LET Enough(k) == 10000 <= (10000 - c) * Pow2(k + 1)
    IN  CHOOSE k \in 0..14 : Enough(k) /\ \A j \in 0..14 : Enough(j) => k <= j
cells_needed(c) ==
    LET Enough(k) == 10000 <= (10000 - c) * Pow2(k)
    IN  CHOOSE k \in 0..14 : Enough(k) /\ \A j \in 0..14 : Enough(j) => k <= j

\* CELL_COUNT_99_99 is 14; an invalid confidence is taken as 99.3.
cell_count_for_confidence(c) ==
    IF c < 5000 \/ c > 10000 THEN cells_needed(9930)
    ELSE IF c > 9999 THEN 14
    ELSE IF cells_needed(c) <= 1 THEN 1 ELSE cells_needed(c)

\* generate_random_cells
generate_random_cells(n) ==
    LET size == Cardinality(Position)
    IN  {S \in SUBSET Position : Cardinality(S) = IF size < n THEN size ELSE n}

\* utils.rs, in 1/100 percent and rounded down
calculate_confidence(n) == (10000 * (Pow2(n) - 1)) \div Pow2(n)

(* Fetching; a record of the wrong size counts as absent *)

Quality == {"good", "bad"}

\* What fetch_cells_from_dht and request_kate_proof can return for positions S:
\* some of them, of either quality.
Answers(S) == UNION {[T -> Quality] : T \in SUBSET S}

\* proof::verify: the positions whose proof holds; the callers retain those.
Verified(cells) == {p \in DOMAIN cells : cells[p] = "good"}
Retain(cells) == [p \in Verified(cells) |-> cells[p]]

Empty == [p \in {} |-> "good"]

\* Two maps with disjoint domains.
Join(f, g) == [p \in DOMAIN f \cup DOMAIN g |-> IF p \in DOMAIN f THEN f[p] ELSE g[p]]

\* insert_cells_into_dht: the records put for cells.
Records(cells) == {[key |-> p, value |-> cells[p]] : p \in DOMAIN cells}
-----------------------------------------------------------------------------
Init ==
    /\ \/ mode = "sample" /\ option \in Confidences
       \/ mode = "app" /\ option = 0
       \/ mode = "fat" /\ option = 0
       \/ mode = "crawl" /\ option \in CrawlModes
    /\ disable_rpc \in BOOLEAN
    /\ pc = "start"
    /\ wanted = {}
    /\ fetched = Empty
    /\ unfetched = {}
    /\ dht_rows = [r \in AppRows |-> "none"]
    /\ rpc_rows = dht_rows
    /\ rows = dht_rows
    /\ uploaded = [cells |-> {}, rows |-> {}]
    /\ count = 0

Goto(from, to) == pc = from /\ pc' = to

\* The call returns an error.
Fails == pc' = "error" /\ UNCHANGED <<config, wanted, fetched, unfetched, rowVars, uploaded, count>>
-----------------------------------------------------------------------------
(* "sample": process_block of light_client.rs and sync_client.rs down to     *)
(* network.rs                                                                *)

SampleStart ==
    /\ mode = "sample"
    /\ Goto("start", "dht")
    /\ wanted' \in generate_random_cells(cell_count_for_confidence(option))
    /\ UNCHANGED <<config, fetched, unfetched, rowVars, uploaded, count>>

\* Chunks of dht_parallelization_limit are fetched one after the other; their
\* answers do not depend on each other.
fetch_verified_from_dht ==
    /\ mode = "sample"
    /\ Goto("dht", IF disable_rpc THEN "count" ELSE "rpc")
    /\ \E cells \in Answers(wanted) :
          /\ fetched' = Retain(cells)
          /\ unfetched' = wanted \ Verified(cells)
    /\ UNCHANGED <<config, wanted, rowVars, uploaded, count>>

\* The cells retained are put into the DHT.  What the node leaves out of its
\* answer is no longer listed as unfetched.
MutUploadAll ==
    /\ mode = "sample"
    /\ Goto("rpc", "count")
    /\ \E cells \in Answers(unfetched) :
          /\ fetched' = Join(fetched, Retain(cells))
          /\ unfetched' = DOMAIN cells \ Verified(cells)
          /\ uploaded' = [uploaded EXCEPT !.cells = Records(cells)]
    /\ UNCHANGED <<config, wanted, rowVars, count>>
fetch_verified_from_rpc ==
    /\ mode = "sample"
    /\ Goto("rpc", "count")
    /\ \E cells \in Answers(unfetched) :
          /\ fetched' = Join(fetched, Retain(cells))
          /\ unfetched' = DOMAIN cells \ Verified(cells)
          /\ uploaded' = [uploaded EXCEPT !.cells = Records(Retain(cells))]
    /\ UNCHANGED <<config, wanted, rowVars, count>>

\* A proof cannot be checked, or the node gives no answer.
SampleFails == mode = "sample" /\ pc \in {"dht", "rpc"} /\ Fails

\* required > verified
SampleCounted ==
    /\ mode = "sample"
    /\ Goto("count", IF Cardinality(wanted) > Cardinality(DOMAIN fetched) THEN "failed" ELSE "verified")
    /\ UNCHANGED <<config, wanted, fetched, unfetched, rowVars, uploaded, count>>
-----------------------------------------------------------------------------
(* "app": process_block of app_client.rs *)

RowAnswer == {"none", "good", "bad"}

\* commitments::verify_equality: the rows whose commitment holds
MutPresentIsVerified(given) == {r \in AppRows : given[r] # "none"}
VerifiedRows(given) == {r \in AppRows : given[r] = "good"}

AppFromDht ==
    /\ mode = "app"
    /\ Goto("start", "rpc")
    /\ dht_rows' \in [AppRows -> RowAnswer]
    /\ UNCHANGED <<config, wanted, fetched, unfetched, rpc_rows, rows, uploaded, count>>

\* get_kate_rows asks for the rows the DHT did not give, and the node may
\* leave some out.
AppFromRpc ==
    /\ mode = "app"
    /\ Goto("rpc", "rows")
    /\ IF disable_rpc THEN UNCHANGED rpc_rows
       ELSE rpc_rows' \in {given \in [AppRows -> RowAnswer] :
                              \A r \in VerifiedRows(dht_rows) : given[r] = "none"}
    /\ UNCHANGED <<config, wanted, fetched, unfetched, dht_rows, rows, uploaded, count>>

VerifiedEither == VerifiedRows(dht_rows) \cup VerifiedRows(rpc_rows)

\* dht_row.or(rpc_row), when a row of that index is verified
Chosen(r) == IF dht_rows[r] # "none" THEN dht_rows[r] ELSE rpc_rows[r]

MissingCells == UNION {RowOf(r) : r \in AppRows \ VerifiedEither}

\* The rows are chosen; what is missing must stay below the threshold and is
\* fetched cell by cell.
AppChooses ==
    /\ mode = "app"
    /\ Cardinality(AppRows \ VerifiedEither) * Cols <= Threshold
    /\ Goto("rows", IF MissingCells = {} THEN "decode" ELSE "cells")
    /\ rows' = [r \in AppRows |-> IF r \in VerifiedEither THEN Chosen(r) ELSE "none"]
    /\ wanted' = MissingCells
    /\ UNCHANGED <<config, fetched, unfetched, dht_rows, rpc_rows, uploaded, count>>

\* reconstruct_rows_from_dht, the cells of the missing rows
AppCells ==
    /\ mode = "app"
    /\ Goto("cells", "columns")
    /\ \E cells \in Answers(wanted) :
          /\ fetched' = Retain(cells)
          /\ unfetched' = wanted \ Verified(cells)
    /\ UNCHANGED <<config, wanted, rowVars, uploaded, count>>

\* and cells of the columns of those not found: with half of its cells
\* verified a column can be computed (kate_recovery), and the cell with it.
Recoverable(good, c) == Cardinality(ColumnOf(c) \cap good) >= Rows

AppColumns ==
    /\ mode = "app"
    /\ Goto("columns", "rebuild")
    /\ \E good \in SUBSET UNION {ColumnOf(p[2]) : p \in unfetched} :
          unfetched' = {p \in unfetched : ~Recoverable(good, p[2])}
    /\ UNCHANGED <<config, wanted, fetched, rowVars, uploaded, count>>

\* Each cell not fetched is in a column computed, so that every row has its size.
AppReconstructs ==
    /\ mode = "app"
    /\ unfetched = {}
    /\ Goto("rebuild", "decode")
    /\ rows' = [r \in AppRows |-> IF r \in VerifiedEither THEN rows[r] ELSE "good"]
    /\ UNCHANGED <<config, wanted, fetched, unfetched, dht_rows, rpc_rows, uploaded, count>>

\* The rows are decoded and stored.
AppStores ==
    /\ mode = "app"
    /\ Goto("decode", "stored")
    /\ UNCHANGED <<config, wanted, fetched, unfetched, rowVars, uploaded, count>>

\* The node, a proof that cannot be checked, the threshold, a column that
\* cannot be computed, or the decoder
AppFails ==
    /\ mode = "app"
    /\ \/ pc \in {"start", "rpc", "cells", "columns", "decode"}
       \/ pc = "rows" /\ Cardinality(AppRows \ VerifiedEither) * Cols > Threshold
       \/ pc = "rebuild" /\ unfetched # {}
    /\ Fails
-----------------------------------------------------------------------------
(* "fat": process_block of fat_client.rs *)

\* A batch arrives from the node and is put into the DHT, unverified; a failed
\* insertion is only logged.
FatBatch ==
    /\ mode = "fat"
    /\ count + 1 \in DOMAIN Partition
    /\ Goto("start", "start")
    /\ count' = count + 1
    /\ \E cells \in Answers(Partition[count + 1]) :
          /\ fetched' = Join(fetched, cells)
          /\ uploaded' \in {uploaded, [uploaded EXCEPT !.cells = @ \cup Records(cells)]}
    /\ UNCHANGED <<config, wanted, unfetched, rowVars>>

FatFails == mode = "fat" /\ pc = "start" /\ count + 1 \in DOMAIN Partition /\ Fails

\* data::rows: the rows of which every cell was fetched, extended ones left out
CompleteRows(cells) == {r \in ExtendedRow : r % 2 = 0 /\ RowOf(r) \subseteq DOMAIN cells}

FatRows ==
    /\ mode = "fat"
    /\ count + 1 \notin DOMAIN Partition
    /\ Goto("start", "done")
    /\ IF Cardinality(DOMAIN fetched) >= Cols
       THEN uploaded' \in {uploaded, [uploaded EXCEPT !.rows = CompleteRows(fetched)]}
       ELSE UNCHANGED uploaded
    /\ UNCHANGED <<config, wanted, fetched, unfetched, rowVars, count>>
-----------------------------------------------------------------------------
(* "crawl": one block of crawl_client.rs *)

\* The mode that fetches rows is tested like the one that fetches cells.
CrawlCells ==
    /\ mode = "crawl"
    /\ Goto("start", "rows")
    /\ IF option \in {"cells", "both"} THEN fetched' \in Answers(Position) ELSE UNCHANGED fetched
    /\ UNCHANGED <<config, wanted, unfetched, rowVars, uploaded, count>>

CrawlRows ==
    /\ mode = "crawl"
    /\ Goto("rows", "done")
    /\ IF option \in {"cells", "both"} THEN count' \in 0..Rows ELSE UNCHANGED count
    /\ UNCHANGED <<config, wanted, fetched, unfetched, rowVars, uploaded>>

Next ==
    \/ SampleStart \/ fetch_verified_from_dht \/ fetch_verified_from_rpc \/ SampleFails \/ SampleCounted
    \/ AppFromDht \/ AppFromRpc \/ AppChooses \/ AppCells \/ AppColumns \/ AppReconstructs \/ AppStores \/ AppFails
    \/ FatBatch \/ FatFails \/ FatRows
    \/ CrawlCells \/ CrawlRows

Spec == Init /\ [][Next]_vars
-----------------------------------------------------------------------------
(* Properties *)

\* A block counts as verified exactly when there is a good cell for every
\* position sampled, from the DHT or from the node, and then the confidence
\* reported is at least the configured one, or the whole block was sampled.
ConfidenceIsEarned ==
    /\ pc = "verified" =>
          /\ \A p \in wanted : p \in DOMAIN fetched /\ fetched[p] = "good"
          /\ \/ calculate_confidence(Cardinality(DOMAIN fetched)) >= option
             \/ wanted = Position
             \/ option > 9999
    /\ pc = "failed" => \E p \in wanted : p \notin DOMAIN fetched

\* Clients that sample put only verified cells into the DHT, and of those they
\* asked the node for; the fat client puts rows only when it has all their cells.
UploadsAreSound ==
    /\ mode = "sample" => \A c \in uploaded.cells : c.value = "good" /\ c.key \in wanted
    /\ \A r \in uploaded.rows : RowOf(r) \subseteq DOMAIN fetched

\* The application client decodes all rows of the application, and each of
\* them is verified, except where the DHT gave a row that is not and the node
\* the verified one.
AppRowsComplete ==
    pc = "stored" =>
        \A r \in AppRows :
            rows[r] = "good" \/ (rows[r] = "bad" /\ dht_rows[r] = "bad" /\ rpc_rows[r] = "good")

\* app_client.rs: "Verify commitment equality for each row"; the rows decoded
\* are verified ones.
DecodedRowsAreVerified == pc = "stored" => \A r \in AppRows : rows[r] = "good"
-----------------------------------------------------------------------------
(* What ConfidenceIsEarned, UploadsAreSound and AppRowsComplete depend on *)

\* The client that samples has asked for as many cells as its confidence needs,
\* holds good ones of them only, and uploads none that it did not ask for.
SampleInv ==
    /\ option \in Confidences
    /\ IF pc = "start" THEN wanted = {} /\ uploaded.cells = {}
       ELSE wanted \in generate_random_cells(cell_count_for_confidence(option))
    /\ DOMAIN fetched \cup unfetched \subseteq wanted
    /\ \A p \in DOMAIN fetched : fetched[p] = "good"
    /\ \A c \in uploaded.cells : c.value = "good" /\ c.key \in wanted
    /\ pc = "verified" => Cardinality(wanted) <= Cardinality(DOMAIN fetched)
    /\ pc = "failed" => Cardinality(wanted) > Cardinality(DOMAIN fetched)

\* The node is asked only for the rows the DHT did not give; once the rows are
\* chosen, those that are missing stay so until they are rebuilt.
AppInv ==
    /\ {dht_rows, rpc_rows} \subseteq [AppRows -> RowAnswer]
    /\ pc = "start" => rpc_rows = [r \in AppRows |-> "none"]
    /\ \A r \in VerifiedRows(dht_rows) : rpc_rows[r] = "none"
    /\ pc \in {"cells", "columns", "rebuild", "decode", "stored"} =>
          rows = [r \in AppRows |-> IF r \in VerifiedEither THEN Chosen(r)
                                    ELSE IF pc \in {"decode", "stored"} THEN "good" ELSE "none"]

\* Rows are put into the DHT last, by the fat client alone.
RowsInv ==
    /\ uploaded = [cells |-> uploaded.cells, rows |-> uploaded.rows]
    /\ uploaded.rows # {} => mode = "fat" /\ pc = "done"
    /\ \A r \in uploaded.rows : RowOf(r) \subseteq DOMAIN fetched

FetchInv ==
    /\ mode \in {"sample", "app", "fat", "crawl"}
    /\ pc \in {"verified", "failed"} => mode = "sample"
    /\ pc = "stored" => mode = "app"
    /\ mode = "sample" => SampleInv
    /\ mode = "app" => AppInv
    /\ RowsInv
=============================================================================
