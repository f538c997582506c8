------------------------------ MODULE KadStore ------------------------------
(***************************************************************************)
(* The record stores of the Kademlia behaviour.  The memory store          *)
(* (kad_mem_store.rs) holds a bounded number of records, each with the     *)
(* time it expires.  The RocksDB store (kad_rocksdb_store.rs) has no bound *)
(* and holds the time to live a record had when it was put; reading it     *)
(* makes that a time again, counted from the moment of the read.           *)
(***************************************************************************)
EXTENDS Naturals, FiniteSets, Functions

CONSTANT
    MaxRecords,     \* max_records of the memory store
    RecordTtl       \* kad_record_ttl, in ticks

ASSUME StoreAssumption == MaxRecords \in Nat /\ RecordTtl \in Nat \ {0}

VARIABLE
    rocks,      \* built with kademlia-rocksdb
    now,        \* the clock
    records     \* of each key stored: its expiry, or its ttl in RocksDB

storeVars == <<rocks, now, records>>

StoreInit(r) == rocks = r /\ now = 0 /\ records = [k \in {} |-> 0]

\* ttl: "1 is minimum value if `expires` is set".
ttl(expires) == IF expires > now THEN expires - now ELSE 1

Stored(expires) == IF rocks THEN ttl(expires) ELSE expires

\* into_kad_record, and the memory store's own records.
Expires(k) == IF rocks THEN now + records[k] ELSE records[k]

is_expired(k) == now >= Expires(k)

\* put: an existing record is replaced, a new one refused by a memory store
\* that is full.
Fits(keys) == rocks \/ keys \subseteq DOMAIN records \/ Cardinality(DOMAIN records \cup keys) <= MaxRecords

Put(keys, expires) == [k \in DOMAIN records \cup keys |-> IF k \in keys THEN Stored(expires) ELSE records[k]]

Remove(k) == Restrict(records, DOMAIN records \ {k})

\* PruneExpiredRecords: retain in the memory store, nothing in RocksDB.
Pruned == IF rocks THEN records ELSE Restrict(records, {k \in DOMAIN records : ~is_expired(k)})

\* ExpirationCompactionFilter.
Compacted == Restrict(records, {k \in DOMAIN records : ~is_expired(k)})
=============================================================================
