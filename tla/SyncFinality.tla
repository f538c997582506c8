---------------------------- MODULE SyncFinality ----------------------------
(***************************************************************************)
(* Finality sync of src/sync_finality.rs over the restarts of the process. *)
(* It follows the chain from genesis or from the checkpoint in the         *)
(* database and checks a finality proof at every authority set change.     *)
(* Once it is done the subscription loop writes the checkpoint; its writes *)
(* are what the invariants of Subscriptions promise about them.            *)
(***************************************************************************)
EXTENDS Chain

CONSTANT
    MaxRestarts,   \* bound: how often the process is restarted
    MaxLag,        \* how far the next node may be behind the previous one
    MaxLead        \* how far the set of a checkpoint of the subscription
                   \* loop may be ahead of its block

Checkpoint == [number : 1..(MaxBlock + 1), valset : Valset]

ASSUME SyncAssumption ==
    /\ MaxRestarts \in Nat /\ MaxLag \in Nat /\ MaxLead \in Nat
    /\ MaxBlock > 0
    /\ None \notin Checkpoint

VARIABLE
    pc,              \* "start", "sync", "proof", "synced", "check_failed", "rpc_failed"
    curr_block_num,
    valset,          \* (set_id, validator_set)
    last_block_num,  \* block of the first header the process received
    finality_synced, \* State.finality_synced
    checkpoint,      \* Key::FinalitySyncCheckpoint in the database
    headers,         \* blocks with Key::BlockHeader stored by sync
    head,            \* finalized head of the connected node
    loop_block,      \* block of the loop's last checkpoint in this process
    verified,        \* set changes that a proof was checked for (history)
    led,             \* a checkpoint had a set that is ahead of its block (history)
    restarts

vars == <<pc, curr_block_num, valset, last_block_num, finality_synced, checkpoint,
          headers, head, loop_block, verified, led, restarts>>

Init ==
    /\ pc = "start"
    /\ curr_block_num = 1
    /\ valset = ValsetAt(1)
    /\ last_block_num = 1
    /\ finality_synced = FALSE
    /\ checkpoint = None
    /\ headers = {}
    /\ head = 1
    /\ loop_block = 1
    /\ verified = {}
    /\ led = FALSE
    /\ restarts = 0
-----------------------------------------------------------------------------
\* Where sync starts: block 1 with the set at genesis without a checkpoint.
MutFromGenesis == [number |-> 1, valset |-> ValsetAt(1)]
ResumePoint == IF checkpoint = None THEN [number |-> 1, valset |-> ValsetAt(1)]
                                    ELSE checkpoint

MutOneBlockShort == curr_block_num = last_block_num
AtEnd == curr_block_num = last_block_num + 1

\* The set announced by the header of block n, under the next set id.
MutSetKept(n) == [set_id |-> valset.set_id + 1, validator_set |-> valset.validator_set]
NextValset(n) == [set_id |-> valset.set_id + 1,
                  validator_set |-> ValsetAt(n + 1).validator_set]

\* What is stored after the change in block n is verified.
SyncCheckpoint(n) == [number |-> n + 1, valset |-> NextValset(n)]

\* The process has received its first header, and run has spawned sync.
Start ==
    /\ pc = "start"
    /\ \E h \in Block \ {0} :
          /\ head <= h + MaxLag
          /\ head' = h
          /\ last_block_num' = h
          /\ loop_block' = h
    /\ curr_block_num' = ResumePoint.number
    /\ valset' = ResumePoint.valset
    /\ pc' = "sync"
    /\ UNCHANGED <<finality_synced, checkpoint, headers, verified, led, restarts>>

MutNoIncrement ==
    /\ pc = "sync" /\ ~ AtEnd
    /\ curr_block_num <= head
    /\ curr_block_num \notin AuthChange
    /\ headers' = headers \cup {curr_block_num}
    /\ UNCHANGED <<pc, curr_block_num, valset, last_block_num, finality_synced,
                   checkpoint, head, loop_block, verified, led, restarts>>

\* A header is fetched and stored; it has no set change.
NextHeader ==
    /\ pc = "sync" /\ ~ AtEnd
    /\ curr_block_num <= head
    /\ curr_block_num \notin AuthChange
    /\ headers' = headers \cup {curr_block_num}
    /\ curr_block_num' = curr_block_num + 1
    /\ UNCHANGED <<pc, valset, last_block_num, finality_synced, checkpoint, head,
                   loop_block, verified, led, restarts>>

\* A header with a set change is fetched and stored, and its proof requested.
ChangeHeader ==
    /\ pc = "sync" /\ ~ AtEnd
    /\ curr_block_num <= head
    /\ curr_block_num \in AuthChange
    /\ headers' = headers \cup {curr_block_num}
    /\ pc' = "proof"
    /\ UNCHANGED <<curr_block_num, valset, last_block_num, finality_synced, checkpoint,
                   head, loop_block, verified, led, restarts>>

\* The proof is there.  Block curr_block_num ends its set, so it is proved itself.
CheckProof ==
    /\ pc = "proof"
    /\ \/ /\ check_finality(valset, Justification[curr_block_num])
          /\ curr_block_num' = curr_block_num + 1
          /\ valset' = NextValset(curr_block_num)
          /\ checkpoint' = SyncCheckpoint(curr_block_num)
          /\ verified' = verified \cup {curr_block_num}
          /\ pc' = "sync"
       \/ /\ ~ check_finality(valset, Justification[curr_block_num])
          /\ pc' = "check_failed"
          /\ UNCHANGED <<curr_block_num, valset, checkpoint, verified>>
    /\ UNCHANGED <<last_block_num, finality_synced, headers, head, loop_block, led, restarts>>

Finish ==
    /\ pc = "sync" /\ AtEnd
    /\ finality_synced' = TRUE
    /\ pc' = "synced"
    /\ UNCHANGED <<curr_block_num, valset, last_block_num, checkpoint, headers, head,
                   loop_block, verified, led, restarts>>

\* The node does not have the block that is asked for.
BlockMissing ==
    /\ pc = "sync" /\ ~ AtEnd
    /\ curr_block_num > head
    /\ pc' = "rpc_failed"
    /\ UNCHANGED <<curr_block_num, valset, last_block_num, finality_synced, checkpoint,
                   headers, head, loop_block, verified, led, restarts>>

\* A call to the node or to the database fails.
CallFails ==
    /\ pc \in {"start", "sync", "proof"}
    /\ ~ (pc = "sync" /\ AtEnd)
    /\ pc' = "rpc_failed"
    /\ UNCHANGED <<curr_block_num, valset, last_block_num, finality_synced, checkpoint,
                   headers, head, loop_block, verified, led, restarts>>
-----------------------------------------------------------------------------
NodeFinalizes ==
    /\ head < MaxBlock
    /\ head' = head + 1
    /\ UNCHANGED <<pc, curr_block_num, valset, last_block_num, finality_synced,
                   checkpoint, headers, loop_block, verified, led, restarts>>

\* The subscription loop, which verified block n, stores its checkpoint: what
\* CheckpointAdvances and CheckpointSetNotStale of Subscriptions say of it on a
\* stream without a loss or a rewind.
LoopCheckpoint ==
    /\ finality_synced
    /\ \E n, m \in Block :
          /\ loop_block < n /\ n <= m /\ m <= head /\ m <= n + MaxLead
          /\ loop_block' = n
          /\ checkpoint' = [number |-> n, valset |-> ValsetAt(m)]
          /\ led' = (led \/ ValsetAt(m) # ValsetAt(n))
          /\ verified' = verified \cup (AuthChange \cap (last_block_num..(n - 1)))
    /\ UNCHANGED <<pc, curr_block_num, valset, last_block_num, finality_synced, headers,
                   head, restarts>>

\* The process stops at any point and is started again on the same database.
Restart ==
    /\ restarts < MaxRestarts
    /\ restarts' = restarts + 1
    /\ pc' = "start"
    /\ finality_synced' = FALSE
    /\ UNCHANGED <<curr_block_num, valset, last_block_num, checkpoint, headers, head,
                   loop_block, verified, led>>

SyncStep == Start \/ NextHeader \/ ChangeHeader \/ CheckProof \/ Finish \/ BlockMissing

Next == SyncStep \/ CallFails \/ NodeFinalizes \/ LoopCheckpoint \/ Restart

Spec == Init /\ [][Next]_vars

\* The task of sync is polled, and its calls to the node return.
FairSpec == Spec /\ WF_vars(SyncStep)
-----------------------------------------------------------------------------
\* Type correctness of the task, the shared State and the database.
TypeOK ==
    /\ pc \in {"start", "sync", "proof", "synced", "check_failed", "rpc_failed"}
    /\ curr_block_num \in 1..(MaxBlock + 1)
    /\ valset \in Valset
    /\ last_block_num \in Block
    /\ finality_synced \in BOOLEAN
    /\ checkpoint \in Checkpoint \cup {None}
    /\ headers \subseteq Block
    /\ head \in Block
    /\ loop_block \in Block
    /\ verified \subseteq AuthChange
    /\ led \in BOOLEAN
    /\ restarts \in 0..MaxRestarts

\* When finality_synced is set, the chain of trust from genesis has no gap: a
\* proof was checked for every set change up to the first header of this process,
\* by this process or by one whose checkpoint it resumed from.
SyncedIsVerified ==
    finality_synced => AuthChange \cap (1..last_block_num) \subseteq verified

\* Wherever the process was stopped and resumed, the check (context "Finality sync
\* check failed", sync_finality.rs:309) accepts what the nodes serve, unless the
\* subscription loop had stored a checkpoint with the set of a later block.
SyncAccepts == pc = "check_failed" => led

\* No process, in whatever order sync and the subscription loop write, puts the
\* checkpoint behind the one it found.
CheckpointKept ==
    [][ checkpoint # None => /\ checkpoint' # None
                            /\ checkpoint'.number >= checkpoint.number ]_vars

\* Sync ends, with finality_synced or an error, also when it starts past the block
\* at which it is to stop (the test is for equality, sync_finality.rs:263) because
\* the node is behind the one that the checkpoint came from.
SyncEnds ==
    (pc = "sync") ~> (pc \in {"synced", "rpc_failed", "check_failed", "start"})
-----------------------------------------------------------------------------
\* The parts of the inductive invariant.  Without a leading checkpoint, the set
\* that is held is in force at the block to follow; in any case every change before
\* that block was verified.
PhaseInv ==
    /\ finality_synced <=> pc = "synced"
    /\ pc = "proof" => curr_block_num \in AuthChange

TaskInv ==
    pc \in {"sync", "proof"} =>
        /\ led \/ valset = ValsetAt(curr_block_num)
        /\ AuthChange \cap (1..(curr_block_num - 1)) \subseteq verified

CheckpointInv ==
    checkpoint # None =>
        /\ led \/ checkpoint.valset = ValsetAt(checkpoint.number)
        /\ AuthChange \cap (1..(checkpoint.number - 1)) \subseteq verified

\* Neither writer is behind the checkpoint.
OrderInv ==
    /\ last_block_num <= loop_block
    /\ (checkpoint # None /\ pc \in {"sync", "proof"}) => checkpoint.number <= curr_block_num
    /\ (checkpoint # None /\ pc = "synced") => checkpoint.number <= loop_block + 1

IInv ==
    /\ TypeOK
    /\ PhaseInv
    /\ TaskInv
    /\ CheckpointInv
    /\ OrderInv
    /\ SyncedIsVerified
    /\ SyncAccepts
=============================================================================
