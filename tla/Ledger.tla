------------------------------- MODULE Ledger -------------------------------
(***************************************************************************)
(* The ledger node of apps/src/lib/node/ledger: the shell that the         *)
(* consensus engine drives over the ABCI channel (mod.rs), the write log   *)
(* of the tx and of the block, the in-memory storage of the open block,    *)
(* and the RocksDB store of committed blocks (storage/rocksdb.rs).         *)
(*                                                                         *)
(* Every RocksDB write is made with the WAL disabled, so a crash of the    *)
(* process loses what was not yet flushed: `db' is what the process sees,  *)
(* `durable' what a crash leaves.  After a restart the consensus engine    *)
(* asks GetInfo and replays the blocks of its block store above the height *)
(* the node reports.                                                       *)
(*                                                                         *)
(* Data is abstract: keys, values and addresses are model values, a tx is  *)
(* its fixed effect (what its code writes, how it ends, which VPs accept   *)
(* it), and the Merkle root of a storage is the storage itself.            *)
(***************************************************************************)
EXTENDS Naturals, Sequences

CONSTANTS
    Keys,          \* storage keys
    Vals,          \* storage values
    Addrs,         \* account addresses
    Owner,         \* Owner[k]: the address segment that leads key k
    Txs,           \* transactions
    TxKind,        \* how the tx's execution ends: "malformed", "trap", "run"
    TxWrites,      \* TxWrites[t][k]: what the tx code writes at key k
    TxVerifiers,   \* the verifiers the tx code inserts with insert_verifier
    VpAccepts,     \* VpAccepts[a]: the txs that a's validity predicate accepts
    Genesis,       \* the storage that Shell::new writes before any load
    MaxHeight,     \* the last height the consensus engine decides
    MaxBlockTxs,   \* the most txs in one block
    MaxRestarts,   \* the most crashes or shutdowns of the node
    InfoQueries,   \* whether Info requests also come outside the handshake
    Absent,        \* no value at a key
    Del,           \* a write-log delete
    NoWrite,       \* a key the write log has not touched
    NoRow          \* no block row at a height, no reply for a height

Heights == 1..MaxHeight
Log == [Keys -> Vals \cup {Del, NoWrite}]
Store == [Keys -> Vals \cup {Absent}]

ASSUME LedgerAssumption ==
    /\ MaxHeight \in Nat \ {0}
    /\ MaxBlockTxs \in Nat
    /\ MaxRestarts \in Nat
    /\ InfoQueries \in BOOLEAN
    /\ Owner \in [Keys -> Addrs]
    /\ TxKind \in [Txs -> {"malformed", "trap", "run"}]
    /\ TxWrites \in [Txs -> Log]
    /\ TxVerifiers \in [Txs -> SUBSET Addrs]
    /\ VpAccepts \in [Addrs -> SUBSET Txs]
    /\ Genesis \in Store
    /\ Absent \notin Vals /\ Del \notin Vals /\ NoWrite \notin Vals
    /\ Del # NoWrite
    /\ NoRow \notin Store

\* The blocks the consensus engine may decide.
Blocks == UNION {[1..n -> Txs] : n \in 0..MaxBlockTxs}

\* The RocksDB keys this model keeps apart: `chain_id', the `height' pointer
\* and, for each height, the block row (its `subspace/...' keys).
DbState == [chainId : BOOLEAN, height : 0..MaxHeight,
            rows : [Heights -> Store \cup {NoRow}]]

EmptyDb == [chainId |-> FALSE, height |-> 0, rows |-> [h \in Heights |-> NoRow]]

EmptyLog == [k \in Keys |-> NoWrite]

VARIABLES
    subspaces,    \* storage.block.subspaces (and the Merkle tree over them)
    blockHeight,  \* storage.block.height
    txLog,        \* the write log of the current tx
    blockLog,     \* the write log of the block (accepted txs)
    commitPc,     \* Shell::commit: "idle", "batched" or "failed"
    db,           \* the RocksDB contents the process reads
    durable,      \* the RocksDB contents a crash leaves (flushed)
    chain,        \* the consensus engine's block store: chain[h] are the txs
    host,         \* the consensus engine: "info", "init", "begin", "tx", "commit"
    nextH,        \* the height the consensus engine applies
    txi,          \* the index of the next tx of that block
    appHash,      \* appHash[h]: the root the shell last replied for height h
    restarts      \* crashes and shutdowns so far

shellVars == <<subspaces, blockHeight, txLog, blockLog, commitPc>>
hostVars == <<chain, host, nextH, txi, appHash>>
vars == <<subspaces, blockHeight, txLog, blockLog, commitPc, db, durable,
          chain, host, nextH, txi, appHash, restarts>>

-----------------------------------------------------------------------------
(* The write log (ledger::storage::write_log).                             *)

\* write / delete into a log, and commit_tx of the tx log into the block
\* log: the later modification of a key replaces the earlier one.
Stage(log, w) == [k \in Keys |-> IF w[k] = NoWrite THEN log[k] ELSE w[k]]

\* commit_block: each modification of the block log applied to storage.
ApplyLog(s, log) ==
    [k \in Keys |-> IF log[k] = NoWrite THEN s[k]
                    ELSE IF log[k] = Del THEN Absent ELSE log[k]]

\* get_keys: the keys the tx log and the block log touch.
ChangedKeys(tlog, blog) == {k \in Keys : tlog[k] # NoWrite \/ blog[k] # NoWrite}

-----------------------------------------------------------------------------
(* protocol::apply_tx.                                                     *)

\* Tx::try_from: the protobuf decodes and carries a timestamp; the model's
\* malformed txs are those that fail either check.
TxDecodes(t) == TxKind[t] # "malformed"

\* Decoding, then the tx code run over the write log.  A malformed tx fails
\* to decode before anything is written; a trapping one fails after its
\* writes reached the log.
ExecuteTx(t, tlog) ==
    IF ~TxDecodes(t) THEN tlog ELSE Stage(tlog, TxWrites[t])

\* The verifiers: the addresses leading the changed keys and those the tx
\* inserted; the tx is accepted when each of their VPs accepts it.
Accepted(t, tlog, blog) ==
    \A a \in {Owner[k] : k \in ChangedKeys(tlog, blog)} \cup TxVerifiers[t] :
        t \in VpAccepts[a]

\* What apply_tx returns: an error, or a TxResult accepted or not.
TxOutcome(t, tlog, blog) ==
    IF TxKind[t] # "run" THEN "error"
    ELSE IF Accepted(t, tlog, blog) THEN "accepted" ELSE "rejected"

-----------------------------------------------------------------------------
(* The shell (Shell in node/ledger/mod.rs) and RocksDB (rocksdb.rs).       *)

\* Shell::new over a reopened DB: storage::open's empty block storage, the
\* genesis accounts written straight into it, empty write log.
\* storage::open: RocksDB reopened, an empty block at height 0.
OpenStorage(d) ==
    /\ db' = d
    /\ blockHeight' = 0

ShellNew(d) ==
    /\ OpenStorage(d)
    /\ subspaces' = Genesis
    /\ txLog' = EmptyLog
    /\ blockLog' = EmptyLog
    /\ commitPc' = "idle"

\* read_last_block: the row at the `height' pointer.  No chain_id or no
\* height gives None; a pointer to a height whose row is missing is the
\* "essential data" error, which last_state also turns into None.
ReadLastBlock(d) ==
    IF d.chainId /\ d.height # 0 THEN d.rows[d.height] ELSE NoRow

\* Shell::last_state: load_last_state replaces the block storage by the
\* last committed block when there is one.
LastState ==
    IF ReadLastBlock(db) = NoRow
    THEN UNCHANGED <<subspaces, blockHeight>>
    ELSE /\ subspaces' = ReadLastBlock(db)
         /\ blockHeight' = db.height

\* The subspace keys write_block puts into a row: one put per key present
\* in storage; a key absent now keeps what an earlier put left at that row.
MergeRow(old, s) ==
    [k \in Keys |-> IF s[k] # Absent \/ old = NoRow THEN s[k] ELSE old[k]]

\* write_chain_id: the `chain_id' put (WAL disabled like every other).
WriteChainId(d) == [d EXCEPT !.chainId = TRUE]

\* Mutant: write_block puts the `height' pointer before the block's batch.
WriteBlockStepPointerFirst(d, i, h, s) ==
    IF i = 1 THEN [d EXCEPT !.height = h]
             ELSE [d EXCEPT !.rows[h] = MergeRow(@, s)]

\* write_block's two writes: first the batch of the block row, then the
\* `height' pointer, "after everything else is written".
WriteBlockStep(d, i, h, s) ==
    IF i = 1 THEN [d EXCEPT !.rows[h] = MergeRow(@, s)]
             ELSE [d EXCEPT !.height = h]

\* Mutant: Shell::apply_tx without the drop_tx of a rejected tx.
ShellApplyTxNoDrop(t) ==
    LET staged == ExecuteTx(t, txLog)
        outcome == TxOutcome(t, staged, blockLog)
    IN  \/ /\ outcome \in {"accepted", "rejected"}
           /\ blockLog' = Stage(blockLog, staged)
           /\ txLog' = EmptyLog
        \/ /\ outcome = "error"
           /\ txLog' = staged
           /\ UNCHANGED blockLog

\* Shell::apply_tx: commit_tx when the VPs accept, drop_tx when one rejects,
\* and nothing when apply_tx fails: the log stays as apply_tx left it.
ShellApplyTx(t) ==
    LET staged == ExecuteTx(t, txLog)
        outcome == TxOutcome(t, staged, blockLog)
    IN  \/ /\ outcome = "accepted"
           /\ blockLog' = Stage(blockLog, staged)
           /\ txLog' = EmptyLog
        \/ /\ outcome = "rejected"
           /\ txLog' = EmptyLog
           /\ UNCHANGED blockLog
        \/ /\ outcome = "error"
           /\ txLog' = staged
           /\ UNCHANGED blockLog

-----------------------------------------------------------------------------
(* The ABCI messages, in the order the consensus engine sends them.        *)

\* Mutant: the handshake resumes one height past the reported one.
GetInfoSkip ==
    /\ host = "info"
    /\ LastState
    /\ IF ReadLastBlock(db) = NoRow
       THEN host' = "init" /\ nextH' = 1
       ELSE host' = "begin" /\ nextH' = db.height + 2
    /\ UNCHANGED <<txLog, blockLog, commitPc, db, durable, chain, txi,
                   appHash, restarts>>

\* Mutant: the GetInfo reply drops last_state's result, so the engine
\* starts over from InitChain on the storage the shell loaded.
GetInfoNoReply ==
    /\ host = "info"
    /\ LastState
    /\ host' = "init" /\ nextH' = 1
    /\ UNCHANGED <<txLog, blockLog, commitPc, db, durable, chain, txi,
                   appHash, restarts>>

\* GetInfo in the handshake: the engine replays from the reported height,
\* after InitChain when the node reports none.
GetInfo ==
    /\ host = "info"
    /\ LastState
    /\ IF ReadLastBlock(db) = NoRow
       THEN host' = "init" /\ nextH' = 1
       ELSE host' = "begin" /\ nextH' = db.height + 1
    /\ UNCHANGED <<txLog, blockLog, commitPc, db, durable, chain, txi,
                   appHash, restarts>>

\* InitChain: set_chain_id writes `chain_id' to the DB.
InitChain ==
    /\ host = "init"
    /\ db' = WriteChainId(db)
    /\ host' = "begin"
    /\ UNCHANGED <<shellVars, durable, chain, nextH, txi, appHash, restarts>>

\* BeginBlock of a block of the store (replay) or of a newly decided one:
\* storage.begin_block sets the block height.
BeginBlock ==
    /\ host = "begin"
    /\ nextH \in Heights
    /\ \/ nextH <= Len(chain) /\ UNCHANGED chain
       \/ nextH = Len(chain) + 1 /\ \E b \in Blocks : chain' = Append(chain, b)
    /\ blockHeight' = nextH
    /\ host' = "tx"
    /\ txi' = 1
    /\ UNCHANGED <<subspaces, txLog, blockLog, commitPc, db, durable, nextH,
                   appHash, restarts>>

\* ApplyTx of the block's next tx.
ApplyTx ==
    /\ host = "tx"
    /\ txi <= Len(chain[nextH])
    /\ ShellApplyTx(chain[nextH][txi])
    /\ txi' = txi + 1
    /\ UNCHANGED <<subspaces, blockHeight, commitPc, db, durable, chain, host,
                   nextH, appHash, restarts>>

\* EndBlock: Shell::end_block does nothing.
EndBlock ==
    /\ host = "tx"
    /\ txi > Len(chain[nextH])
    /\ host' = "commit"
    /\ UNCHANGED <<shellVars, db, durable, chain, nextH, txi, appHash, restarts>>

\* CommitBlock, first part: write_log.commit_block into storage, then
\* storage.commit's write_block batch; a failed batch write ends write_block
\* with an error that Shell::commit only logs.
CommitBlock ==
    /\ host = "commit"
    /\ commitPc = "idle"
    /\ subspaces' = ApplyLog(subspaces, blockLog)
    /\ blockLog' = EmptyLog
    /\ \/ /\ db' = WriteBlockStep(db, 1, blockHeight, subspaces')
          /\ commitPc' = "batched"
       \/ /\ UNCHANGED db
          /\ commitPc' = "failed"
    /\ UNCHANGED <<blockHeight, txLog, durable, hostVars, restarts>>

\* CommitBlock, second part: the `height' put (which may fail too) and the
\* reply of the Merkle root.
CommitHeight ==
    /\ host = "commit"
    /\ commitPc # "idle"
    /\ \/ commitPc = "batched" /\ db' = WriteBlockStep(db, 2, blockHeight, subspaces)
       \/ UNCHANGED db
    /\ appHash' = [appHash EXCEPT ![nextH] = subspaces]
    /\ commitPc' = "idle"
    /\ host' = "begin"
    /\ nextH' = nextH + 1
    /\ UNCHANGED <<subspaces, blockHeight, txLog, blockLog, durable, chain, txi,
                   restarts>>

\* An Info request outside the handshake (the engine's abci_info RPC) is
\* served by the same Shell::last_state.
InfoQuery ==
    /\ InfoQueries
    /\ host # "info"
    /\ commitPc = "idle"
    /\ LastState
    /\ UNCHANGED <<txLog, blockLog, commitPc, db, durable, hostVars, restarts>>

\* Shell::mempool_validate: Ok exactly when the bytes decode as a Tx.
MempoolValidate(t) == TxDecodes(t)

\* Shell::dry_run_tx: protocol::apply_tx over a clone of the write log,
\* with a fresh gas meter, against the storage it only reads.
DryRunTx(t) == TxOutcome(t, ExecuteTx(t, txLog), blockLog)

\* A CheckTx request (MempoolValidate): the reply is computed and sent,
\* and no state of the shell changes.
CheckTx ==
    /\ host # "info"
    /\ commitPc = "idle"
    /\ \E t \in Txs : MempoolValidate(t) \in BOOLEAN
    /\ UNCHANGED vars

\* A Query request: only the path "dry_run_tx" is answered, by a dry run
\* of the data as a tx; the clone is dropped and no state changes.
AbciQuery ==
    /\ host # "info"
    /\ commitPc = "idle"
    /\ \E t \in Txs : DryRunTx(t) \in {"accepted", "rejected", "error"}
    /\ UNCHANGED vars

-----------------------------------------------------------------------------
(* The environment: RocksDB flushes, crashes and shutdowns.                *)

\* RocksDB flushes its memtable (in the background, or when dropped).
Flush ==
    /\ durable # db
    /\ durable' = db
    /\ UNCHANGED <<shellVars, db, hostVars, restarts>>

\* The process dies: the memtable is lost, the shell restarts with
\* Shell::new and the consensus engine starts its handshake again.
Crash ==
    /\ restarts < MaxRestarts
    /\ restarts' = restarts + 1
    /\ ShellNew(durable)
    /\ host' = "info"
    /\ UNCHANGED <<durable, chain, nextH, txi, appHash>>

\* Terminate: the shell leaves its loop and RocksDB is flushed when dropped;
\* the node is then started again.
Terminate ==
    /\ restarts < MaxRestarts
    /\ commitPc = "idle"
    /\ restarts' = restarts + 1
    /\ durable' = db
    /\ ShellNew(db)
    /\ host' = "info"
    /\ UNCHANGED <<chain, nextH, txi, appHash>>

\* The node stops and the operator runs `ledger reset': remove_dir_all of
\* the DB, then tendermint::reset of the engine's state.  The process may
\* end between the two, and the engine then keeps its blocks and replays
\* them all onto the empty DB.
Reset ==
    /\ restarts < MaxRestarts
    /\ restarts' = restarts + 1
    /\ durable' = EmptyDb
    /\ ShellNew(EmptyDb)
    /\ host' = "info"
    /\ \/ /\ chain' = << >>
          /\ nextH' = 1
          /\ appHash' = [h \in Heights |-> NoRow]
       \/ UNCHANGED <<chain, nextH, appHash>>
    /\ UNCHANGED txi

\* The engine has decided and applied all MaxHeight blocks.
Halted ==
    /\ host = "begin"
    /\ nextH = MaxHeight + 1
    /\ UNCHANGED vars

-----------------------------------------------------------------------------
Init ==
    /\ subspaces = Genesis
    /\ blockHeight = 0
    /\ txLog = EmptyLog
    /\ blockLog = EmptyLog
    /\ commitPc = "idle"
    /\ db = EmptyDb
    /\ durable = EmptyDb
    /\ chain = << >>
    /\ host = "info"
    /\ nextH = 1
    /\ txi = 1
    /\ appHash = [h \in Heights |-> NoRow]
    /\ restarts = 0

Next ==
    \/ GetInfo \/ InitChain \/ BeginBlock \/ ApplyTx \/ EndBlock
    \/ CommitBlock \/ CommitHeight \/ InfoQuery \/ CheckTx \/ AbciQuery
    \/ Flush \/ Crash \/ Terminate \/ Reset \/ Halted

Spec == Init /\ [][Next]_vars

-----------------------------------------------------------------------------
(* Properties.                                                             *)

\* Every variable has its type.
TypeOK ==
    /\ subspaces \in Store
    /\ blockHeight \in 0..MaxHeight
    /\ txLog \in Log
    /\ blockLog \in Log
    /\ commitPc \in {"idle", "batched", "failed"}
    /\ db \in DbState
    /\ durable \in DbState
    /\ chain \in Seq(Blocks)
    /\ Len(chain) <= MaxHeight
    /\ host \in {"info", "init", "begin", "tx", "commit"}
    /\ nextH \in 1..MaxHeight + 1
    /\ txi \in 1..MaxBlockTxs + 1
    /\ appHash \in [Heights -> Store \cup {NoRow}]
    /\ restarts \in 0..MaxRestarts

\* The block log the txs of block b leave when each is applied alone to an
\* empty tx log: an accepted tx's writes are merged, any other tx has no
\* effect (the spec: "tx-local errors never mutate committed storage").
RefBlockLog(b) ==
    LET f[i \in 0..Len(b)] ==
            IF i = 0 THEN EmptyLog
            ELSE IF TxOutcome(b[i], ExecuteTx(b[i], EmptyLog), f[i - 1]) = "accepted"
                 THEN Stage(f[i - 1], TxWrites[b[i]])
                 ELSE f[i - 1]
    IN  f[Len(b)]

\* The storage after the blocks 1..h of the consensus engine's store.
RefState(h) ==
    LET r[i \in 0..h] ==
            IF i = 0 THEN Genesis ELSE ApplyLog(r[i - 1], RefBlockLog(chain[i]))
    IN  r[h]

\* Crash safety and determinism of commit: the block row the DB's `height'
\* pointer names, before and after any crash, and every Merkle root the
\* shell replied to Commit are the storage obtained by applying the decided
\* blocks' accepted txs to genesis, whatever crashes, lost memtables,
\* replays and failed DB writes happened in between (write_block,
\* read_last_block, Shell::commit, Shell::apply_tx).
StateMatchesChain ==
    /\ db.height # 0 => db.rows[db.height] = RefState(db.height)
    /\ durable.height # 0 => durable.rows[durable.height] = RefState(durable.height)
    /\ \A h \in Heights : appHash[h] # NoRow => appHash[h] = RefState(h)

\* No partially visible block: the `height' pointer, in the DB the process
\* reads and in what a crash leaves of it, names a height whose row was
\* written (write_block puts the pointer after the batch).
HeightPointsToBlock ==
    /\ db.height # 0 => db.rows[db.height] # NoRow
    /\ durable.height # 0 => durable.rows[durable.height] # NoRow

\* The block row the `height' pointer of a DB names, NoRow at height 0.
TopRow(d) == IF d.height = 0 THEN NoRow ELSE d.rows[d.height]

\* The block store the ledger implements: the last committed block is the
\* one the DB's `height' pointer names, the persisted one the one the
\* pointer of what a crash leaves names.
BS == INSTANCE BlockStore WITH
        top <- db.height, row <- TopRow(db),
        safeTop <- durable.height, safeRow <- TopRow(durable),
        Rows <- Store

\* Refinement: the DB, as write_block, read_last_block, a flush, a crash
\* and `ledger reset' change it, only ever commits a block whole and at a
\* higher height, and a crash brings back the last flushed block.
BlockStoreRefined == BS!Spec

\* The RocksDB `height' pointer the process reads only goes down at a crash,
\* to the pointer that was flushed, or at `ledger reset', to 0: a replay,
\* a failed write or a handshake never moves the node's last block back.
PointerOnlyForward ==
    [][db'.height < db.height =>
          db'.height = durable.height \/ db'.height = 0]_vars

=============================================================================
