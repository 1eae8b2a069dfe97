# TLA+ verification of the Anoma ledger node

This directory holds the TLA+ models of the Anoma node in `src/`, the TLC
configurations that check them and the TLAPS proofs about them. `PROJECT.json`
lists the components, runs, mutants, the source lines each definition models,
the findings, the hazards and the theorems.

## The system

| Part | Source | What it does |
|---|---|---|
| Shell | `apps/src/lib/node/ledger/mod.rs` | One thread that receives the ABCI messages of the consensus engine (Tendermint) over an mpsc channel and handles them one at a time: GetInfo, InitChain, MempoolValidate, BeginBlock, ApplyTx, EndBlock, CommitBlock, AbciQuery(`dry_run_tx`), Terminate. |
| Write log, `protocol::apply_tx` | outside `src/` (described in `spec.md`) | The tx log and block log, with `commit_tx`, `drop_tx` and `commit_block`. Running a tx's WASM, then its verifiers' VPs. |
| Block store | `apps/src/lib/node/ledger/storage/rocksdb.rs` | `write_block` puts the block row (`<h>/tree/...`, `<h>/hash`, `<h>/subspace/<key>`, `<h>/address_gen`) in one batch and then the `height` pointer, all with the WAL disabled. `read_last_block` reads the row the pointer names. The DB is flushed on drop. |
| Matchmaker | `apps/src/lib/node/gossip/intent_gossiper/matchmaker.rs`, `wasm/matchmaker_template` | Runs the matchmaker WASM on each new intent. Its host calls send InjectTx, RemoveIntents and UpdateData over a capacity-100 channel to an event loop that broadcasts txs to the ledger. |
| Token | `vm_env/src/token.rs`, `wasm/txs/tx_transfer` | `token::vp` checks that a tx's balance changes sum to zero and that each debited owner is a verifier. `token::transfer`, called by the `tx_transfer` WASM, moves an amount between two balance keys. |
| Prefix iteration | `rocksdb.rs` (`key_comparator`, `iter_prefix`, `PersistentPrefixIterator`), `shared/src/vm/prefix_iter.rs` | The DB orders keys with a custom comparator. `iter_prefix` seeks to `<h>/subspace/<prefix>` and stops at that string with its last byte incremented. A WASM run holds its iterators in a table keyed by increasing ids. |
| VM glue | `vm_env/src/imports.rs`, `shared/src/vm/*` | Buffer exchange between the guest and the host, and WASM validation. |

How the parts interact: the engine drives the shell. The shell runs txs over the write
log and, at commit, moves the block log into the block's storage and writes it to
RocksDB. After a restart, the engine asks GetInfo and replays, from its own block
store, every block above the height the node reports. The matchmaker reaches the
ledger only through txs broadcast to the engine.

## Modules

- **`Ledger.tla`** models the shell, the write log, `protocol::apply_tx` at the level
  of outcomes, the RocksDB store and the consensus engine's side of the ABCI
  protocol, including crashes, flushes and replay.
  - **State.**
    - `subspaces` and `blockHeight`: the open block (`storage.block`).
    - `txLog` and `blockLog`: the write log.
    - `commitPc`: which of `Shell::commit`'s two DB writes is next.
    - `db`: what RocksDB returns to the process.
    - `durable`: what survives a crash. With the WAL off, a crash loses what was not flushed.
    - `chain`: the engine's block store.
    - `host`, `nextH` and `txi`: where the engine is in its loop.
    - `appHash[h]`: the last Merkle root the shell replied for height `h`. A root is abstracted to the storage it summarises.
    - `restarts`.
  - **Actions.** Each of these is the whole handler of a message:
    - `GetInfo`: `last_state`, including `load_last_state`.
    - `InitChain`: `write_chain_id` (`WriteChainId`).
    - `BeginBlock`: a new block or a replayed one.
    - `ApplyTx`: `Shell::apply_tx`, with its three outcomes.
    - `EndBlock`.
    - `CommitBlock`: `commit_block` and the `write_block` batch, which may fail. The error is only logged.
    - `CommitHeight`: the pointer put, which may fail, and the reply.
    - `InfoQuery`: an Info request outside the handshake. It is enabled only when `InfoQueries` is TRUE.
    - `CheckTx` and `AbciQuery`: the `MempoolValidate` and `AbciQuery` arms. `mempool_validate` only decodes the tx (`TxDecodes`, from `Tx::try_from`). `dry_run_tx` runs `apply_tx` over a clone of the write log and a shared reference to storage. Both reply and change nothing: they are stuttering steps, allowed between any two messages outside the handshake.
    - `Terminate`: leave the loop, the flush on drop, and a restart.
    - `Flush`: a background memtable flush.
    - `Crash`: the process dies and restarts with `Shell::new` (`storage::open` is `OpenStorage`) over the durable state.
    - `Reset`: the node stops and `ledger reset` removes the DB and then resets the engine. The process may end between the two steps. The engine then keeps its blocks and replays all of them onto the empty DB.

    A tx is abstract: it has what its code writes (`TxWrites`), how it ends
    (`TxKind`: it fails to decode, it traps after writing, or it runs) and which VPs
    accept it (`VpAccepts`). The verifiers are the owners of the keys the tx log and the
    block log changed (`get_keys`), plus the explicit ones.
  - **Properties.**
    - `TypeOK`.
    - `HeightPointsToBlock`: the pointer, in `db` and in `durable`, names a written row.
    - `StateMatchesChain`: the row at the pointer, before and after any crash, and every root replied, equal `RefState(h)`. `RefState(h)` is genesis with the accepted txs of blocks 1..h applied, each tx run alone over an empty tx log. It is defined by recursive functions, not RECURSIVE operators.
    - `BlockStoreRefined`: the refinement `BS!Spec` (see `BlockStore.tla` below).
    - `PointerOnlyForward`: an action property. The DB pointer moves down only to what a crash left or to 0. It is checked with Info requests allowed, where the refinement does not hold.
  - **Mutants.** `GetInfoSkip`, `GetInfoNoReply`, `WriteBlockStepPointerFirst` and `ShellApplyTxNoDrop` are plausible bugs of the mapped definitions. The check swaps each one in and requires TLC to find the property it targets violated.
- **`MC_Ledger.tla`** is the TLC instance. It has two keys owned by two accounts and these txs:
  - `t1` writes `k1` and is accepted by both VPs.
  - `t2` deletes `k2` and is accepted only by `a2`'s VP. It is rejected after `t1` in the same block (then `k1` is a changed key) and accepted otherwise.
  - `t3` does not decode.
  - `t4` writes `k2` and then traps.
- **`BlockStore.tla`** is the abstract specification of what the block store promises the node. `top` and `row` are the last committed block (its height and storage), and `safeTop` and `safeRow` are the block a crash brings back. Its four actions:
  - `Publish`: a block above `top` becomes the last one, with a complete row;
  - `Persist`: the visible block is made durable;
  - `Restore`: a crash brings back the durable block;
  - `Wipe`: a reset empties both.

  `Ledger.tla` instantiates it as `BS`. The refinement mapping:
  - `top <- db.height` and `row <- TopRow(db)`: the row the DB's `height` pointer names;
  - `safeTop <- durable.height` and `safeRow <- TopRow(durable)`: the same for what a crash leaves;
  - `Rows <- Store`.

  Under this mapping, the ledger's actions match abstract steps as follows:
  - `CommitHeight`'s pointer put is `Publish`;
  - `Flush` and `Terminate` are `Persist`;
  - `Crash` is `Restore`;
  - `Reset` is `Wipe`;
  - every other step, including `CommitBlock`'s batch, is a stutter. The batch writes the row of a height above the pointer.
- **`LedgerProofs.tla`**, **`LedgerRefinement.tla`**, **`TokenProofs.tla`**, **`TokenTransferProofs.tla`** and **`MatchTxProofs.tla`** hold the TLAPS proofs. `BlockStore.tla` also proves its own invariant.
- **`Matchmaker.tla`** models the matchmaker host (`matchmaker.rs`) and the template matchmaker program (`wasm/matchmaker_template`).
  - **State.**
    - `pending`: the intents gossip has not delivered yet.
    - `mempool`: `IntentMempool`.
    - `data`: the graph the program stored with `update_data`. It is a sequence of intents, in petgraph's node-index order, plus a set of edges.
    - `chan`: the bounded mpsc channel of `MatchmakerMessage`s, with capacity `Cap`.
    - `submitted`: the txs broadcast.
    - `mm`: `"ok"`, `"panicked"` or `"hung"`.
  - **Actions.**
    - `TryMatchIntent` is the whole `try_match_intent`:
      - the filter;
      - `mempool.put`;
      - decoding the intent, where an undecodable one (`Malformed`) panics the runner at `unwrap`;
      - one run of `add_intent`, whose host calls `try_send(..).expect` each command, so a full channel panics.
    - `add_intent` is modelled by its parts:
      - `AddNode` and `FindToUpdateNode`: the DFS from node 0 and the `if / else if` edge choice;
      - `Scc` and `Cycles`: tarjan, with the order of the components chosen freely;
      - `SortLoop`: `sort_cycle`, which spins forever on a non-simple SCC;
      - `TxData` and `Transfer` (`create_and_send_tx_data`, `create_transfer`). They sit in **`MatchTx.tla`**, which `Matchmaker` extends, together with `Balanced` and the ring predicates `PaysPredecessor` and `ClosesRing`. `MatchTx` reaches no RECURSIVE operator, so it can be reasoned about in TLAPS;
      - `FindMatchAndRemoveNode` and `RemoveNode`: removal in descending index order, with petgraph's swap-remove.
    - `HandleInjectTx`, `HandleRemoveIntents` and `HandleUpdateData` are `handle_mm_message`'s three arms.
  - **Spec-modelled switches.** The gossip event loop is not in `src/`, so two things are switches:
    - `DrainFirst`: whether every queued command is handled before the next intent;
    - `RemovesMatched`: whether the program calls `remove_intents`. The template never does, so `FALSE` is the code. Spec scenario 6 says the matched intents leave the mempool. `mm_matching` runs with `TRUE` only so that the host's `RemoveIntents` handler runs and a run queues its largest set of commands for `NoPanic`. No property of that run is about the mempool.
  - **Properties.**
    - `TypeOK`: it also includes that petgraph's index table is injective and the channel within its bound.
    - `MatchSound`: the matcher never hangs, and every tx it submits is balanced. Each matched intent sends exactly what it sells to someone who buys it, and receives exactly what it buys.
    - `GraphTracksLiveIntents`: when the channel is empty, the graph's nodes are exactly the accepted intents not yet matched.
    - `NoPanic`.
    - `MatchedLeaveMempool`: a matched intent leaves the mempool, as spec scenario 6 says. The template never calls `remove_intents`, so this is checked only by the violation run `mm_no_remove` (finding 5).
    - `NoMissedMatch`: no trade cycle is left among the unmatched intents.
- **`MC_Matchmaker.tla`** has these intents:
  - a ring: A sells x and buys z, B sells y and buys x, C sells z and buys y;
  - D, which the filter rejects, and E;
  - `MCTwin`: a ring in which two intents sell the same offer.
- **`PrefixIter.tla`** models prefix iteration.
  - **State.** `index` and `iterators` are `PrefixIterators`. `ret` is the last `iter_next` result. `yielded` is a history: what each iterator has returned.
  - **The comparator and the DB.**
    - A DB key is a string of byte values. The DB is read-only during a run, so its keys are a constant.
    - `KeyComparator` follows `key_comparator`:
      - when both keys start with a `u64`, they compare by height and then segment by segment (`SegsCmp`);
      - otherwise they compare byte-wise (`StrCmp`).
    - `IterPrefix` takes the keys between `LowerBound` and `UpperBound`, sorted with the comparator (`RangeOf`).
    - `PersistentNext` skips keys without the `<h>/subspace/` prefix and strips it.
  - **Actions.**
    - `OpenIter`: the guest's `tx::iter_prefix`, the host's `iter_prefix`, and `PrefixIterators::insert` (`NextId` is `next_id`).
    - `GuestNext`: one turn of the guest's `for (key, value) in iter` loop. `KeyValIterator::next` returns `None` at the end, and also when a value does not decode as `T`. That ends the loop, and it stays ended. `loopGot` is what the loop body received, and `loopDone` the loops that ended.
    - `IterNext`: `PrefixIterators::next` called with an id no loop holds. An unknown id gives `None`.
  - **Properties.**
    - `KeyOrderTotal`: the comparator is antisymmetric, separating and transitive on the DB's keys and the bounds in use.
    - `IterYieldsPrefixRange`: an iterator yields, in segment order, exactly the keys of its height whose string starts with the prefix's string.
    - `SegmentPrefixOnly`: the spec's segment-prefix reading.
- **`MC_PrefixIter.tla`** has:
  - keys at heights 1, 2 and 10, so that numeric order and string order differ;
  - keys `p/0`, `p/1`, `p0` and `q` under prefixes `p` and `p/0`;
  - keys outside the subspace (`t/r`, `ha`, `c`, `he`) that sort between the bounds;
  - `BadValues`: at height 10, `p/0` holds bytes that do not decode, and `p/1` follows it.
- **`Token.tla`** models the token. A step is one whole tx: its code runs over the write log, its verifiers are discovered, the token VP judges it, and its writes are committed or dropped.
  - **State.** `balance` is what each owner's balance key holds: an Amount, nothing, or bytes that do not decode as an Amount. `last` is a history of the last tx and its verdict.
  - **Amounts.** An `Amount` has `W` bits.
  - **Actions.**
    - `TxTransfer` is `tx_transfer` calling `token::transfer`. `TransferTraps` says when `transfer` traps: the source is absent or undecodable (`unreachable!`), or the spend or the receive traps. `TransferWrites` reads the source (none: `unreachable!`, a trap), spends, reads the destination (default 0), receives, and writes the source then the destination. In a self-transfer, the second write wins over a stale read.
    - `RawTx` is a tx whose code calls `tx::write`, `tx::delete` and `tx::insert_verifier` (`TxWrite`, `TxDelete`, `InsertVerifier`) on any balances and addresses.
    - The VP reads with `read_pre` and `read_post` (`ReadPost`: the write log's value, or else the committed one).
    - `TokenVp` is `token::vp`: each `Change` is `post - pre` in a wide integer, read with `unwrap_or_default`.
  - **Not in `src/`, and so constants:**
    - `Wraps`: whether `Amount::spend` and `receive` wrap or trap on under/overflow;
    - `AddrRule`: the addresses a balance key names (`find_addresses`: the token and the owner).
  - **Owners' VPs.** The owners' own VPs (`vp_user`) are taken to accept, as in the spec's transfer scenario.
  - **Properties.**
    - `SupplyConserved`: the sum of the decodable balances never changes.
    - `TransferExact`: an action property. A transfer is committed exactly when the source covers the amount, the destination has room, and source and destination differ or the amount is 0. Then it moves exactly that amount. A self-transfer of 0 writes the balance back unchanged: the VP sees a zero change and accepts, and the step changes nothing.
  - **Assumption.** `TokenAssumption` also says that `Absent`, `Garbage` and `Trap` are not Amounts, as in the code, where they are `None`, bytes that fail `try_from_slice`, and a panic.
- **`MC_Token.tla`** has:
  - owners holding 3, 1 and undecodable bytes, with 2-bit amounts;
  - transfers of 1 and 3;
  - a mint, a move onto the undecodable balance and a delete.

## Runs

| Run | cfg | Expect | Shows |
|---|---|---|---|
| `ledger_crash_safety` | `MC_Ledger.cfg` | pass | Two heights, blocks of up to 2 txs from {t1,t2,t3}, up to 2 crashes, shutdowns or resets (one of which may stop between removing the DB and resetting the engine). Any crash point, flush point and failing DB write leaves a sound pointer, and every committed row and reply equals the chain's state. The DB implements `BlockStore` (about 149k states). |
| `ledger_info_queries` | `MC_Ledger_infopass.cfg` | pass | With Info requests at any point, the pointer still always names a written row. It moves down only at a crash, to the flushed pointer, or at a reset, to 0 (`PointerOnlyForward`). |
| `ledger_trap_leak` | `MC_Ledger_trap.cfg` | violation | Finding 1. |
| `mm_matching` | `MC_Matchmaker.cfg` | pass | The ring, a filtered intent and an unrelated one arrive in every order, with a channel of capacity 3 drained before each intent. The txs are balanced, the graph holds exactly the unmatched intents and the channel never overflows. The program there also sends `RemoveIntents` (`RemovesMatched = TRUE`), which the template does not: that is the most commands a run queues. |
| `mm_stale_data` | `MC_Matchmaker_stale.cfg` | violation | Finding 2. |
| `mm_ring_order` | `MC_Matchmaker_ring.cfg` | violation | Finding 3. |
| `mm_twin_ring` | `MC_Matchmaker_twin.cfg` | violation | Finding 4. |
| `mm_no_remove` | `MC_Matchmaker_noremove.cfg` | violation | Finding 5. |
| `prefix_iteration` | `MC_PrefixIter.cfg` | pass | Two interleaved iterators over heights 1 and 10. The comparator is a total order there, and each iterator yields, in order, exactly the keys whose string starts with the prefix. |
| `prefix_segment` | `MC_PrefixIter_segment.cfg` | violation | Finding 6. |
| `token_supply` | `MC_Token.cfg` | pass | With wrapping 2-bit Amounts, no sequence of transfers (to oneself, overdrawn or overflowing) or of hand-written txs changes the supply. |
| `token_wrap_transfer` | `MC_Token_wrap.cfg` | violation | Finding 7. |

Every property of a passing run has a mutant in `PROJECT.json`: a plausible bug of a mapped definition, defined just before it, that makes TLC find the property violated.

**Why the bounds are enough.**
- **Ledger.**
  - Two heights allow a crash during block 2 after block 1 was replied but not flushed. Block 1 is then replayed and its row rewritten.
  - Two txs per block are the least that make acceptance depend on order.
  - Two restarts allow a crash during a replay.
  - Flushes, crashes and DB failures are free to happen at every step.
- **Matchmaker.**
  - Three intents are the smallest ring that needs the DFS and the swap-remove of several nodes. A ring is the spec's scenario 6.
  - One filtered intent and one unrelated intent exercise the filter and a node left in the graph.
  - A channel capacity of 3 is the largest that one run fills, so the bound is met but not passed. A run sends at most InjectTx, RemoveIntents and UpdateData.
  - Four intents in the twin ring are the least that make a non-simple component.
- **Prefix iteration.**
  - Heights 1 and 10 are where numeric and string order disagree.
  - The key `p0` is where string and segment prefixes disagree.
  - Two iterators interleave.
  - The undecodable `p/0` has a key after it under the same prefix, so `GuestNext` takes its stop-at-a-bad-value branch with keys left behind.
- **Token.** With 2 bits, every overdraft, overflow and double wrap occurs among owners holding 3 and 1. The undecodable bytes make `read` return `None` on both sides.

**Deadlock.** Deadlock is checked everywhere.
- `Halted` is the Ledger engine idling after the last height.
- `Idle` is the matchmaker with nothing left to do, or stopped.
- The prefix and token models are never stuck: `iter_next` and a transfer are always enabled.

**Fairness.** No fairness is assumed. The properties are all safety. The only progress question the code raises is the matchmaker's `sort_cycle` loop, and there the model shows the loop never returns: it is a state (`mm = "hung"`) that `MatchSound` excludes.

## Findings

1. **A trapped tx's writes leak into the next tx** (`mod.rs:327`). When `protocol::apply_tx` returns `Err` after the tx code wrote (for instance, the gas runs out between `transfer`'s two writes), `Shell::apply_tx` calls neither `drop_tx` nor `commit_tx`. The next accepted tx commits the leftover writes. A node that crashes in between loses them instead, so replicas can disagree on the app hash. TLC's trace: block `<<t4, t1>>` commits `k2 := v2`.
2. **Stale matchmaker data** (`matchmaker.rs:122`). Each run of the program starts from `self.data`, which changes only when the loop handles the previous run's `UpdateData`. If the next intent is handled first, the second run's `UpdateData` drops the first intent from the graph for good.
3. **A ring is matched or missed depending on arrival order** (`lib.rs:65`). `find_to_update_node` searches only from node 0. With the order A, C, B, the ring of scenario 6 is never matched.
4. **A ring with two equal offers hangs or unbalances the matcher** (`lib.rs:149`). A strongly connected component that is not a simple cycle makes `sort_cycle` loop forever, or build a tx in which an intent pays what it does not sell.
5. **Matched intents are never removed** (`lib.rs:176`). The template never calls `remove_intents`, while scenario 6 expects `RemoveIntents`.
6. **`iter_prefix` has string-prefix semantics** (`rocksdb.rs:366`). The prefix `p` also yields `p0`. The spec treats a prefix as whole segments.
7. **A double wrap moves tokens backwards** (`token.rs:57`). If `Amount` wraps, a transfer of 3 from B (holding 1) to A (holding 3), with 2-bit amounts, leaves both at 2. The changes sum to zero, so the token VP accepts. The owners' own VPs are the only guard left. With trapping arithmetic, the transfer is dropped.

**Further observations.**
- **Info mid-block.** Info in the middle of a block reloads the committed state (`mod.rs:380`). `GetInfo` runs `load_last_state`, which replaces the open block's height and subspaces. `StateMatchesChain` fails on `MC_Ledger_infopass.cfg` when it is added to the cfg. Whether Tendermint forwards such queries depends on the ABCI server, which is not in `src/`, so only `HeightPointsToBlock` is kept for that configuration. `BlockStoreRefined` fails there too. An Info request between BeginBlock and Commit sets `blockHeight` back to the committed height, and the batch then rewrites, in place, the row the pointer already names. TLC's trace shows row 1 changed by block 2's writes. For this reason the refinement theorem assumes `~InfoQueries`.
- **Swaps.** A plain two-intent swap is never matched, because of `lib.rs:77`'s `else if`. `NoMissedMatch` fails on it as it does on the ring order.
- **Malformed intents.** An intent that passes the filter but does not decode panics the matchmaker runner at `matchmaker.rs:128`. `NoPanic` fails with `Malformed` non-empty.
- **A guest loop stops at an undecodable value** (`imports.rs:33`). `KeyValIterator::next` returns the same `None` for a value that does not decode as for the end of the range. With `p/0` undecodable, a tx's loop over the prefix `p` ends there and never sees `p/1`. `GuestNext` models this branch, but no run states it as a property: a property that holds in the code could only restate it.
- **Verifier discovery.** With the spec's leading-segment rule (`AddrRule = "leading"`) and balance keys that start with the token, a debited owner is never a verifier, so the token VP rejects every transfer. If balance keys start with the owner instead, the token VP never runs at all. The model uses `find_addresses` (all the addresses in a key).

## Proofs (checked by `tlapm`)

### `LedgerProofs.tla`

- **`TypeCorrect`: `Spec => []TypeOK`, for every value of the constants allowed by `LedgerAssumption`.** `TypeOK` is not inductive on its own. The strengthening `TypeInv` adds:
  - The DB pointers never pass the length of the engine's store.
  - While a block is applied or committed, `nextH` and `blockHeight` name a block of the store.
  - `txi` stays within the block.
  - `commitPc # "idle"` only while the engine waits for the commit.

  The step proof has one step per action. It uses the lemmas `BlockIsSeq`/`ChainBlock` (a decided block is a sequence of at most `MaxBlockTxs` txs), `StageType`, `ExecuteTxType` and `MergeRowType`.
- **`PointerSafe`: `Spec => []HeightPointsToBlock`.** The strengthening `PointerInv` adds `commitPc = "batched" => db.rows[blockHeight] # NoRow`: the pointer put is safe only because the batch before it wrote the same height's row. The proof goes through these points:
  - `CommitBlock` writes a storage, never `NoRow` (`NoRow \notin Store`).
  - `CommitHeight` moves the pointer only to that row.
  - `Flush`, `Crash` and `Terminate` copy whole DB states.

  - `Reset` empties both DB states, and `CheckTx`/`AbciQuery` change nothing.

### `LedgerRefinement.tla`

- **`Refinement`: `~InfoQueries => (Spec => BlockStoreRefined)`, for every value of the constants.** The proof has three lemmas:
  - `InitRefines`: the empty DB is the empty block store.
  - `NextRefInv`: the strengthening `RefInv` is inductive when `~InfoQueries` holds.
  - `NextRefines`: every step is an abstract step or a stutter. It has one step per action.

  TLC checked `RefInv` as an invariant on `MC_Ledger.cfg` before it was proved. `RefInv` is `MonoInv` plus one conjunct. `MonoInv` holds with Info requests too, and beyond `PointerInv` it says:
  - a nonzero pointer, in `db` and in `durable`, comes with the chain id written;
  - in `"init"`, the DB is at height 0;
  - while the engine runs blocks, the chain id is written and `nextH > db.height`;
  - while a block is applied or committed, `db.height <= blockHeight <= nextH`.

  `RefInv` adds that, while a block is applied or committed, `blockHeight = nextH`.

  Together these make `CommitHeight` a `Publish`: it is a forward move to a row in `Store`. The lemma `BatchKeepsTop` covers `CommitBlock`: a batch at a height above the pointer leaves the pointed row unchanged. Why `RefInv` needs each conjunct:
  - without the chain id conjuncts, `GetInfo` could answer "no state" while the pointer is above 0, and replay would start below it;
  - without `blockHeight = nextH`, the batch could rewrite the pointed row. An Info request mid-block does exactly that, which is why `~InfoQueries` is a hypothesis.
- **`PointerMonotone`: `Spec => PointerOnlyForward`, for every value of the constants, Info requests included.** It is proved from `MonoInv` (lemmas `InitMonoInv`, `NextMonoInv`, `NextPointer`). With an Info request mid-block, the pointer put may rewrite the pointer to the same height, but never to a lower one: `blockHeight` never drops below `db.height`.
- **`FlushedNotAhead`**: with `~InfoQueries`, `durable.height <= db.height` always, and both pointers name a row in `Store`. So a crash never moves the node's last block forward. The proof applies `BlockStore`'s `SafeBehindInvariant` (proved in `BlockStore.tla` for any `MaxHeight \in Nat`) through the refinement. It is temporal reasoning only (PTL).

### `TokenProofs.tla`

- **`TypeCorrect`: `Spec => []TypeOK`, for every width `W` and whether `Wraps` is TRUE or FALSE.** `TypeOK` is inductive on its own. The lemmas are:
  - `SpendType` and `ReceiveType`: a wrapped result lies in `0..2^W-1`;
  - `AmtType`;
  - `TransferWritesType`: `transfer` traps or stages two Amounts;
  - `RawWritesType`;
  - `CommitType`.

  Two points about the provers shaped these proofs:
  - They know of `2^W` only that it is an integer. `AmtType` therefore takes an Amount as a witness that `AmountVal` is non-empty; the transfer's own amount supplies it.
  - TLC's `:>` and `@@` are opaque to `tlapm`. `TxWrite` and `Commit` are therefore written as explicit functions, which mean the same thing.

### `TokenTransferProofs.tla`

- **`TransferCorrect`: `AddrRule = "all" /\ ~Wraps => (Spec => TransferExact)`, for every width `W` and every set of owners.** The hypotheses are the two pieces of behaviour that are not in `src/`. `find_addresses` names every address in a key, and `Amount`'s arithmetic traps in the overflow-checked build. With `Wraps = TRUE`, the run `token_wrap_transfer` violates `TransferExact`. The proof goes one tx at a time (`TransferStep`), from `TypeOK` (`TokenProofs!TypeCorrect`), in three cases:
  - **`transfer` traps.** `TrapsExactly`: it traps exactly when the source does not cover the amount or the destination has no room (`Room`). The write log is then dropped.
  - **Distinct owners with room.** `RoomWrites` computes the two staged balances. `TransferVerifiers` shows the token VP runs, and `PairAccepted` shows it accepts.
  - **A self-transfer.** Only the second write survives, holding the old balance plus the amount. `SelfAccepted`: the VP accepts exactly when the amount is 0.
- **The token VP's sum.** The VP sums `post - pre` over the changed keys with `MapThenSumSet`, a fold over a recursive function on subsets. For the one or two keys a transfer writes, `VpSumOne` and `VpSumPair` unfold it. They exhibit the fold's function and show that it satisfies the defining equation, so the `CHOOSE` returns it. This needs no induction.
- **Instantiating lemmas.** The provers time out instantiating a lemma over `NEW bal \in [Owners -> Stored]` with the state variable `balance`. `RoomWrites` and `TrapsExactly` are therefore stated over `balance`, with `TypeOK` as a hypothesis.

### `MatchTxProofs.tla`

- **`TxBalancedIffRing`: for every order `o` of distinct intents with `Len(o) >= 2`, `Balanced(TxData(o)) <=> PaysPredecessor(o) /\ ClosesRing(o)`.** This covers cycles of any length; TLC checks `MatchSound` only on the rings of `MC_Matchmaker`. The argument:
  - The tx's transfers are `Pay(o, k)`, one per position: `o[k]` pays its predecessor (`TransfersArePayments`).
  - By injectivity, `o[j]` sends only `Pay(o, j)` (`SendsOne`) and receives only the payment of the next position (`ReceivesOne`), which is always what it buys.
  - So the tx is balanced exactly when each node sells what its predecessor buys, including the wrap-around from the first node to the last.
- **What it shows about the code.** `sort_cycle` appends a node only along an edge, so its reversed order satisfies `PaysPredecessor`. Nothing checks the closing edge from the first node to the last. The theorem shows that this closing trade is the only way a tx from a sorted cycle can be unbalanced, and that is what the violation run `mm_twin_ring` finds. That `sort_cycle` produces an order with `PaysPredecessor` is a statement about the RECURSIVE `SortLoop`, and stays with TLC.

### Only model-checked

These properties are checked only by TLC, for these reasons:
- **`StateMatchesChain`.** Its reference state is a recursive function over the chain. Proving it needs induction over the chain's data, which the provers cannot do here.
- **`SupplyConserved`.** It sums `MapThenSumSet` over all owners, a fold over an arbitrary finite set. Unlike the one- or two-key fold in `TokenTransferProofs`, it cannot be unfolded by hand. It needs induction over the set, and the induction theorems take an operator parameter that the installed provers cannot instantiate.
- **The Matchmaker and PrefixIter run properties.** The tx builder is proved about in `MatchTxProofs`. The modules of the runs declare RECURSIVE operators (`SortLoop` and `RemoveDescending`; `StrCmp` and `SegsCmp`). `tlapm` cannot prove anything in a module that reaches them. The properties are also statements about what these sequence algorithms compute for every input.
- **Liveness and ENABLED.** None is stated.

## Not modelled

- **Not modelled yet:**
  - the storage helpers of `storage/mod.rs` beyond `open` (the Merkle hashers);
  - the established-address generator (`address.rs`). `write_block` saves it in each row, `read_last_block` restores it, and `storage::open` seeds it. The code that advances it is not in `src/`: the host's `init_account` and the write log. Also, `Shell::apply_tx` gives the tx only `&self.storage`, so nothing in `src/` shows how the generator moves. A model would have to guess that step, and crash recovery of the generator would rest on the guess;
  - composing the token model with the Ledger's write log, where a gas trap between `transfer`'s two writes would meet finding 1.
- **Out of scope:** hashing, Bech32m, protobuf and the guest memory buffers. These are conversions and raw memory; their hazards are listed in `PROJECT.json`. Config, the wallet, the CLI and `build.rs` are also out of scope.
- **Outside `src/`, so taken from the spec and behind switches:**
  - the gossip event loop;
  - `Amount`'s arithmetic;
  - `find_addresses`;
  - the owners' VPs.
