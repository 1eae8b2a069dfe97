-------------------------- MODULE LedgerRefinement --------------------------
(* Proof that the Ledger model implements the abstract block store of     *)
(* BlockStore under the mapping Ledger!BS, when no Info request comes in  *)
(* the middle of a block.                                                 *)
EXTENDS LedgerProofs

\* The handshake and block invariant, with Info requests at any point: a
\* DB pointer above 0 comes with the chain id written; while the engine
\* runs blocks the chain id is written and the height it applies is above
\* the DB pointer; the shell's block height lies between the pointer and
\* that height (an Info request mid-block sets it back to the pointer).
MonoInv ==
    /\ PointerInv
    /\ db.height # 0 => db.chainId
    /\ durable.height # 0 => durable.chainId
    /\ host = "init" => db.height = 0
    /\ host \in {"begin", "tx", "commit"} => db.chainId /\ nextH > db.height
    /\ host \in {"tx", "commit"} => db.height <= blockHeight /\ blockHeight <= nextH

\* What the refinement rests on: without Info requests mid-block, the
\* shell's block height is the engine's, so write_block's batch never
\* touches the row the pointer names, and the pointer put moves forward.
RefInv ==
    /\ MonoInv
    /\ host \in {"tx", "commit"} => blockHeight = nextH

\* The node starts with no chain id and no block, before the handshake.
LEMMA InitMonoInv == Init => MonoInv
BY InitPointerInv DEF Init, MonoInv, EmptyDb

\* Every step keeps MonoInv, Info requests mid-block included.
LEMMA NextMonoInv ==
    ASSUME MonoInv, [Next]_vars
    PROVE  MonoInv'
<1>1. PointerInv'
    BY NextPointerInv DEF MonoInv
<1> SUFFICES /\ db'.height # 0 => db'.chainId
             /\ durable'.height # 0 => durable'.chainId
             /\ host' = "init" => db'.height = 0
             /\ host' \in {"begin", "tx", "commit"} => db'.chainId /\ nextH' > db'.height
             /\ host' \in {"tx", "commit"} =>
                    db'.height <= blockHeight' /\ blockHeight' <= nextH'
    BY <1>1 DEF MonoInv
<1> USE DEF MonoInv, PointerInv
<1>2. TypeOK
    BY DEF TypeInv
<1>3. CASE GetInfo
    <2>1. CASE ReadLastBlock(db) = NoRow
        <3>1. db.height = 0
            BY <2>1 DEF ReadLastBlock, HeightPointsToBlock
        <3>. QED
            BY <1>3, <2>1, <3>1 DEF GetInfo, LastState
    <2>2. CASE ReadLastBlock(db) # NoRow
        <3>1. db.chainId /\ db.height \in Nat
            BY <2>2, <1>2 DEF ReadLastBlock, TypeOK, DbState
        <3>. QED
            BY <1>3, <2>2, <3>1 DEF GetInfo, LastState
    <2>. QED
        BY <2>1, <2>2
<1>4. CASE InitChain
    <2>1. db'.chainId /\ db'.height = db.height
        BY <1>2, <1>4 DEF InitChain, WriteChainId, TypeOK, DbState
    <2>2. nextH \in Nat \ {0}
        BY <1>2 DEF TypeOK
    <2>. QED
        BY <1>4, <2>1, <2>2 DEF InitChain
<1>5. CASE BeginBlock
    <2>1. nextH \in Nat /\ db.height \in Nat
        BY <1>2 DEF TypeOK, DbState
    <2>. QED
        BY <1>5, <2>1 DEF BeginBlock
<1>12. CASE ApplyTx \/ EndBlock
    BY <1>12 DEF ApplyTx, EndBlock, shellVars
<1>11. CASE CommitBlock
    <2>1. db' = db \/ db' = [db EXCEPT !.rows[blockHeight] = MergeRow(@, subspaces')]
        BY <1>11 DEF CommitBlock, WriteBlockStep
    <2>2. db'.chainId = db.chainId /\ db'.height = db.height
        BY <1>2, <2>1 DEF TypeOK, DbState
    <2>. QED
        BY <1>11, <2>2 DEF CommitBlock, hostVars
<1>6. CASE CommitHeight
    <2>1. /\ db.height <= blockHeight /\ blockHeight <= nextH
          /\ db.chainId /\ nextH \in Nat /\ blockHeight \in Nat /\ db.height \in Nat
        BY <1>2, <1>6 DEF CommitHeight, TypeOK, DbState
    <2>2. CASE commitPc = "batched" /\ db' = WriteBlockStep(db, 2, blockHeight, subspaces)
        <3>1. db' = [db EXCEPT !.height = blockHeight]
            BY <2>2 DEF WriteBlockStep
        <3>2. db \in DbState
            BY <1>2 DEF TypeOK
        <3>3. db'.chainId = db.chainId /\ db'.height = blockHeight
            BY <3>1, <3>2 DEF DbState
        <3>. QED
            BY <1>6, <2>1, <3>3 DEF CommitHeight
    <2>3. CASE UNCHANGED db
        BY <1>6, <2>1, <2>3 DEF CommitHeight
    <2>. QED
        BY <1>6, <2>2, <2>3 DEF CommitHeight
<1>7. CASE InfoQuery
    <2>1. CASE ReadLastBlock(db) = NoRow
        BY <1>7, <2>1 DEF InfoQuery, LastState, hostVars
    <2>2. CASE ReadLastBlock(db) # NoRow
        <3>1. db.height \in Nat /\ nextH \in Nat
            BY <1>2 DEF TypeOK, DbState
        <3>. QED
            BY <1>7, <2>2, <3>1 DEF InfoQuery, LastState, hostVars
    <2>. QED
        BY <2>1, <2>2
<1>8. CASE Halted \/ CheckTx \/ AbciQuery \/ UNCHANGED vars
    <2>1. UNCHANGED vars
        BY <1>8 DEF Halted, CheckTx, AbciQuery
    <2>. QED
        BY <2>1 DEF vars
<1>9. CASE Flush
    BY <1>9 DEF Flush, shellVars, hostVars
<1>13. CASE Crash
    BY <1>13 DEF Crash, ShellNew, OpenStorage
<1>14. CASE Terminate
    BY <1>14 DEF Terminate, ShellNew, OpenStorage
<1>10. CASE Reset
    BY <1>10 DEF Reset, ShellNew, OpenStorage, EmptyDb
<1>. QED
    BY <1>3, <1>4, <1>5, <1>6, <1>7, <1>8, <1>9, <1>10, <1>11,
       <1>12, <1>13, <1>14 DEF Next

\* The node starts outside any block.
LEMMA InitRefInv == Init => RefInv
BY InitMonoInv DEF Init, RefInv

\* Without Info requests outside the handshake, every step keeps RefInv:
\* only BeginBlock sets the shell's block height, to the engine's.
LEMMA NextRefInv ==
    ASSUME ~InfoQueries, RefInv, [Next]_vars
    PROVE  RefInv'
<1>1. MonoInv'
    BY NextMonoInv DEF RefInv
<1>2. host' \in {"tx", "commit"} => blockHeight' = nextH'
    <2> USE DEF RefInv
    <2>1. CASE BeginBlock
        <3>1. blockHeight' = nextH /\ nextH' = nextH
            BY <2>1 DEF BeginBlock
        <3>. QED
            BY <3>1
    <2>2. CASE ApplyTx \/ EndBlock \/ CommitBlock
        <3>1. host \in {"tx", "commit"} /\ blockHeight' = blockHeight /\ nextH' = nextH
            BY <2>2 DEF ApplyTx, EndBlock, CommitBlock, shellVars, hostVars
        <3>. QED
            BY <3>1
    <2>3. CASE InfoQuery
        BY <2>3 DEF InfoQuery
    <2>4. CASE Halted \/ CheckTx \/ AbciQuery \/ UNCHANGED vars
        <3>1. UNCHANGED vars
            BY <2>4 DEF Halted, CheckTx, AbciQuery
        <3>. QED
            BY <3>1 DEF vars
    <2>5. CASE Flush
        BY <2>5 DEF Flush, shellVars, hostVars
    <2>6. CASE GetInfo \/ InitChain \/ CommitHeight \/ Crash \/ Terminate \/ Reset
        BY <2>6 DEF GetInfo, InitChain, CommitHeight, Crash, Terminate, Reset
    <2>. QED
        BY <2>1, <2>2, <2>3, <2>4, <2>5, <2>6 DEF Next
<1>. QED
    BY <1>1, <1>2 DEF RefInv

\* The empty DB of a first start is the empty block store.
LEMMA InitRefines == Init => BS!Init
BY DEF Init, BS!Init, TopRow, EmptyDb

\* write_block's batch writes the row of a height above the pointer, so the
\* row the pointer names stays as it was.
LEMMA BatchKeepsTop ==
    ASSUME NEW d \in DbState, NEW h \in Heights, NEW st \in Store,
           h > d.height
    PROVE  /\ WriteBlockStep(d, 1, h, st).height = d.height
           /\ TopRow(WriteBlockStep(d, 1, h, st)) = TopRow(d)
<1> DEFINE d2 == [d EXCEPT !.rows[h] = MergeRow(d.rows[h], st)]
<1>1. WriteBlockStep(d, 1, h, st) = d2
    BY DEF WriteBlockStep
<1>2. d2.height = d.height
    BY DEF DbState
<1>3. d.height # 0 => d2.rows[d.height] = d.rows[d.height]
    BY DEF DbState, Heights
<1>. QED
    BY <1>1, <1>2, <1>3 DEF TopRow

\* Each step of the shell, the engine and the environment is a step of the
\* block store or leaves its state alone: the pointer put publishes the
\* batched row, a flush or a shutdown persists, a crash restores what was
\* flushed, `ledger reset' wipes, and every other step leaves the DB's
\* pointers and the rows they name as they were.
LEMMA NextRefines ==
    ASSUME ~InfoQueries, RefInv, [Next]_vars
    PROVE  [BS!Next]_BS!vars
<1> USE DEF RefInv, MonoInv, PointerInv
<1>1. TypeOK
    BY DEF TypeInv
<1>2. CASE CommitHeight
    <2>1. blockHeight = nextH /\ nextH > db.height /\ blockHeight \in Heights
        BY <1>2 DEF CommitHeight, TypeInv, TypeOK, Heights
    <2>2. CASE commitPc = "batched" /\ db' = WriteBlockStep(db, 2, blockHeight, subspaces)
        <3>1. db' = [db EXCEPT !.height = blockHeight] /\ db \in DbState
            BY <1>1, <2>2 DEF WriteBlockStep, TypeOK
        <3>2. db'.height = blockHeight /\ TopRow(db') = db.rows[blockHeight]
            BY <2>1, <3>1 DEF TopRow, DbState, Heights
        <3>3. db.rows[blockHeight] \in Store
            BY <2>1, <2>2, <3>1 DEF DbState
        <3>4. UNCHANGED durable
            BY <1>2 DEF CommitHeight
        <3>5. BS!Publish
            BY <2>1, <3>2, <3>3, <3>4 DEF BS!Publish, Heights
        <3>. QED
            BY <3>5 DEF BS!Next
    <2>3. CASE UNCHANGED db
        BY <1>2, <2>3 DEF CommitHeight, BS!vars
    <2>. QED
        BY <1>2, <2>2, <2>3 DEF CommitHeight
<1>3. CASE CommitBlock
    <2>1. blockHeight \in Heights /\ blockHeight > db.height /\ db \in DbState
        BY <1>1, <1>3 DEF CommitBlock, TypeInv, TypeOK, Heights
    <2>2. subspaces' \in Store
        BY <1>1, <1>3 DEF CommitBlock, TypeOK, ApplyLog, Store, Log
    <2>3. db'.height = db.height /\ TopRow(db') = TopRow(db)
        BY <1>3, <2>1, <2>2, BatchKeepsTop DEF CommitBlock
    <2>. QED
        BY <1>3, <2>3 DEF CommitBlock, BS!vars
<1>4. CASE InitChain
    <2>1. db \in DbState
        BY <1>1 DEF TypeOK
    <2>2. db'.height = db.height /\ db'.rows = db.rows
        BY <1>4, <2>1 DEF InitChain, WriteChainId, DbState
    <2>. QED
        BY <1>4, <2>2 DEF InitChain, BS!vars, TopRow
<1>5. CASE GetInfo \/ BeginBlock \/ ApplyTx \/ EndBlock
    BY <1>5 DEF GetInfo, BeginBlock, ApplyTx, EndBlock, BS!vars
<1>6. CASE InfoQuery
    BY <1>6 DEF InfoQuery
<1>7. CASE Halted \/ CheckTx \/ AbciQuery \/ UNCHANGED vars
    <2>1. UNCHANGED vars
        BY <1>7 DEF Halted, CheckTx, AbciQuery
    <2>. QED
        BY <2>1 DEF vars, BS!vars
<1>8. CASE Flush \/ Terminate
    <2>1. BS!Persist
        BY <1>8 DEF Flush, Terminate, ShellNew, OpenStorage, BS!Persist
    <2>. QED
        BY <2>1 DEF BS!Next
<1>9. CASE Crash
    <2>1. BS!Restore
        BY <1>9 DEF Crash, ShellNew, OpenStorage, BS!Restore
    <2>. QED
        BY <2>1 DEF BS!Next
<1>10. CASE Reset
    <2>1. BS!Wipe
        BY <1>10 DEF Reset, ShellNew, OpenStorage, EmptyDb, TopRow, BS!Wipe
    <2>. QED
        BY <2>1 DEF BS!Next
<1>. QED
    BY <1>2, <1>3, <1>4, <1>5, <1>6, <1>7, <1>8, <1>9, <1>10 DEF Next

\* The refinement: without Info requests in the middle of a block, every
\* behaviour of the ledger's DB (write_block's two puts, read_last_block's
\* handshake, flushes, crashes, shutdowns and resets) is a behaviour of the
\* block store: blocks are committed whole and forward, and a crash brings
\* back the last flushed block.
THEOREM Refinement == ~InfoQueries => (Spec => BlockStoreRefined)
<1> SUFFICES ASSUME ~InfoQueries PROVE Spec => BS!Spec
    BY DEF BlockStoreRefined
<1>1. Init => RefInv
    BY InitRefInv
<1>2. RefInv /\ [Next]_vars => RefInv'
    BY NextRefInv
<1>3. RefInv /\ [Next]_vars => [BS!Next]_BS!vars
    BY NextRefines
<1>4. Init => BS!Init
    BY InitRefines
<1>. QED
    BY <1>1, <1>2, <1>3, <1>4, PTL DEF Spec, BS!Spec

\* What the refinement buys: the block store's invariant holds of the DB.
\* What a crash leaves of RocksDB never has a `height' pointer above the
\* one the running process reads, so a crash never moves the node's last
\* block forward, and both pointers name a written storage row.
THEOREM FlushedNotAhead ==
    ~InfoQueries => (Spec => [](BS!TypeOK /\ BS!SafeBehind))
<1>1. MaxHeight \in Nat
    BY LedgerAssumption
<1>2. BS!Spec => [](BS!TypeOK /\ BS!SafeBehind)
    BY <1>1, BS!SafeBehindInvariant
<1>. QED
    BY <1>2, Refinement, PTL DEF BlockStoreRefined

\* A step moves the DB pointer down only when the DB is reopened on what
\* a crash left, or emptied by a reset.
LEMMA NextPointer ==
    ASSUME MonoInv, [Next]_vars
    PROVE  db'.height < db.height => db'.height = durable.height \/ db'.height = 0
<1> USE DEF MonoInv, PointerInv
<1>1. TypeOK
    BY DEF TypeInv
<1>2. CASE CommitHeight
    <2>1. db.height <= blockHeight /\ db.height \in Nat /\ blockHeight \in Nat
        BY <1>1, <1>2 DEF CommitHeight, TypeOK, DbState
    <2>2. CASE commitPc = "batched" /\ db' = WriteBlockStep(db, 2, blockHeight, subspaces)
        <3>1. db' = [db EXCEPT !.height = blockHeight] /\ db \in DbState
            BY <1>1, <2>2 DEF WriteBlockStep, TypeOK
        <3>. QED
            BY <2>1, <3>1 DEF DbState
    <2>3. CASE UNCHANGED db
        BY <2>1, <2>3
    <2>. QED
        BY <1>2, <2>2, <2>3 DEF CommitHeight
<1>3. CASE CommitBlock \/ InitChain
    <2>1. db \in DbState /\ db.height \in Nat
        BY <1>1 DEF TypeOK, DbState
    <2>2. db'.height = db.height
        BY <1>3, <2>1 DEF CommitBlock, InitChain, WriteBlockStep, WriteChainId, DbState
    <2>. QED
        BY <2>1, <2>2
<1>4. CASE Crash \/ Reset
    BY <1>4 DEF Crash, Reset, ShellNew, OpenStorage, EmptyDb
<1>5. CASE GetInfo \/ BeginBlock \/ ApplyTx \/ EndBlock \/ InfoQuery \/ Flush
           \/ Terminate \/ Halted \/ CheckTx \/ AbciQuery \/ UNCHANGED vars
    <2>1. db' = db /\ db.height \in Nat
        BY <1>1, <1>5 DEF GetInfo, BeginBlock, ApplyTx, EndBlock, InfoQuery, Flush,
                          Terminate, Halted, CheckTx, AbciQuery, vars, ShellNew,
                          OpenStorage, TypeOK, DbState
    <2>. QED
        BY <2>1
<1>. QED
    BY <1>2, <1>3, <1>4, <1>5 DEF Next

\* For every value of the constants, Info requests at any point included,
\* the RocksDB pointer the process reads only moves back to what a crash
\* leaves or to 0 at a reset: replays, failed writes and handshakes never
\* move the node's last block back.
THEOREM PointerMonotone == Spec => PointerOnlyForward
<1>1. MonoInv /\ [Next]_vars =>
          (db'.height < db.height => db'.height = durable.height \/ db'.height = 0)
    BY NextPointer
<1>. QED
    BY <1>1, InitMonoInv, NextMonoInv, PTL DEF Spec, PointerOnlyForward

=============================================================================
