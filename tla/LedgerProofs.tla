---------------------------- MODULE LedgerProofs ----------------------------
(* Proofs about the Ledger model for every value of its constants: type   *)
(* correctness, and that the RocksDB `height' pointer never names a block *)
(* row write_block has not written, in the DB and in what a crash leaves. *)
EXTENDS Ledger, TLAPS, SequenceTheorems

\* A block the consensus engine decides is a sequence of at most
\* MaxBlockTxs txs.
LEMMA BlockIsSeq ==
    ASSUME NEW b \in Blocks
    PROVE  b \in Seq(Txs) /\ Len(b) <= MaxBlockTxs
<1>1. PICK n \in 0..MaxBlockTxs : b \in [1..n -> Txs]
    BY DEF Blocks
<1>2. b \in Seq(Txs)
    BY <1>1
<1>3. Len(b) = n
    BY <1>1, <1>2, LenProperties
<1>. QED
    BY <1>1, <1>2, <1>3

\* Each block of the consensus engine's store is such a sequence.
LEMMA ChainBlock ==
    ASSUME NEW c \in Seq(Blocks), NEW i \in 1..Len(c)
    PROVE  c[i] \in Seq(Txs) /\ Len(c[i]) \in 0..MaxBlockTxs
<1>1. c[i] \in Blocks
    OBVIOUS
<1>. QED
    BY <1>1, BlockIsSeq, LedgerAssumption

\* The facts type correctness rests on: the consensus engine only applies
\* or commits a block of its store, at a height the shell's block storage
\* and the DB pointers never pass, and Shell::commit is between its two
\* DB writes only while the engine waits for the CommitBlock reply.
TypeInv ==
    /\ TypeOK
    /\ db.height <= Len(chain)
    /\ durable.height <= Len(chain)
    /\ host \in {"tx", "commit"} =>
           /\ nextH \in 1..Len(chain)
           /\ blockHeight \in 1..Len(chain)
    /\ host = "tx" => txi <= Len(chain[nextH]) + 1
    /\ host = "begin" => nextH <= Len(chain) + 1
    /\ host = "init" => nextH = 1
    /\ commitPc # "idle" => host = "commit"
\* The node starts with an empty DB, before the handshake.
LEMMA InitTypeInv == Init => TypeInv
BY LedgerAssumption DEF Init, TypeInv, TypeOK, EmptyLog, Log, EmptyDb, DbState,
                        Heights

\* Staging one log's writes over another (write, delete, commit_tx) gives a
\* log.
LEMMA StageType ==
    ASSUME NEW l \in Log, NEW w \in Log
    PROVE  Stage(l, w) \in Log
BY DEF Stage, Log

\* Running a tx over a log gives a log.
LEMMA ExecuteTxType ==
    ASSUME NEW t \in Txs, NEW l \in Log
    PROVE  ExecuteTx(t, l) \in Log
BY StageType, LedgerAssumption DEF ExecuteTx

\* A merged block row is a storage.
LEMMA MergeRowType ==
    ASSUME NEW old \in Store \cup {NoRow}, NEW st \in Store
    PROVE  MergeRow(old, st) \in Store
BY DEF MergeRow, Store

\* Each ABCI message, flush, crash and shutdown preserves TypeInv.
LEMMA NextTypeInv == TypeInv /\ [Next]_vars => TypeInv'
<1> SUFFICES ASSUME TypeInv, [Next]_vars PROVE TypeInv'
    OBVIOUS
<1> USE LedgerAssumption DEF TypeInv, TypeOK
<1>1. CASE GetInfo
    <2>1. CASE ReadLastBlock(db) = NoRow
        BY <1>1, <2>1 DEF GetInfo, LastState
    <2>2. CASE ReadLastBlock(db) # NoRow
        <3>1. db.height \in 1..MaxHeight /\ db.rows[db.height] \in Store
            BY <2>2 DEF ReadLastBlock, DbState, Heights
        <3>. QED
            BY <1>1, <2>2, <3>1 DEF GetInfo, LastState, ReadLastBlock
    <2>. QED
        BY <2>1, <2>2
<1>2. CASE InitChain
    <2>1. db' \in DbState /\ db'.height = db.height
        BY <1>2 DEF InitChain, WriteChainId, DbState
    <2>. QED
        BY <1>2, <2>1 DEF InitChain, shellVars
<1>3. CASE BeginBlock
    <2>1. CASE nextH <= Len(chain) /\ UNCHANGED chain
        BY <1>3, <2>1 DEF BeginBlock, Heights
    <2>2. CASE nextH = Len(chain) + 1 /\ \E b \in Blocks : chain' = Append(chain, b)
        <3>1. PICK b \in Blocks : chain' = Append(chain, b)
            BY <2>2
        <3>2. chain' \in Seq(Blocks) /\ Len(chain') = nextH
            BY <2>2, <3>1, AppendProperties
        <3>3. nextH \in Heights
            BY <1>3 DEF BeginBlock
        <3>4. Len(chain'[nextH]) \in 0..MaxBlockTxs
            <4>1. nextH \in 1..Len(chain')
                BY <3>2, <3>3 DEF Heights
            <4>. QED
                BY <3>2, <4>1, ChainBlock
        <3>. QED
            BY <1>3, <2>2, <3>2, <3>3, <3>4 DEF BeginBlock, Heights, DbState
    <2>. QED
        BY <1>3, <2>1, <2>2 DEF BeginBlock
<1>4. CASE ApplyTx
    <2>1. nextH \in 1..Len(chain)
        BY <1>4 DEF ApplyTx
    <2>2. chain[nextH] \in Seq(Txs) /\ Len(chain[nextH]) \in 0..MaxBlockTxs
        BY <2>1, ChainBlock
    <2>3. chain[nextH][txi] \in Txs
        BY <1>4, <2>2 DEF ApplyTx
    <2>4. txLog' \in Log /\ blockLog' \in Log
        <3> DEFINE t == chain[nextH][txi]
        <3>1. ExecuteTx(t, txLog) \in Log
            BY <2>3, ExecuteTxType
        <3>2. Stage(blockLog, ExecuteTx(t, txLog)) \in Log
            BY <3>1, StageType
        <3>3. EmptyLog \in Log
            BY DEF EmptyLog, Log
        <3>. QED
            BY <1>4, <3>1, <3>2, <3>3 DEF ApplyTx, ShellApplyTx
    <2>5. txi' \in 1..MaxBlockTxs + 1 /\ txi' <= Len(chain[nextH]) + 1
        BY <1>4, <2>2 DEF ApplyTx
    <2>6. UNCHANGED <<subspaces, blockHeight, commitPc, db, durable, chain, host,
                      nextH, appHash, restarts>>
        BY <1>4 DEF ApplyTx
    <2>. QED
        BY <2>4, <2>5, <2>6
<1>5. CASE EndBlock
    BY <1>5 DEF EndBlock, shellVars
<1>6. CASE CommitBlock
    <2>1. subspaces' \in Store
        BY <1>6 DEF CommitBlock, ApplyLog, Store, Log
    <2>2. blockHeight \in Heights
        BY <1>6 DEF CommitBlock, Heights
    <2>3. db' \in DbState /\ db'.height = db.height
        <3>1. CASE db' = WriteBlockStep(db, 1, blockHeight, subspaces')
            <4>1. db.rows[blockHeight] \in Store \cup {NoRow}
                BY <2>2 DEF DbState
            <4>2. MergeRow(db.rows[blockHeight], subspaces') \in Store
                BY <2>1, <4>1, MergeRowType
            <4>. QED
                BY <3>1, <2>2, <4>2 DEF WriteBlockStep, DbState
        <3>. QED
            BY <1>6, <3>1 DEF CommitBlock
    <2>. QED
        BY <1>6, <2>1, <2>3 DEF CommitBlock, hostVars, EmptyLog, Log
<1>7. CASE CommitHeight
    <2>1. nextH \in 1..Len(chain) /\ blockHeight \in 1..Len(chain)
        BY <1>7 DEF CommitHeight
    <2>2. db' \in DbState /\ db'.height <= Len(chain)
        <3>1. CASE db' = WriteBlockStep(db, 2, blockHeight, subspaces)
            <4>1. blockHeight \in 0..MaxHeight
                BY <2>1
            <4>2. db' = [db EXCEPT !.height = blockHeight]
                BY <3>1 DEF WriteBlockStep
            <4>3. db' \in DbState
                BY <4>1, <4>2 DEF DbState
            <4>4. db'.height = blockHeight
                BY <4>2 DEF DbState
            <4>. QED
                BY <2>1, <4>3, <4>4
        <3>2. CASE UNCHANGED db
            BY <3>2
        <3>. QED
            BY <1>7, <3>1, <3>2 DEF CommitHeight
    <2>3. appHash' \in [Heights -> Store \cup {NoRow}]
        BY <1>7, <2>1 DEF CommitHeight, Heights
    <2>. QED
        BY <1>7, <2>1, <2>2, <2>3 DEF CommitHeight
<1>8. CASE InfoQuery
    <2>1. CASE ReadLastBlock(db) = NoRow
        BY <1>8, <2>1 DEF InfoQuery, LastState, hostVars
    <2>2. CASE ReadLastBlock(db) # NoRow
        <3>1. db.height \in 1..Len(chain) /\ db.rows[db.height] \in Store
            BY <2>2 DEF ReadLastBlock, DbState, Heights
        <3>. QED
            BY <1>8, <2>2, <3>1 DEF InfoQuery, LastState, ReadLastBlock, hostVars
    <2>. QED
        BY <2>1, <2>2
<1>9. CASE Flush
    BY <1>9 DEF Flush, shellVars, hostVars
<1>10. CASE Crash
    BY <1>10 DEF Crash, ShellNew, OpenStorage, EmptyLog, Log
<1>11. CASE Terminate
    BY <1>11 DEF Terminate, ShellNew, OpenStorage, EmptyLog, Log
<1>14. CASE Reset
    <2>1. /\ db' = EmptyDb /\ durable' = EmptyDb /\ host' = "info"
          /\ subspaces' = Genesis /\ blockHeight' = 0 /\ commitPc' = "idle"
          /\ txLog' = EmptyLog /\ blockLog' = EmptyLog
          /\ restarts' \in 0..MaxRestarts /\ txi' = txi
        BY <1>14 DEF Reset, ShellNew, OpenStorage
    <2>2. EmptyDb \in DbState /\ EmptyDb.height = 0 /\ EmptyLog \in Log
        BY DEF EmptyDb, DbState, Heights, EmptyLog, Log
    <2>3. CASE chain' = << >> /\ nextH' = 1 /\ appHash' = [h \in Heights |-> NoRow]
        BY <2>1, <2>2, <2>3
    <2>4. CASE UNCHANGED <<chain, nextH, appHash>>
        BY <2>1, <2>2, <2>4
    <2>. QED
        BY <1>14, <2>3, <2>4 DEF Reset
<1>12. CASE Halted \/ CheckTx \/ AbciQuery
    BY <1>12 DEF Halted, CheckTx, AbciQuery, vars
<1>13. CASE UNCHANGED vars
    BY <1>13 DEF vars
<1>. QED
    BY <1>1, <1>2, <1>3, <1>4, <1>5, <1>6, <1>7, <1>8, <1>9, <1>10, <1>11,
       <1>12, <1>13, <1>14 DEF Next

\* Type correctness of the shell, the DB and the consensus engine's state.
THEOREM TypeCorrect == Spec => []TypeOK
<1>1. TypeInv => TypeOK
    BY DEF TypeInv
<1>. QED
    BY <1>1, InitTypeInv, NextTypeInv, PTL DEF Spec

-----------------------------------------------------------------------------
(* The `height' pointer.  HeightPointsToBlock alone is not inductive: the  *)
(* pointer put of CommitBlock's second part is safe only because its first *)
(* part wrote the row of the same height.                                 *)

\* The pointer invariant with its strengthening.
PointerInv ==
    /\ TypeInv
    /\ HeightPointsToBlock
    /\ commitPc = "batched" => db.rows[blockHeight] # NoRow
\* The empty DB has no pointer and no commit is under way.
LEMMA InitPointerInv == Init => PointerInv
BY InitTypeInv DEF Init, PointerInv, HeightPointsToBlock, EmptyDb

\* Only CommitBlock writes a row, and it writes a storage, never NoRow; only
\* CommitHeight moves the pointer, to the row CommitBlock wrote.
LEMMA NextPointerInv == PointerInv /\ [Next]_vars => PointerInv'
<1> SUFFICES ASSUME PointerInv, [Next]_vars PROVE PointerInv'
    OBVIOUS
<1>1. TypeInv'
    BY NextTypeInv DEF PointerInv
<1> SUFFICES /\ HeightPointsToBlock'
             /\ commitPc' = "batched" => db'.rows[blockHeight'] # NoRow
    BY <1>1 DEF PointerInv
<1> USE LedgerAssumption DEF PointerInv, HeightPointsToBlock
<1>2. commitPc # "idle" => host = "commit"
    BY DEF TypeInv
<1>3. CASE CommitBlock
    <2>1. blockHeight \in Heights /\ db \in DbState /\ subspaces' \in Store
        BY <1>3 DEF CommitBlock, TypeInv, TypeOK, Heights, ApplyLog, Store, Log
    <2>2. CASE db' = WriteBlockStep(db, 1, blockHeight, subspaces')
        <3>1. MergeRow(db.rows[blockHeight], subspaces') \in Store
            BY <2>1, MergeRowType DEF DbState
        <3>2. db' = [db EXCEPT !.rows[blockHeight] = MergeRow(db.rows[blockHeight], subspaces')]
            BY <2>2 DEF WriteBlockStep
        <3>3. db'.height = db.height
              /\ \A h \in Heights : db'.rows[h] = IF h = blockHeight
                                                  THEN MergeRow(db.rows[blockHeight], subspaces')
                                                  ELSE db.rows[h]
            BY <2>1, <3>2 DEF DbState
        <3>4. db.height # 0 => db.height \in Heights
            BY <2>1 DEF DbState, Heights
        <3>5. db'.rows[blockHeight] # NoRow
            BY <2>1, <3>1, <3>3
        <3>6. db'.height # 0 => db'.rows[db'.height] # NoRow
            BY <3>3, <3>4, <3>5
        <3>. QED
            BY <1>3, <3>5, <3>6 DEF CommitBlock
    <2>3. CASE UNCHANGED db /\ commitPc' = "failed"
        BY <1>3, <2>3 DEF CommitBlock
    <2>. QED
        BY <1>3, <2>2, <2>3 DEF CommitBlock
<1>4. CASE CommitHeight
    <2>1. CASE commitPc = "batched" /\ db' = WriteBlockStep(db, 2, blockHeight, subspaces)
        <3>1. db' = [db EXCEPT !.height = blockHeight]
            BY <2>1 DEF WriteBlockStep
        <3>2. db \in DbState
            BY DEF TypeInv, TypeOK
        <3>. QED
            BY <1>4, <2>1, <3>1, <3>2 DEF CommitHeight, DbState
    <2>2. CASE UNCHANGED db
        BY <1>4, <2>2 DEF CommitHeight
    <2>. QED
        BY <1>4, <2>1, <2>2 DEF CommitHeight
<1>5. CASE GetInfo \/ BeginBlock \/ InfoQuery
    BY <1>2, <1>5 DEF GetInfo, BeginBlock, InfoQuery
<1>6. CASE InitChain
    BY <1>6 DEF InitChain, WriteChainId, shellVars
<1>7. CASE ApplyTx \/ EndBlock \/ Halted \/ CheckTx \/ AbciQuery \/ UNCHANGED vars
    BY <1>7 DEF ApplyTx, EndBlock, Halted, CheckTx, AbciQuery, vars, shellVars
<1>8. CASE Flush \/ Crash \/ Terminate
    BY <1>8 DEF Flush, Crash, Terminate, ShellNew, OpenStorage, shellVars
<1>9. CASE Reset
    BY <1>9 DEF Reset, ShellNew, OpenStorage, EmptyDb
<1>. QED
    BY <1>1, <1>3, <1>4, <1>5, <1>6, <1>7, <1>8, <1>9 DEF Next

\* Crash safety of write_block's write order: in every behaviour, whatever
\* crashes, flushes and failed DB writes happen, the `height' pointer of the
\* DB and of what a crash leaves names a block row write_block wrote, so
\* read_last_block never meets the missing "essential data" error.
THEOREM PointerSafe == Spec => []HeightPointsToBlock
<1>1. PointerInv => HeightPointsToBlock
    BY DEF PointerInv
<1>. QED
    BY <1>1, InitPointerInv, NextPointerInv, PTL DEF Spec

=============================================================================
