CONSTANTS
    k1 = k1  k2 = k2  v1 = v1  v2 = v2  a1 = a1  a2 = a2
    t1 = t1  t2 = t2  t3 = t3  t4 = t4
    Absent = Absent  Del = Del  NoWrite = NoWrite  NoRow = NoRow
    Keys <- MCKeys
    Vals <- MCVals
    Addrs <- MCAddrs
    Owner <- MCOwner
    Genesis <- MCGenesis
    Txs <- MCTxsPass
    TxKind <- MCTxKind
    TxWrites <- MCTxWrites
    TxVerifiers <- MCTxVerifiers
    VpAccepts <- MCVpAccepts
    MaxHeight = 2
    MaxBlockTxs = 2
    MaxRestarts = 2
    InfoQueries = FALSE
SPECIFICATION Spec
INVARIANTS TypeOK HeightPointsToBlock StateMatchesChain
PROPERTY BlockStoreRefined
