CONSTANTS
    oA = oA
    oB = oB
    oC = oC
    tX = tX
    NoValue = NoValue
    BadBytes = BadBytes
    Trapped = Trapped
    Owners <- MCOwners
    TokenAddr = tX
    W = 2
    Genesis <- MCGenesis
    Amounts <- MCAmounts
    RawTxs <- MCRawTxs
    AddrRule = "all"
    Wraps = TRUE
    Absent = NoValue
    Garbage = BadBytes
    Trap = Trapped
SPECIFICATION Spec
INVARIANTS TypeOK SupplyConserved

