CONSTANTS
    iA = iA  iB = iB  iC = iC  iD = iD  iE = iE  iF = iF  iG = iG
    iN = iN  iP = iP  iQ = iQ  iR = iR
    x = x  y = y  z = z  u = u  v = v
    Intents <- MCTriangle
    Offers <- MCOffers
    Sell <- MCSellOf
    Buy <- MCBuyOf
    FilterAccepts <- MCFilter
    Malformed = {}
    Cap = 3
    DrainFirst = TRUE
    RemovesMatched = TRUE
INIT Init
NEXT Next
INVARIANTS NoMissedMatch
