--------------------------- MODULE MC_Matchmaker ---------------------------
(* TLC instances of Matchmaker.  Offers x, y, z, u, v.                     *)
(*  - iA sells x, buys z; iB sells y, buys x; iC sells z, buys y: a ring   *)
(*    of three, scenario 6 of the spec.                                    *)
(*  - iE sells u, buys v: trades with nobody; iD sells v, buys u and is    *)
(*    refused by the filter.                                                *)
(*  - iF sells x, buys y and iG sells y, buys x: a plain swap.             *)
(*  - iN sells x, buys z; iP and iQ both sell y, buy x; iR sells z, buys y: *)
(*    two intents offering the same trade inside a ring.                   *)
EXTENDS Matchmaker, TLC

CONSTANTS iA, iB, iC, iD, iE, iF, iG, iN, iP, iQ, iR, x, y, z, u, v

MCOffers == {x, y, z, u, v}

MCSell == (iA :> x @@ iB :> y @@ iC :> z @@ iD :> v @@ iE :> u @@ iF :> x
           @@ iG :> y @@ iN :> x @@ iP :> y @@ iQ :> y @@ iR :> z)

MCBuy == (iA :> z @@ iB :> x @@ iC :> y @@ iD :> u @@ iE :> v @@ iF :> y
          @@ iG :> x @@ iN :> z @@ iP :> x @@ iQ :> x @@ iR :> y)

MCTriangle == {iA, iB, iC, iD, iE}
MCTwin == {iN, iP, iQ, iR}

MCSellOf == [i \in Intents |-> MCSell[i]]
MCBuyOf == [i \in Intents |-> MCBuy[i]]
MCFilter == Intents \ {iD}
=============================================================================
