------------------------------ MODULE MC_Token ------------------------------
(* Three owners holding 3, 1 and undecodable bytes, 2-bit Amounts so that *)
(* spending and receiving can wrap, and three hand-written txs: a mint, a  *)
(* move that overwrites the undecodable balance, and a delete.             *)
EXTENDS Token, TLC

CONSTANTS oA, oB, oC, tX, NoValue, BadBytes, Trapped

MCOwners == {oA, oB, oC}
MCGenesis == (oA :> 3) @@ (oB :> 1) @@ (oC :> BadBytes)
MCAmounts == {1, 3}
MCRawTxs ==
    { [writes |-> (oB :> 3), explicit |-> {}],
      [writes |-> (oA :> 0) @@ (oC :> 3), explicit |-> {}],
      [writes |-> (oB :> NoValue), explicit |-> {oB}] }
=============================================================================
