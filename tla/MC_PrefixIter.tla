--------------------------- MODULE MC_PrefixIter ---------------------------
(* A DB of three heights, 1, 2 and 10 (10 sorts after 2 by number, before *)
(* it as a string).  Names are abbreviated to strings of the same order:  *)
(* "a" address_gen, "ha" hash, "s" subspace, "t/r" and "t/s" tree/root    *)
(* and tree/store, "c" chain_id, "he" height.  Height 1's subspace holds  *)
(* p/0, p/1, p0 and q; height 2 holds p/1; height 10 holds p/0 and p/1,   *)
(* and the value of its p/0 does not decode as the guest's type.          *)
EXTENDS PrefixIter

CONSTANT NoItem

SL == 47  D0 == 48  D1 == 49  D2 == 50
La == 97  Lc == 99  Le == 101  Lh == 104  Lp == 112  Lq == 113  Lr == 114
Ls == 115  Lt == 116

Row(h) == {<<La>>, <<Lh, La>>, <<Lt, SL, Lr>>, <<Lt, SL, Ls>>}
Sub(h) == CASE h = 1  -> {<<Lp, SL, D0>>, <<Lp, SL, D1>>, <<Lp, D0>>, <<Lq>>}
            [] h = 2  -> {<<Lp, SL, D1>>}
            [] h = 10 -> {<<Lp, SL, D0>>, <<Lp, SL, D1>>}

MCDbKeys ==
    {<<Lc>>, <<Lh, Le>>}
    \cup UNION {{DecStr(h) \o <<SL>> \o r : r \in Row(h)} : h \in {1, 2, 10}}
    \cup UNION {{DbPrefix(h) \o k : k \in Sub(h)} : h \in {1, 2, 10}}

MCBadValues == {DbPrefix(10) \o <<Lp, SL, D0>>}

MCHeights == {1, 10}
MCKeyPrefixes == {<<<<Lp>>>>, <<<<Lp>>, <<D0>>>>}
=============================================================================
