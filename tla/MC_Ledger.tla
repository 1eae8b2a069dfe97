----------------------------- MODULE MC_Ledger -----------------------------
(* Small instances of Ledger for TLC: two keys owned by two accounts, and  *)
(* txs whose acceptance depends on the order they run in.                  *)
EXTENDS Ledger, TLC

CONSTANTS k1, k2, v1, v2, a1, a2, t1, t2, t3, t4

MCKeys == {k1, k2}
MCVals == {v1, v2}
MCAddrs == {a1, a2}
MCOwner == k1 :> a1 @@ k2 :> a2
MCGenesis == k1 :> v1 @@ k2 :> v1

\* t1 moves k1 to v2 and both owners accept it; t2 deletes k2 and only a2
\* accepts it, so t2 is rejected when it runs after t1 in the same block
\* (k1 is then among the changed keys) and accepted otherwise; t3 does not
\* decode; t4 writes k2 and then traps.
MCTxsPass == {t1, t2, t3}
MCTxsTrap == {t1, t4}
MCTxKind == [t \in Txs |->
                CASE t = t3 -> "malformed" [] t = t4 -> "trap" [] OTHER -> "run"]
MCTxWrites == [t \in Txs |->
                 [k \in MCKeys |->
                    CASE t = t1 /\ k = k1 -> v2
                      [] t = t2 /\ k = k2 -> Del
                      [] t = t4 /\ k = k2 -> v2
                      [] OTHER -> NoWrite]]
MCTxVerifiers == [t \in Txs |-> {}]
MCVpAccepts == a1 :> ({t1} \cap Txs) @@ a2 :> ({t1, t2} \cap Txs)

=============================================================================
