------------------------------ MODULE MatchTx ------------------------------
(***************************************************************************)
(* The tx the matchmaker template builds from a sorted cycle of intents    *)
(* (wasm/matchmaker_template: create_transfer, create_and_send_tx_data),   *)
(* and what it means for such a tx to settle its intents.  It is kept      *)
(* apart from Matchmaker, which reaches RECURSIVE operators, so that        *)
(* MatchTxProofs can reason about it.                                      *)
(***************************************************************************)
EXTENDS Naturals, Sequences, SequencesExt

CONSTANTS
    Intents,        \* the intents gossip delivers to this matchmaker
    Offers,         \* (token, amount) pairs
    Sell, Buy       \* what an intent sells and buys

(* create_transfer(from, to): from pays to what to buys. *)
Transfer(from, to) == [src |-> from, dst |-> to, offer |-> Buy[to]]

(* create_and_send_tx_data over the sorted cycle o: each node pays its    *)
(* predecessor, the first node pays the last.                              *)
TxData(o) ==
    [transfers |-> {Transfer(o[k], o[k - 1]) : k \in 2..Len(o)}
                     \cup {Transfer(o[1], o[Len(o)])},
     intents   |-> ToSet(o)]

(* What i sends and what it receives in tx. *)
Sends(tx, i) == {t \in tx.transfers : t.src = i}
Receives(tx, i) == {t \in tx.transfers : t.dst = i}

(* Each intent of tx gives exactly what it sells, gets exactly what it    *)
(* buys, and trades only with intents of tx.                               *)
Balanced(tx) ==
    /\ \A t \in tx.transfers : {t.src, t.dst} \subseteq tx.intents
    /\ \A i \in tx.intents :
          /\ \E t \in Sends(tx, i) : Sends(tx, i) = {t} /\ t.offer = Sell[i]
          /\ \E t \in Receives(tx, i) : Receives(tx, i) = {t} /\ t.offer = Buy[i]

(* The order o closes into a ring of trades: each node sells what the one *)
(* before it buys, and the first sells what the last buys.  sort_cycle    *)
(* checks the first of these for every step it takes; nothing checks the  *)
(* closing one.                                                            *)
PaysPredecessor(o) == \A k \in 2..Len(o) : Sell[o[k]] = Buy[o[k - 1]]
ClosesRing(o) == Sell[o[1]] = Buy[o[Len(o)]]

=============================================================================
