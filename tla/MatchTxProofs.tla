--------------------------- MODULE MatchTxProofs ---------------------------
(***************************************************************************)
(* What create_and_send_tx_data builds, for a cycle of any length.  For an *)
(* order o of distinct intents, the tx has one transfer per position k:   *)
(* o[k] pays its predecessor (the last node, for k = 1).  So every intent *)
(* sends exactly one transfer and receives exactly one, and the one it     *)
(* receives is always what it buys; the one it sends is what it sells      *)
(* exactly when o is a ring of trades.                                     *)
(***************************************************************************)
EXTENDS MatchTx, TLAPS

(* The position whose node o[k] pays, and the one that pays o[k]. *)
Pred(o, k) == IF k = 1 THEN Len(o) ELSE k - 1
Succ(o, k) == IF k = Len(o) THEN 1 ELSE k + 1
Pay(o, k) == Transfer(o[k], o[Pred(o, k)])

(* The transfers of TxData(o) are the payments of its positions. *)
LEMMA TransfersArePayments ==
    ASSUME NEW o \in Seq(Intents), Len(o) >= 2
    PROVE  TxData(o).transfers = {Pay(o, k) : k \in 1..Len(o)}
<1>1. \A k \in 2..Len(o) : Pay(o, k) = Transfer(o[k], o[k - 1])
    BY DEF Pay, Pred
<1>2. Pay(o, 1) = Transfer(o[1], o[Len(o)])
    BY DEF Pay, Pred
<1>3. 1..Len(o) = {1} \cup 2..Len(o)
    OBVIOUS
<1>. HIDE DEF Pay
<1>. QED
    BY <1>1, <1>2, <1>3 DEF TxData

(* In an order of distinct intents, o[k] sends only the payment of k. *)
LEMMA SendsOne ==
    ASSUME NEW o \in Seq(Intents), Len(o) >= 2, IsInjective(o),
           NEW j \in 1..Len(o)
    PROVE  Sends(TxData(o), o[j]) = {Pay(o, j)}
<1>1. \A k \in 1..Len(o) : Pay(o, k).src = o[j] => k = j
    BY DEF Pay, Transfer, IsInjective
<1>. QED
    BY <1>1, TransfersArePayments DEF Sends, Pay, Transfer

(* ... and receives only the payment of the position after it. *)
LEMMA ReceivesOne ==
    ASSUME NEW o \in Seq(Intents), Len(o) >= 2, IsInjective(o),
           NEW j \in 1..Len(o)
    PROVE  Receives(TxData(o), o[j]) = {Pay(o, Succ(o, j))}
<1>1. \A k \in 1..Len(o) : Pay(o, k).dst = o[j] => k = Succ(o, j)
    <2>. SUFFICES ASSUME NEW k \in 1..Len(o), Pay(o, k).dst = o[j]
                  PROVE  k = Succ(o, j)
        OBVIOUS
    <2>1. Pred(o, k) \in 1..Len(o) /\ o[Pred(o, k)] = o[j]
        BY DEF Pay, Pred, Transfer
    <2>2. Pred(o, k) = j
        BY <2>1 DEF IsInjective
    <2>. QED
        BY <2>2 DEF Pred, Succ
<1>2. Succ(o, j) \in 1..Len(o) /\ Pay(o, Succ(o, j)).dst = o[j]
    BY DEF Succ, Pred, Pay, Transfer
<1>3. TxData(o).transfers = {Pay(o, k) : k \in 1..Len(o)}
    BY TransfersArePayments
<1>. HIDE DEF Pay
<1>. QED
    BY <1>1, <1>2, <1>3 DEF Receives

(* Every tx create_and_send_tx_data builds from an order of distinct      *)
(* intents settles them (each gives what it sells, gets what it buys,     *)
(* trades only inside the tx) exactly when the order is a ring of trades: *)
(* each node sells what the one before it buys, and the first sells what  *)
(* the last buys.  sort_cycle makes sure of the first half only, so the   *)
(* closing trade is the one the template can get wrong (MatchSound and    *)
(* the run mm_twin_ring).                                                  *)
THEOREM TxBalancedIffRing ==
    ASSUME NEW o \in Seq(Intents), Len(o) >= 2, IsInjective(o)
    PROVE  Balanced(TxData(o)) <=> PaysPredecessor(o) /\ ClosesRing(o)
<1> DEFINE tx == TxData(o)
<1>1. tx.intents = {o[j] : j \in 1..Len(o)}
    BY DEF TxData, ToSet
<1>2. \A k \in 1..Len(o) : Pay(o, k).offer = Buy[o[Pred(o, k)]]
    BY DEF Pay, Transfer
<1>3. \A t \in tx.transfers : {t.src, t.dst} \subseteq tx.intents
    <2>. SUFFICES ASSUME NEW k \in 1..Len(o)
                  PROVE  {Pay(o, k).src, Pay(o, k).dst} \subseteq tx.intents
        BY TransfersArePayments
    <2>1. Pred(o, k) \in 1..Len(o)
        BY DEF Pred
    <2>. QED
        BY <1>1, <2>1 DEF Pay, Transfer
<1> DEFINE GivesSell(i) ==
             \E t \in Sends(tx, i) : Sends(tx, i) = {t} /\ t.offer = Sell[i]
           GetsBuy(i) ==
             \E t \in Receives(tx, i) : Receives(tx, i) = {t} /\ t.offer = Buy[i]
<1>4. \A j \in 1..Len(o) : GetsBuy(o[j])
    <2>. SUFFICES ASSUME NEW j \in 1..Len(o)
                  PROVE  Pay(o, Succ(o, j)).offer = Buy[o[j]]
        BY ReceivesOne
    <2>1. Succ(o, j) \in 1..Len(o) /\ Pred(o, Succ(o, j)) = j
        BY DEF Succ, Pred
    <2>. QED
        BY <1>2, <2>1
<1>5. (\A j \in 1..Len(o) : GivesSell(o[j]))
      <=> \A j \in 1..Len(o) : Buy[o[Pred(o, j)]] = Sell[o[j]]
    BY <1>2, SendsOne
<1>6. (\A j \in 1..Len(o) : Buy[o[Pred(o, j)]] = Sell[o[j]])
      <=> PaysPredecessor(o) /\ ClosesRing(o)
    BY DEF Pred, PaysPredecessor, ClosesRing
<1>7. Balanced(tx) <=> /\ \A t \in tx.transfers : {t.src, t.dst} \subseteq tx.intents
                       /\ \A i \in tx.intents : GivesSell(i) /\ GetsBuy(i)
    BY DEF Balanced
<1>. HIDE DEF tx, GivesSell, GetsBuy
<1>8. (\A i \in tx.intents : GivesSell(i) /\ GetsBuy(i))
      <=> \A j \in 1..Len(o) : GivesSell(o[j]) /\ GetsBuy(o[j])
    BY <1>1, Zenon
<1>9. Balanced(tx) <=> PaysPredecessor(o) /\ ClosesRing(o)
    BY <1>3, <1>4, <1>5, <1>6, <1>7, <1>8, Zenon
<1>. QED
    BY <1>9 DEF tx

=============================================================================
