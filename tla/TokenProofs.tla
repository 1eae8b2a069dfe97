----------------------------- MODULE TokenProofs -----------------------------
(* Type correctness of the token model for every width of Amount: what   *)
(* Amount's spend and receive return, wrapped or not, is an Amount of W   *)
(* bits or a trap, so every balance key keeps holding an Amount, nothing  *)
(* or undecodable bytes, whichever txs run.                               *)
EXTENDS Token, TLAPS

LEMMA ModulusInt == Modulus \in Int
<1>1. W \in Nat
    BY TokenAssumption
<1>. QED
    BY <1>1, Z3 DEF Modulus

\* Amount::spend of an Amount by an Amount: the difference, or on underflow
\* the difference wrapped into W bits (a - x + 2^W lies in 1..2^W - 1
\* because a < x < 2^W), or a trap.
LEMMA SpendType ==
    ASSUME NEW a \in AmountVal, NEW x \in AmountVal
    PROVE  Spend(a, x) \in AmountVal \cup {Trap}
<1>1. CASE x <= a
    BY <1>1, ModulusInt DEF Spend, AmountVal
<1>2. CASE ~(x <= a)
    <2>1. a - x + Modulus \in AmountVal
        BY <1>2, ModulusInt DEF AmountVal
    <2>. QED
        BY <1>2, <2>1 DEF Spend, OnOverflow
<1>. QED
    BY <1>1, <1>2

\* Amount::receive of an Amount into an Amount: the sum, or on overflow the
\* sum wrapped into W bits (a + x - 2^W lies in 0..2^W - 2), or a trap.
LEMMA ReceiveType ==
    ASSUME NEW a \in AmountVal, NEW x \in AmountVal
    PROVE  Receive(a, x) \in AmountVal \cup {Trap}
<1>1. CASE a + x < Modulus
    BY <1>1, ModulusInt DEF Receive, AmountVal
<1>2. CASE ~(a + x < Modulus)
    <2>1. a + x - Modulus \in AmountVal
        BY <1>2, ModulusInt DEF AmountVal
    <2>. QED
        BY <1>2, <2>1 DEF Receive, OnOverflow
<1>. QED
    BY <1>1, <1>2

\* What tx::read decodes of a stored balance, with unwrap_or_default, is an
\* Amount, once there is any Amount (then 0 is one).
LEMMA AmtType ==
    ASSUME NEW v \in Stored, NEW y \in AmountVal
    PROVE  Amt(v) \in AmountVal
<1>1. 0 \in AmountVal
    BY ModulusInt DEF AmountVal
<1>. QED
    BY <1>1 DEF Amt, Decodes, Stored

\* A write log of balance keys: each staged value is a stored value.
StagedBalances(w) == DOMAIN w \subseteq Owners /\ \A o \in DOMAIN w : w[o] \in Stored

\* The empty write log of a tx that wrote nothing.
LEMMA EmptyStaged == StagedBalances(<<>>)
BY DEF StagedBalances

\* token::transfer, when it does not trap, stages an Amount at the source
\* key and at the destination key, whatever the balances and the amount.
LEMMA TransferWritesType ==
    ASSUME NEW bal \in [Owners -> Stored], NEW src \in Owners,
           NEW dest \in Owners, NEW x \in AmountVal,
           ~TransferTraps(bal, src, dest, x)
    PROVE  StagedBalances(TransferWrites(bal, src, dest, x))
<1> DEFINE sb == Spend(bal[src], x)
           rb == Receive(Amt(bal[dest]), x)
<1>1. Decodes(bal[src]) /\ sb # Trap /\ rb # Trap
    BY DEF TransferTraps
<1>2. bal[src] \in AmountVal
    BY <1>1 DEF Decodes, Stored
<1>3. sb \in AmountVal
    BY <1>1, <1>2, SpendType
<1>4. rb \in AmountVal
    BY <1>1, AmtType, ReceiveType
<1>5. TransferWrites(bal, src, dest, x)
        = [o \in {dest, src} |-> IF o = dest THEN rb ELSE sb]
    BY DEF TransferWrites, TxWrite
<1>. QED
    BY <1>3, <1>4, <1>5 DEF StagedBalances, Stored

\* The write log a raw tx stages holds at each of its keys the value its
\* tx::write or tx::delete put there.
LEMMA RawWritesType ==
    ASSUME NEW r \in RawTxs
    PROVE  LET Staged(o) == IF r.writes[o] = Absent THEN TxDelete(<<>>, o)
                            ELSE TxWrite(<<>>, o, r.writes[o])
           IN  StagedBalances([o \in DOMAIN r.writes |-> Staged(o)[o]])
<1>1. \A o \in DOMAIN r.writes :
          (IF r.writes[o] = Absent THEN TxDelete(<<>>, o)
           ELSE TxWrite(<<>>, o, r.writes[o]))[o] = r.writes[o]
    BY DEF TxDelete, TxWrite
<1>. QED
    BY <1>1, TokenAssumption DEF StagedBalances

\* Committing a staged write log, or dropping it, keeps every balance key
\* holding a stored value.
LEMMA CommitType ==
    ASSUME TypeOK, NEW w, StagedBalances(w), NEW ok, Commit(w, ok)
    PROVE  TypeOK'
BY DEF Commit, TypeOK, StagedBalances, ReadPost

\* Type correctness of the token: every balance key holds an Amount of W
\* bits, nothing or undecodable bytes in every reachable state, whether
\* Amount's arithmetic wraps or traps, whatever transfers (self transfers,
\* overdrafts, overflows) and hand-written txs run.  TypeOK is inductive.
THEOREM TypeCorrect == Spec => []TypeOK
<1>1. Init => TypeOK
    BY TokenAssumption DEF Init, TypeOK
<1>2. TypeOK /\ [Next]_vars => TypeOK'
    <2> SUFFICES ASSUME TypeOK, [Next]_vars PROVE TypeOK'
        OBVIOUS
    <2>1. ASSUME NEW src \in Owners, NEW dest \in Owners, NEW x \in Amounts,
                 TxTransfer(src, dest, x)
          PROVE  TypeOK'
        <3> DEFINE trap == TransferTraps(balance, src, dest, x)
                   w == IF trap THEN <<>> ELSE TransferWrites(balance, src, dest, x)
                   ok == ~trap /\ Accepts(w, {})
        <3>1. StagedBalances(w)
            BY TransferWritesType, EmptyStaged, TokenAssumption DEF TypeOK
        <3>2. Commit(w, ok)
            BY <2>1 DEF TxTransfer
        <3>. QED
            BY <3>1, <3>2, CommitType
    <2>2. ASSUME NEW r \in RawTxs, RawTx(r)
          PROVE  TypeOK'
        <3> DEFINE Staged(o) == IF r.writes[o] = Absent THEN TxDelete(<<>>, o)
                                ELSE TxWrite(<<>>, o, r.writes[o])
                   w == [o \in DOMAIN r.writes |-> Staged(o)[o]]
                   v == UNION {InsertVerifier({}, a) : a \in r.explicit}
        <3>1. StagedBalances(w)
            BY RawWritesType
        <3>2. Commit(w, Accepts(w, v))
            BY <2>2 DEF RawTx
        <3>. QED
            BY <3>1, <3>2, CommitType
    <2>3. CASE UNCHANGED vars
        BY <2>3 DEF vars, TypeOK
    <2>. QED
        BY <2>1, <2>2, <2>3 DEF Next
<1>. QED
    BY <1>1, <1>2, PTL DEF Spec

=============================================================================
