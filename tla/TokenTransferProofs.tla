------------------------- MODULE TokenTransferProofs -------------------------
(* A tx_transfer does exactly what it says or nothing, for every width of  *)
(* Amount and every set of owners, when Amount's arithmetic traps on      *)
(* under/overflow (a WASM built with overflow checks) and verifiers are    *)
(* found with find_addresses.  The argument: a transfer traps exactly when *)
(* the source has no Amount, is overdrawn or the destination would        *)
(* overflow; otherwise the token VP's change sum over the two written     *)
(* keys is -x + x = 0 and the debited source is a verifier, while a self  *)
(* transfer writes one key whose change is x, which the VP accepts only   *)
(* when x = 0.                                                             *)
EXTENDS TokenProofs

(* The change sum the token VP computes over the keys a tx changed. *)
VpSum(bal, w) == MapThenSumSet(LAMBDA o : Change(bal, w, o), DOMAIN w)

\* The token VP is the verifier check on each debited key and a zero change
\* sum.
LEMMA TokenVpSum ==
    ASSUME NEW bal, NEW w, NEW v
    PROVE  TokenVp(bal, w, v) <=>
               /\ \A o \in DOMAIN w : Change(bal, w, o) < 0 => o \in v
               /\ VpSum(bal, w) = 0
BY DEF TokenVp, VpSum

\* The change sum over a write log of one key is that key's change.
LEMMA VpSumOne ==
    ASSUME NEW bal, NEW w, NEW a, DOMAIN w = {a}, Change(bal, w, a) \in Int
    PROVE  VpSum(bal, w) = Change(bal, w, a)
<1> DEFINE C(o) == Change(bal, w, o)
           G(h) == [s \in SUBSET DOMAIN w |->
                      IF s = {} THEN 0
                      ELSE C(CHOOSE x \in s : TRUE) + h[s \ {CHOOSE x \in s : TRUE}]]
           it == CHOOSE iter : iter = G(iter)
           g == [s \in SUBSET DOMAIN w |-> IF s = {} THEN 0 ELSE C(a)]
<1>1. g = G(g)
    OBVIOUS
<1>2. it = G(it)
    BY <1>1
<1>3. it[{}] = 0
    BY <1>2
<1>4. it[{a}] = C(a) + it[{}]
    BY <1>2
<1>5. VpSum(bal, w) = it[DOMAIN w]
    BY DEF VpSum, MapThenSumSet, MapThenFoldSet
<1>. QED
    BY <1>3, <1>4, <1>5

\* The change sum over a write log of two keys is the sum of their changes.
LEMMA VpSumPair ==
    ASSUME NEW bal, NEW w, NEW a, NEW b, a # b, DOMAIN w = {a, b},
           Change(bal, w, a) \in Int, Change(bal, w, b) \in Int
    PROVE  VpSum(bal, w) = Change(bal, w, a) + Change(bal, w, b)
<1> DEFINE C(o) == Change(bal, w, o)
           G(h) == [s \in SUBSET DOMAIN w |->
                      IF s = {} THEN 0
                      ELSE C(CHOOSE x \in s : TRUE) + h[s \ {CHOOSE x \in s : TRUE}]]
           it == CHOOSE iter : iter = G(iter)
           g == [s \in SUBSET DOMAIN w |->
                   IF s = {} THEN 0
                   ELSE IF s = {a} THEN C(a)
                   ELSE IF s = {b} THEN C(b)
                   ELSE C(a) + C(b)]
<1>1. g = G(g)
    <2>1. SUFFICES ASSUME NEW s \in SUBSET DOMAIN w PROVE g[s] = G(g)[s]
        OBVIOUS
    <2>2. s = {} \/ s = {a} \/ s = {b} \/ s = {a, b}
        OBVIOUS
    <2>3. CASE s = {a, b}
        <3> DEFINE c == CHOOSE x \in s : TRUE
        <3>1. G(g)[s] = C(c) + g[s \ {c}]
            BY <2>3
        <3>2. g[s] = C(a) + C(b)
            BY <2>3
        <3>3. CASE c = a
            BY <2>3, <3>1, <3>2, <3>3
        <3>4. CASE c = b
            <4>1. s \ {c} = {a}
                BY <2>3, <3>4
            <4>2. g[{a}] = C(a)
                OBVIOUS
            <4>. QED
                BY <3>1, <3>2, <3>4, <4>1, <4>2
        <3>. QED
            BY <2>3, <3>3, <3>4
    <2>. QED
        BY <2>2, <2>3
<1>2. it = G(it)
    BY <1>1
<1>3. it[{}] = 0 /\ it[{a}] = C(a) + it[{}] /\ it[{b}] = C(b) + it[{}]
    BY <1>2
<1>4. it[{a, b}] = C(a) + C(b)
    <2> DEFINE c == CHOOSE x \in {a, b} : TRUE
    <2>1. it[{a, b}] = C(c) + it[{a, b} \ {c}]
        BY <1>2
    <2>2. CASE c = a
        <3>1. {a, b} \ {c} = {b}
            BY <2>2
        <3>. QED
            BY <1>3, <2>1, <2>2, <3>1
    <2>3. CASE c = b
        <3>1. {a, b} \ {c} = {a}
            BY <2>3
        <3>. QED
            BY <1>3, <2>1, <2>3, <3>1
    <2>. QED
        BY <2>2, <2>3
<1>5. VpSum(bal, w) = it[DOMAIN w]
    BY DEF VpSum, MapThenSumSet, MapThenFoldSet
<1>. QED
    BY <1>4, <1>5

(* The room a transfer needs: the source holds an Amount covering the     *)
(* amount and the destination can take it without overflowing.           *)
Room(bal, s, d, x) ==
    /\ Decodes(bal[s]) /\ x <= bal[s]
    /\ Amt(bal[d]) + x < Modulus

\* A stored value that is an Amount decodes to itself.
LEMMA AmtOfAmount ==
    ASSUME NEW v \in AmountVal
    PROVE  Decodes(v) /\ Amt(v) = v
BY TokenAssumption DEF Decodes, Amt

\* With overflow-checked arithmetic, token::transfer traps exactly when
\* there is no room: a missing or undecodable source balance, an overdraft
\* (spend underflows) or a destination that would overflow (receive).
LEMMA TrapsExactly ==
    ASSUME ~Wraps, TypeOK, NEW s \in Owners, NEW d \in Owners,
           NEW x \in AmountVal
    PROVE  TransferTraps(balance, s, d, x) <=> ~Room(balance, s, d, x)
<1> DEFINE bal == balance
<1>0. bal \in [Owners -> Stored]
    BY DEF TypeOK
<1>1. CASE ~Decodes(bal[s])
    BY <1>1 DEF TransferTraps, Room
<1>2. CASE Decodes(bal[s])
    <2>1. bal[s] \in AmountVal
        BY <1>0, <1>2 DEF Decodes, Stored
    <2>2. Amt(bal[d]) \in AmountVal
        BY <1>0, AmtType
    <2>3. Spend(bal[s], x) = Trap <=> ~(x <= bal[s])
        <3>1. CASE x <= bal[s]
            <4>1. bal[s] - x \in AmountVal
                BY <2>1, <3>1, ModulusInt DEF AmountVal
            <4>. QED
                BY <3>1, <4>1, TokenAssumption DEF Spend
        <3>2. CASE ~(x <= bal[s])
            BY <3>2 DEF Spend, OnOverflow
        <3>. QED
            BY <3>1, <3>2
    <2>4. Receive(Amt(bal[d]), x) = Trap <=> ~(Amt(bal[d]) + x < Modulus)
        <3>1. CASE Amt(bal[d]) + x < Modulus
            <4>1. Amt(bal[d]) + x \in AmountVal
                BY <2>2, <3>1, ModulusInt DEF AmountVal
            <4>. QED
                BY <3>1, <4>1, TokenAssumption DEF Receive
        <3>2. CASE ~(Amt(bal[d]) + x < Modulus)
            BY <3>2 DEF Receive, OnOverflow
        <3>. QED
            BY <3>1, <3>2
    <2>. QED
        BY <1>2, <2>3, <2>4 DEF TransferTraps, Room
<1>. QED
    BY <1>1, <1>2

\* With room, token::transfer stages the source balance less the amount at
\* the source key and the destination balance plus the amount at the
\* destination key (only the latter when they are the same key), both
\* Amounts.
LEMMA RoomWrites ==
    ASSUME TypeOK, NEW s \in Owners, NEW d \in Owners, NEW x \in AmountVal,
           Room(balance, s, d, x)
    PROVE  /\ balance[s] \in AmountVal /\ Amt(balance[d]) \in AmountVal
           /\ balance[s] - x \in AmountVal /\ Amt(balance[d]) + x \in AmountVal
           /\ DOMAIN TransferWrites(balance, s, d, x) = {s, d}
           /\ TransferWrites(balance, s, d, x)[d] = Amt(balance[d]) + x
           /\ s # d => TransferWrites(balance, s, d, x)[s] = balance[s] - x
<1>1. balance[s] \in AmountVal /\ Amt(balance[d]) \in AmountVal
    BY AmtType DEF TypeOK, Room, Decodes, Stored
<1>2. balance[s] - x \in AmountVal /\ Amt(balance[d]) + x \in AmountVal
    BY <1>1, ModulusInt DEF Room, AmountVal
<1>3. /\ Spend(balance[s], x) = balance[s] - x
      /\ Receive(Amt(balance[d]), x) = Amt(balance[d]) + x
    BY DEF Room, Spend, Receive
<1>. QED
    BY <1>1, <1>2, <1>3 DEF TransferWrites, TxWrite

\* With find_addresses, the verifiers of a transfer's write log are the
\* token and the owners whose keys it wrote.
LEMMA TransferVerifiers ==
    ASSUME AddrRule = "all", NEW w, DOMAIN w # {}
    PROVE  Verifiers(w, {}) = {TokenAddr} \cup DOMAIN w
BY DEF Verifiers, KeyAddrs

\* The change the token VP computes for a key the tx set to an Amount: that
\* Amount less what the key held before (0 when it held none).
LEMMA ChangeOfAmount ==
    ASSUME NEW bal, NEW w, NEW o \in DOMAIN w, w[o] \in AmountVal
    PROVE  Change(bal, w, o) = w[o] - Amt(bal[o])
<1>1. Amt(w[o]) = w[o]
    BY AmtOfAmount
<1>. QED
    BY <1>1 DEF Change, ReadPost

\* A transfer between two owners with room is accepted by the token VP: the
\* source's change is -x and it is a verifier, the destination's is +x.
LEMMA PairAccepted ==
    ASSUME TypeOK, AddrRule = "all", NEW s \in Owners, NEW d \in Owners,
           s # d, NEW x \in AmountVal, Room(balance, s, d, x)
    PROVE  Accepts(TransferWrites(balance, s, d, x), {})
<1> DEFINE w == TransferWrites(balance, s, d, x)
<1>1. balance \in [Owners -> Stored]
    BY DEF TypeOK
<1>2. /\ balance[s] \in AmountVal /\ Amt(balance[d]) \in AmountVal
      /\ balance[s] - x \in AmountVal /\ Amt(balance[d]) + x \in AmountVal
      /\ DOMAIN w = {s, d}
      /\ w[d] = Amt(balance[d]) + x /\ w[s] = balance[s] - x
    <2>1. w = TransferWrites(balance, s, d, x)
        OBVIOUS
    <2>. HIDE DEF w
    <2>. QED
        BY <2>1, RoomWrites
<1>3. Amt(balance[s]) = balance[s]
    BY <1>2, AmtOfAmount
<1>4. Change(balance, w, s) = -x
    <2>1. Change(balance, w, s) = (balance[s] - x) - balance[s]
        BY <1>2, <1>3, ChangeOfAmount
    <2>. QED
        BY <1>2, <2>1, ModulusInt DEF AmountVal
<1>5. Change(balance, w, d) = x
    <2>1. Change(balance, w, d) = (Amt(balance[d]) + x) - Amt(balance[d])
        BY <1>2, ChangeOfAmount
    <2>. QED
        BY <1>2, <2>1, ModulusInt DEF AmountVal
<1>6. VpSum(balance, w) = 0
    BY <1>2, <1>4, <1>5, VpSumPair, ModulusInt DEF AmountVal
<1>7. Verifiers(w, {}) = {TokenAddr, s, d}
    <2>1. DOMAIN w = {s, d}
        BY <1>2
    <2>. HIDE DEF w
    <2>2. Verifiers(w, {}) = {TokenAddr} \cup DOMAIN w
        BY <2>1, TransferVerifiers
    <2>. QED
        BY <2>1, <2>2
<1>8. \A o \in DOMAIN w : Change(balance, w, o) < 0 => o \in {TokenAddr, s, d}
    BY <1>2
<1>. QED
    BY <1>6, <1>7, <1>8, TokenVpSum DEF Accepts

\* A self transfer with room writes the one key, its balance plus the
\* amount, and the token VP accepts it exactly when the amount is 0.
LEMMA SelfAccepted ==
    ASSUME TypeOK, AddrRule = "all", NEW s \in Owners, NEW x \in AmountVal,
           Room(balance, s, s, x)
    PROVE  /\ DOMAIN TransferWrites(balance, s, s, x) = {s}
           /\ TransferWrites(balance, s, s, x)[s] = balance[s] + x
           /\ Accepts(TransferWrites(balance, s, s, x), {}) <=> x = 0
<1> DEFINE w == TransferWrites(balance, s, s, x)
<1>1. balance \in [Owners -> Stored]
    BY DEF TypeOK
<1>2. /\ balance[s] \in AmountVal /\ Amt(balance[s]) \in AmountVal
      /\ Amt(balance[s]) + x \in AmountVal
      /\ DOMAIN w = {s, s} /\ w[s] = Amt(balance[s]) + x
    <2>1. w = TransferWrites(balance, s, s, x)
        OBVIOUS
    <2>. HIDE DEF w
    <2>. QED
        BY <2>1, RoomWrites
<1>3. Amt(balance[s]) = balance[s]
    BY <1>2, AmtOfAmount
<1>4. DOMAIN w = {s} /\ w[s] = balance[s] + x /\ w[s] \in AmountVal
    BY <1>2, <1>3
<1>5. Change(balance, w, s) = x
    <2>1. Change(balance, w, s) = (balance[s] + x) - balance[s]
        BY <1>2, <1>3, <1>4, ChangeOfAmount
    <2>. QED
        BY <1>2, <2>1, ModulusInt DEF AmountVal
<1>6. VpSum(balance, w) = x
    BY <1>4, <1>5, VpSumOne, ModulusInt DEF AmountVal
<1>7. Verifiers(w, {}) = {TokenAddr, s}
    <2>1. DOMAIN w = {s, s}
        BY <1>4
    <2>2. {TokenAddr, s, s} = {TokenAddr, s}
        OBVIOUS
    <2>. HIDE DEF w
    <2>3. Verifiers(w, {}) = {TokenAddr} \cup DOMAIN w
        BY <2>1, TransferVerifiers
    <2>. QED
        BY <2>1, <2>2, <2>3
<1>8. ~(Change(balance, w, s) < 0)
    BY <1>5, ModulusInt DEF AmountVal
<1>. QED
    BY <1>4, <1>6, <1>7, <1>8, TokenVpSum DEF Accepts

\* One tx_transfer, with overflow-checked arithmetic and find_addresses:
\* committed exactly when there is room and it is not a self transfer of a
\* positive amount, and then it moves the amount and nothing else.
LEMMA TransferStep ==
    ASSUME TypeOK, AddrRule = "all", ~Wraps, NEW s \in Owners,
           NEW d \in Owners, NEW x \in Amounts, TxTransfer(s, d, x)
    PROVE  TransferStepExact
<1> DEFINE trap == TransferTraps(balance, s, d, x)
           w == IF trap THEN <<>> ELSE TransferWrites(balance, s, d, x)
           ok == ~trap /\ Accepts(w, {})
           fits == Room(balance, s, d, x) /\ (s = d => x = 0)
           moved == [balance EXCEPT ![s] = @ - x, ![d] = Amt(@) + x]
<1>1. x \in AmountVal /\ balance \in [Owners -> Stored]
    BY TokenAssumption DEF TypeOK
<1>2. /\ Commit(w, ok)
      /\ last' = [kind |-> "transfer", src |-> s, dest |-> d, amount |-> x, ok |-> ok]
    BY DEF TxTransfer
<1>3. SUFFICES /\ ok <=> fits
               /\ ok => balance' = moved
               /\ ~ok => balance' = balance
    BY <1>2 DEF TransferStepExact, Room
<1>4. ~ok => balance' = balance
    BY <1>2 DEF Commit
<1>5. ok => balance' = [o \in Owners |-> ReadPost(balance, w, o)]
    BY <1>2 DEF Commit
<1>6. trap <=> ~Room(balance, s, d, x)
    BY <1>1, TrapsExactly
<1>7. CASE trap
    BY <1>4, <1>6, <1>7
<1>8. CASE ~trap /\ s # d
    <2>1. Room(balance, s, d, x)
        BY <1>6, <1>8
    <2>2. w = TransferWrites(balance, s, d, x)
        BY <1>8
    <2>3. ok
        BY <1>1, <1>8, <2>1, <2>2, PairAccepted
    <2>4. /\ DOMAIN w = {s, d}
          /\ w[d] = Amt(balance[d]) + x /\ w[s] = balance[s] - x
        BY <1>1, <1>8, <2>1, <2>2, RoomWrites
    <2>5. [o \in Owners |-> ReadPost(balance, w, o)] = moved
        BY <1>1, <1>8, <2>4 DEF ReadPost
    <2>. QED
        BY <1>5, <1>8, <2>1, <2>3, <2>5
<1>9. CASE ~trap /\ s = d
    <2>1. Room(balance, s, s, x)
        BY <1>6, <1>9
    <2>2. w = TransferWrites(balance, s, s, x)
        BY <1>9
    <2>3. /\ DOMAIN w = {s} /\ w[s] = balance[s] + x
          /\ ok <=> x = 0
        BY <1>1, <1>9, <2>1, <2>2, SelfAccepted
    <2>4. ok <=> fits
        BY <1>9, <2>1, <2>3
    <2>5. ASSUME ok PROVE balance' = moved
        <3>1. x = 0
            BY <2>3, <2>5
        <3>2. balance[s] \in AmountVal /\ Amt(balance[s]) = balance[s]
            BY <1>1, <2>1, AmtOfAmount DEF Room, Decodes, Stored
        <3>3. [o \in Owners |-> ReadPost(balance, w, o)] = balance
            BY <1>1, <2>3, <3>1, <3>2 DEF ReadPost, AmountVal
        <3>4. moved = balance
            BY <1>1, <1>9, <3>1, <3>2 DEF AmountVal
        <3>. QED
            BY <1>5, <2>5, <3>3, <3>4
    <2>. QED
        BY <1>4, <2>4, <2>5
<1>. QED
    BY <1>7, <1>8, <1>9

\* With overflow-checked Amount arithmetic (~Wraps) and verifiers found by
\* find_addresses (AddrRule = "all", what the code does), every tx_transfer
\* does exactly what it says or nothing, for every set of owners, every
\* Amount width and whatever hand-written txs run in between: it is
\* committed exactly when the source holds an Amount covering the amount,
\* the destination has room and it is not a self transfer of a positive
\* amount, and it then debits the source and credits the destination by
\* the amount.  Type correctness is the only invariant it needs.  With
\* wrapping arithmetic it fails (run token_wrap_transfer).
THEOREM TransferCorrect ==
    AddrRule = "all" /\ ~Wraps => (Spec => TransferExact)
<1> SUFFICES ASSUME AddrRule = "all", ~Wraps PROVE Spec => TransferExact
    OBVIOUS
<1>1. TypeOK /\ [Next]_vars => [TransferStepExact]_vars
    <2> SUFFICES ASSUME TypeOK, [Next]_vars PROVE [TransferStepExact]_vars
        OBVIOUS
    <2>1. ASSUME NEW s \in Owners, NEW d \in Owners, NEW x \in Amounts,
                 TxTransfer(s, d, x)
          PROVE  TransferStepExact
        BY <2>1, TransferStep
    <2>2. ASSUME NEW r \in RawTxs, RawTx(r) PROVE TransferStepExact
        BY <2>2 DEF RawTx, TransferStepExact
    <2>3. CASE UNCHANGED vars
        BY <2>3
    <2>. QED
        BY <2>1, <2>2, <2>3 DEF Next
<1>. QED
    BY <1>1, TypeCorrect, PTL DEF Spec, TransferExact

=============================================================================
