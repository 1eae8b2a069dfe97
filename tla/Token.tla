------------------------------- MODULE Token -------------------------------
(***************************************************************************)
(* The fungible token of one token address: its validity predicate         *)
(* token::vp, the transfer a tx makes with token::transfer (vm_env's        *)
(* token.rs) and the tx_transfer WASM that calls it, run over the balances  *)
(* of a few owners.                                                         *)
(*                                                                         *)
(* A step is one whole tx: its code runs over the write log (tx::read       *)
(* sees the committed balance, tx::write stages a value), its verifiers are *)
(* discovered from the keys it changed, the token VP judges the writes      *)
(* (vp::read_pre / vp::read_post), and the writes are committed when it    *)
(* accepts or dropped when it rejects or the tx code traps.  The owners'    *)
(* own VPs (vp_user) are not in src/; they are taken to accept, as the      *)
(* spec's transfer scenario has them do.                                    *)
(*                                                                         *)
(* A balance key holds the Borsh bytes of an Amount (a W-bit unsigned      *)
(* integer), nothing, or bytes that do not decode as an Amount (a raw tx   *)
(* may write anything).  Amount's spend and receive are not in src/: on    *)
(* underflow or overflow they wrap (WASM built without overflow checks,   *)
(* Rust's release default) or trap (built with them): the constant Wraps.  *)
(***************************************************************************)
EXTENDS Integers, FiniteSets, FiniteSetsExt, Functions, TLC

CONSTANTS
    Owners,     \* the owners' addresses
    TokenAddr,  \* the token's address
    W,          \* bits of an Amount
    Genesis,    \* owner -> the balance stored at genesis
    Amounts,    \* the amounts transfers carry
    RawTxs,     \* txs with hand-written balance writes: [writes, explicit]
    AddrRule,   \* "all": every address in a key is a verifier; "leading": only the first
    Wraps,      \* Amount arithmetic wraps (TRUE) or traps (FALSE) on under/overflow
    Absent,     \* no value under the key
    Garbage,    \* bytes that do not decode as an Amount
    Trap        \* the tx code trapped

Modulus == 2 ^ W
AmountVal == 0..(Modulus - 1)
Stored == AmountVal \cup {Absent, Garbage}

ASSUME TokenAssumption ==
    /\ W \in Nat \ {0}
    /\ TokenAddr \notin Owners
    /\ Genesis \in [Owners -> Stored]
    /\ Amounts \subseteq AmountVal
    /\ {Absent, Garbage, Trap} \cap AmountVal = {}
    /\ \A r \in RawTxs : /\ DOMAIN r.writes \subseteq Owners
                         /\ \A o \in DOMAIN r.writes : r.writes[o] \in Stored
                         /\ r.explicit \subseteq Owners \cup {TokenAddr}
    /\ AddrRule \in {"all", "leading"}
    /\ Wraps \in BOOLEAN

VARIABLES
    balance,    \* owner -> what the balance key <token>/balance/<owner> holds
    last        \* the last tx and its verdict (history, for the action property)

vars == <<balance, last>>

(* tx::read / vp::read_*: None when the key is absent or the bytes do not *)
(* decode (T::try_from_slice(..).ok()); unwrap_or_default gives 0 then.   *)
Decodes(v) == v \notin {Absent, Garbage}
Amt(v) == IF Decodes(v) THEN v ELSE 0

(* Amount::spend and Amount::receive: the result, or on under/overflow    *)
(* the wrapped result or a trap.                                            *)
OnOverflow(wrapped) == IF Wraps THEN wrapped ELSE Trap
Spend(a, x) == IF x <= a THEN a - x ELSE OnOverflow(a - x + Modulus)

(* A bug: receive computed in a wider integer, never wrapping. *)
ReceiveNoWrap(a, x) == a + x

Receive(a, x) == IF a + x < Modulus THEN a + x ELSE OnOverflow(a + x - Modulus)

(* tx::write: the value staged in the tx's write log; a later write of  *)
(* the same key replaces it.                                               *)
TxWrite(writes, key, val) ==
    [k \in DOMAIN writes \cup {key} |-> IF k = key THEN val ELSE writes[k]]

(* tx::delete: a delete staged in the write log. *)
TxDelete(writes, key) == TxWrite(writes, key, Absent)

(* tx::insert_verifier: one more explicit verifier. *)
InsertVerifier(explicit, addr) == explicit \cup {addr}

(* token::transfer traps: the source balance does not decode (None:     *)
(* unreachable!), or spend or receive trap on under/overflow.  The        *)
(* destination balance is read with unwrap_or_default.                     *)
TransferTraps(bal, src, dest, x) ==
    \/ ~Decodes(bal[src])
    \/ Spend(bal[src], x) = Trap
    \/ Receive(Amt(bal[dest]), x) = Trap

(* token::transfer otherwise: spend, receive, then write the source and   *)
(* then the destination key.  When src = dest the second write wins, and  *)
(* dest_bal was read before the first write.                               *)
TransferWrites(bal, src, dest, x) ==
    TxWrite(TxWrite(<<>>, src, Spend(bal[src], x)),
            dest, Receive(Amt(bal[dest]), x))

(* The addresses a balance key names: find_addresses gives the token and  *)
(* the owner, the leading-segment rule only the token.                     *)
KeyAddrs(o) == IF AddrRule = "all" THEN {TokenAddr, o} ELSE {TokenAddr}

(* Verifier discovery: the addresses of the changed keys and the explicit *)
(* verifiers.                                                              *)
Verifiers(writes, explicit) == UNION {KeyAddrs(o) : o \in DOMAIN writes} \cup explicit

(* vp::read_post: the value the tx left, from its write log, or else the *)
(* committed one.                                                          *)
ReadPost(bal, writes, o) == IF o \in DOMAIN writes THEN writes[o] ELSE bal[o]

(* The change of one balance key, post.change() - pre.change() (i128),    *)
(* each read with unwrap_or_default.                                       *)
Change(bal, writes, o) == Amt(ReadPost(bal, writes, o)) - Amt(bal[o])

(* A bug: the changes summed in Amount's width, where wraps cancel. *)
TokenVpWrapping(bal, writes, verifiers) ==
    /\ \A o \in DOMAIN writes : Change(bal, writes, o) < 0 => o \in verifiers
    /\ MapThenSumSet(LAMBDA o : Change(bal, writes, o), DOMAIN writes) % Modulus = 0

(* token::vp: every changed key is a balance key of this token (the model *)
(* writes no other key), every debited owner is a verifier, and the        *)
(* changes sum to zero.                                                    *)
TokenVp(bal, writes, verifiers) ==
    /\ \A o \in DOMAIN writes : Change(bal, writes, o) < 0 => o \in verifiers
    /\ MapThenSumSet(LAMBDA o : Change(bal, writes, o), DOMAIN writes) = 0

(* protocol::apply_tx over the write log: the writes are committed when   *)
(* the token VP, run because the token is a verifier, accepts.            *)
Accepts(writes, explicit) ==
    TokenAddr \in Verifiers(writes, explicit) =>
        TokenVp(balance, writes, Verifiers(writes, explicit))

Commit(writes, ok) ==
    balance' = IF ok THEN [o \in Owners |-> ReadPost(balance, writes, o)]
               ELSE balance

-----------------------------------------------------------------------------

Init ==
    /\ balance = Genesis
    /\ last = [kind |-> "none"]

(* The tx_transfer WASM: token::transfer(source, target, token, amount),  *)
(* then verifiers and the VP; a trap drops the tx.                         *)
TxTransfer(src, dest, x) ==
    LET trap == TransferTraps(balance, src, dest, x)
        w == IF trap THEN <<>> ELSE TransferWrites(balance, src, dest, x)
        ok == ~trap /\ Accepts(w, {})
    IN  /\ Commit(w, ok)
        /\ last' = [kind |-> "transfer", src |-> src, dest |-> dest,
                    amount |-> x, ok |-> ok]

(* A tx whose code makes one tx::write or tx::delete per balance key of   *)
(* r.writes and one insert_verifier per address of r.explicit.  Each key   *)
(* is written once, so the order of the writes does not matter: the log   *)
(* holds at each key what its own write staged.                           *)
RawTx(r) ==
    LET Staged(o) == IF r.writes[o] = Absent THEN TxDelete(<<>>, o)
                     ELSE TxWrite(<<>>, o, r.writes[o])
        w == [o \in DOMAIN r.writes |-> Staged(o)[o]]
        v == UNION {InsertVerifier({}, a) : a \in r.explicit}
    IN  /\ Commit(w, Accepts(w, v))
        /\ last' = [kind |-> "raw", ok |-> Accepts(w, v)]

Next ==
    \/ \E s, d \in Owners, x \in Amounts : TxTransfer(s, d, x)
    \/ \E r \in RawTxs : RawTx(r)

Spec == Init /\ [][Next]_vars

-----------------------------------------------------------------------------

TypeOK == balance \in [Owners -> Stored]

Supply(bal) == MapThenSumSet(LAMBDA o : Amt(bal[o]), Owners)

(* No tx, a transfer or one with any hand-written balances, changes the   *)
(* total of the decodable balances: the VP's i128 change sum sees through  *)
(* an Amount that wrapped on spend or receive, and through a self transfer *)
(* whose destination balance was read before the source was written.      *)
SupplyConserved == Supply(balance) = Supply(Genesis)

(* A transfer does what it says or nothing: it is committed exactly when  *)
(* the source holds an Amount of at least the amount, the destination's   *)
(* balance plus the amount fits in an Amount, and source and destination  *)
(* differ or the amount is 0 (a self transfer of a positive amount would  *)
(* credit the amount: dest_bal is read before the source is written); and *)
(* then it moves the amount from the one to the other and touches no      *)
(* other balance.                                                          *)
TransferStepExact ==
    last'.kind = "transfer" =>
         LET s == last'.src  d == last'.dest  x == last'.amount
             fits == /\ Decodes(balance[s]) /\ x <= balance[s]
                     /\ Amt(balance[d]) + x < Modulus
                     /\ s = d => x = 0
         IN  /\ last'.ok <=> fits
             /\ last'.ok => balance' = [balance EXCEPT ![s] = @ - x,
                                                       ![d] = Amt(@) + x]
             /\ ~last'.ok => balance' = balance

(* Every tx_transfer the ledger applies does what it says or nothing.     *)
TransferExact == [][TransferStepExact]_vars

=============================================================================
