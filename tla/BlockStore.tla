----------------------------- MODULE BlockStore -----------------------------
(***************************************************************************)
(* What the ledger's block store promises the node, whatever the shell and *)
(* RocksDB do underneath: a last committed block (its height `top' and its *)
(* storage `row') that the node reads back, and the copy of it that a      *)
(* crash leaves (`safeTop', `safeRow').                                    *)
(*                                                                         *)
(*  - a block becomes the last committed one whole and only forward: a     *)
(*    higher height, with a complete row;                                  *)
(*  - persisting copies what the process sees to what a crash leaves;      *)
(*  - a crash brings back the last persisted block, never another;         *)
(*  - a reset empties both.                                                *)
(*                                                                         *)
(* Ledger implements it (Ledger!BS) when no Info request comes in the      *)
(* middle of a block.                                                      *)
(***************************************************************************)
EXTENDS Naturals, TLAPS

CONSTANTS
    MaxHeight,   \* the last height
    Rows,        \* the storages a block row may hold
    NoRow        \* no block

VARIABLES top, row, safeTop, safeRow

vars == <<top, row, safeTop, safeRow>>

Init ==
    /\ top = 0 /\ row = NoRow
    /\ safeTop = 0 /\ safeRow = NoRow

\* A block above the last one is committed with its complete row.
Publish ==
    /\ \E h \in 1..MaxHeight, s \in Rows :
          /\ h > top
          /\ top' = h
          /\ row' = s
    /\ UNCHANGED <<safeTop, safeRow>>

\* What the process sees is made to survive a crash.
Persist ==
    /\ safeTop' = top
    /\ safeRow' = row
    /\ UNCHANGED <<top, row>>

\* A crash: the process sees again what was last persisted.
Restore ==
    /\ top' = safeTop
    /\ row' = safeRow
    /\ UNCHANGED <<safeTop, safeRow>>

\* The store is removed.
Wipe ==
    /\ top' = 0 /\ row' = NoRow
    /\ safeTop' = 0 /\ safeRow' = NoRow

Next == Publish \/ Persist \/ Restore \/ Wipe

Spec == Init /\ [][Next]_vars

\* Heights are in range and rows are rows.
TypeOK ==
    /\ top \in 0..MaxHeight /\ safeTop \in 0..MaxHeight
    /\ row \in Rows \cup {NoRow} /\ safeRow \in Rows \cup {NoRow}

\* What a crash leaves is never ahead of what the process sees, and a
\* height names a complete row.
SafeBehind ==
    /\ safeTop <= top
    /\ top # 0 => row \in Rows
    /\ safeTop # 0 => safeRow \in Rows

\* SafeBehind holds in every behaviour of the block store: a crash never
\* brings back a block above the one the process saw, and never a height
\* without its row.  With the type invariant it is inductive.
THEOREM SafeBehindInvariant ==
    ASSUME MaxHeight \in Nat
    PROVE  Spec => [](TypeOK /\ SafeBehind)
<1> DEFINE Inv == TypeOK /\ SafeBehind
<1>1. Init => Inv
    BY DEF Init, TypeOK, SafeBehind
<1>2. Inv /\ [Next]_vars => Inv'
    <2> SUFFICES ASSUME Inv, [Next]_vars PROVE Inv'
        OBVIOUS
    <2> USE DEF TypeOK, SafeBehind
    <2>1. CASE Publish
        <3>1. PICK h \in 1..MaxHeight, s \in Rows :
                  h > top /\ top' = h /\ row' = s
            BY <2>1 DEF Publish
        <3>. QED
            BY <2>1, <3>1 DEF Publish
    <2>2. CASE Persist \/ Restore \/ Wipe
        BY <2>2 DEF Persist, Restore, Wipe
    <2>3. CASE UNCHANGED vars
        BY <2>3 DEF vars
    <2>. QED
        BY <2>1, <2>2, <2>3 DEF Next
<1>. QED
    BY <1>1, <1>2, PTL DEF Spec

=============================================================================
