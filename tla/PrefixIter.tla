----------------------------- MODULE PrefixIter -----------------------------
(***************************************************************************)
(* Prefix iteration over the block store: RocksDB's key_comparator and     *)
(* iter_prefix with its upper bound, PersistentPrefixIterator::next, which  *)
(* strips the "<height>/subspace/" part of each key (rocksdb.rs), and the   *)
(* table of iterators a WASM run holds, PrefixIterators (prefix_iter.rs).   *)
(*                                                                         *)
(* The guest side is tx::iter_prefix and KeyValIterator::next            *)
(* (vm_env imports.rs): a tx's `for (key, val) in iter_prefix(p)' loop,   *)
(* whose next decodes each value and returns None when it does not decode *)
(* as the loop's type.                                                      *)
(*                                                                         *)
(* A DB key is a string, a sequence of byte values.  The DB is read-only   *)
(* during a WASM run (blocks are written at commit), so its keys are a     *)
(* constant; a RocksDB iterator is the sequence of the keys between its    *)
(* bounds in comparator order.  Values and gas are left out.                *)
(***************************************************************************)
EXTENDS Integers, Sequences, FiniteSets, SequencesExt, TLC

CONSTANTS
    DbKeys,     \* the keys the DB holds (strings)
    Heights,    \* the heights an iterator may be opened at
    KeyPrefixes,   \* the storage keys (sequences of segments) used as prefixes
    MaxIters,   \* bound on the iterators a run opens
    BadValues,  \* the keys whose value does not decode as the guest's type
    None        \* what next returns past the end

ASSUME PrefixIterAssumption ==
    /\ DbKeys \subseteq Seq(0..255)
    /\ Heights \subseteq Nat
    /\ KeyPrefixes \subseteq Seq(Seq(0..255) \ {<<>>}) \ {<<>>}
    /\ MaxIters \in Nat
    /\ BadValues \subseteq DbKeys
    /\ None \notin Seq(0..255)

VARIABLES
    index,      \* PrefixIterators.index: the id the next iterator gets
    iterators,  \* PrefixIterators.iterators: id -> the iterator's state
    ret,        \* what the last iter_next returned to the guest
    yielded,    \* id -> the items next has returned so far (history)
    loopGot,    \* id -> the keys the guest's loop received
    loopDone    \* the ids whose guest loop has ended (next gave None)

vars == <<index, iterators, ret, yielded, loopGot, loopDone>>

Slash == 47                 \* '/', KEY_SEGMENT_SEPARATOR

(* Rust's str::split('/'), which keeps empty pieces. *)
RECURSIVE Split(_)
Split(s) ==
    LET i == SelectInSeq(s, LAMBDA c : c = Slash)
    IN  IF i = 0 THEN <<s>>
        ELSE <<SubSeq(s, 1, i - 1)>> \o Split(SubSeq(s, i + 1, Len(s)))

(* Segments joined with '/', Key::to_string. *)
Join(segs) ==
    FoldLeft(LAMBDA acc, seg : IF acc = <<>> THEN seg ELSE acc \o <<Slash>> \o seg,
             <<>>, segs)

(* Ordering results: Less, Equal, Greater. *)
Cmp(a, b) == IF a < b THEN -1 ELSE IF a = b THEN 0 ELSE 1

(* <[u8] as Ord>::cmp, byte by byte, a proper prefix first. *)
RECURSIVE StrCmp(_, _)
StrCmp(a, b) ==
    IF a = <<>> \/ b = <<>> THEN Cmp(Len(a), Len(b))
    ELSE IF Head(a) # Head(b) THEN Cmp(Head(a), Head(b))
    ELSE StrCmp(Tail(a), Tail(b))

(* <[&str] as Ord>::cmp, segment by segment. *)
RECURSIVE SegsCmp(_, _)
SegsCmp(a, b) ==
    IF a = <<>> \/ b = <<>> THEN Cmp(Len(a), Len(b))
    ELSE IF StrCmp(Head(a), Head(b)) # 0 THEN StrCmp(Head(a), Head(b))
    ELSE SegsCmp(Tail(a), Tail(b))

(* str::parse::<u64> succeeds: a non-empty run of ASCII digits. *)
IsU64(seg) == seg # <<>> /\ \A k \in 1..Len(seg) : seg[k] \in 48..57

DecValue(seg) == FoldLeft(LAMBDA acc, c : 10 * acc + (c - 48), 0, seg)

(* A bug: keys of one height are not told apart. *)
KeyComparatorNoTie(a, b) ==
    LET av == Split(a)
        bv == Split(b)
    IN  IF IsU64(av[1]) /\ IsU64(bv[1])
        THEN Cmp(DecValue(av[1]), DecValue(bv[1]))
        ELSE StrCmp(a, b)

(* key_comparator: keys that start with a height compare by the height,  *)
(* then by their other segments; any other pair compares as strings.      *)
KeyComparator(a, b) ==
    LET av == Split(a)
        bv == Split(b)
    IN  IF IsU64(av[1]) /\ IsU64(bv[1])
        THEN IF DecValue(av[1]) = DecValue(bv[1])
             THEN SegsCmp(Tail(av), Tail(bv))
             ELSE Cmp(DecValue(av[1]), DecValue(bv[1]))
        ELSE StrCmp(a, b)

(* BlockHeight::to_string: decimal digits. *)
RECURSIVE DecStr(_)
DecStr(n) == IF n < 10 THEN <<48 + n>> ELSE DecStr(n \div 10) \o <<48 + (n % 10)>>

Subspace == <<115>>        \* "subspace", abbreviated keeping its order

(* format!("{}/subspace/", height) *)
DbPrefix(h) == DecStr(h) \o <<Slash>> \o Subspace \o <<Slash>>

(* The keys of the DB between the bounds, in comparator order. *)
RangeOf(lower, upper) ==
    SetToSortSeq({k \in DbKeys : KeyComparator(k, lower) >= 0
                                 /\ KeyComparator(k, upper) < 0},
                 LAMBDA a, b : KeyComparator(a, b) < 0)

(* A bug: the upper bound is the prefix itself. *)
IterPrefixNoBump(h, p) ==
    LET prefix == DbPrefix(h) \o Join(p)
    IN  [height |-> h, dbPrefix |-> DbPrefix(h), prefix |-> p,
         rest |-> RangeOf(prefix, prefix)]

(* iter_prefix's bounds: seek to "<h>/subspace/<prefix>", stop before   *)
(* the same string with its last byte incremented.                         *)
LowerBound(h, p) == DbPrefix(h) \o Join(p)
UpperBound(h, p) == Front(LowerBound(h, p)) \o <<Last(LowerBound(h, p)) + 1>>

(* RocksDB::iter_prefix *)
IterPrefix(h, p) ==
    [height |-> h, dbPrefix |-> DbPrefix(h), prefix |-> p,
     rest |-> RangeOf(LowerBound(h, p), UpperBound(h, p))]

(* Whether s starts with the string t, and s without it. *)
StartsWith(s, t) == Len(t) <= Len(s) /\ SubSeq(s, 1, Len(t)) = t
StripPrefix(s, t) == SubSeq(s, Len(t) + 1, Len(s))

(* PersistentPrefixIterator::next: the first key left that starts with   *)
(* the db prefix, stripped (the keys before it are skipped), or None.     *)
PersistentNext(it) ==
    LET i == SelectInSeq(it.rest, LAMBDA k : StartsWith(k, it.dbPrefix))
    IN  IF i = 0 THEN [item |-> None, rest |-> <<>>]
        ELSE [item |-> StripPrefix(it.rest[i], it.dbPrefix),
              rest |-> SubSeq(it.rest, i + 1, Len(it.rest))]

-----------------------------------------------------------------------------

(* PrefixIterators::default *)
Init ==
    /\ index = 0
    /\ iterators = <<>>
    /\ ret = None
    /\ yielded = <<>>
    /\ loopGot = <<>>
    /\ loopDone = {}

(* A bug: the id is handed out but index is not advanced. *)
InsertNoBump(it) ==
    /\ iterators' = (index :> it) @@ iterators
    /\ UNCHANGED index

(* PrefixIteratorId::next_id. *)
NextId(id) == id + 1

(* PrefixIterators::insert: store under index, then index = next_id. *)
Insert(it) ==
    /\ iterators' = (index :> it) @@ iterators
    /\ index' = NextId(index)

(* tx::iter_prefix and the host's iter_prefix: open a DB iterator, insert *)
(* it, and hand its id to the guest's KeyValIterator.                      *)
OpenIter(h, p) ==
    /\ index < MaxIters
    /\ Insert(IterPrefix(h, p))
    /\ yielded' = (index :> <<>>) @@ yielded
    /\ loopGot' = (index :> <<>>) @@ loopGot
    /\ UNCHANGED <<ret, loopDone>>

(* The host's iter_next, PrefixIterators::next: an unknown id gives None. *)
IterNext(id) ==
    IF id \in DOMAIN iterators
    THEN LET r == PersistentNext(iterators[id])
         IN  /\ iterators' = [iterators EXCEPT ![id].rest = r.rest]
             /\ ret' = r.item
             /\ yielded' = IF r.item = None THEN yielded
                            ELSE [yielded EXCEPT ![id] = Append(@, r.item)]
             /\ UNCHANGED index
    ELSE /\ ret' = None
         /\ UNCHANGED <<index, iterators, yielded>>

(* One turn of the guest's loop, KeyValIterator::next: the host's         *)
(* iter_next, then the value decoded; a value that does not decode gives  *)
(* None, as the end does, and the loop stops.                              *)
GuestNext(id) ==
    /\ id \notin loopDone
    /\ IterNext(id)
    /\ IF ret' = None \/ DbPrefix(iterators[id].height) \o ret' \in BadValues
       THEN /\ loopDone' = loopDone \cup {id}
            /\ UNCHANGED loopGot
       ELSE /\ loopGot' = [loopGot EXCEPT ![id] = Append(@, ret')]
            /\ UNCHANGED loopDone

Next ==
    \/ \E h \in Heights, p \in KeyPrefixes : OpenIter(h, p)
    \/ \E id \in DOMAIN iterators : GuestNext(id)
    \/ \E id \in (0..MaxIters) \ DOMAIN iterators :
          IterNext(id) /\ UNCHANGED <<loopGot, loopDone>>

Spec == Init /\ [][Next]_vars

-----------------------------------------------------------------------------

Str == Seq(0..255)

(* The shape of the iterator table; ids are handed out 0, 1, 2, ... *)
TypeOK ==
    /\ index \in 0..MaxIters
    /\ DOMAIN iterators = 0..(index - 1)
    /\ DOMAIN yielded = DOMAIN iterators
    /\ \A id \in DOMAIN iterators :
          /\ iterators[id].height \in Heights /\ iterators[id].prefix \in KeyPrefixes
          /\ iterators[id].rest \in Seq(DbKeys)
          /\ yielded[id] \in Seq(Str)
    /\ ret \in Str \cup {None}
    /\ DOMAIN loopGot = DOMAIN iterators
    /\ loopDone \subseteq DOMAIN iterators

(* The storage keys at height h that start with the string of prefix p, *)
(* in the order of their segments.                                        *)
StringPrefixKeys(h, p) ==
    SetToSortSeq({StripPrefix(k, DbPrefix(h)) :
                    k \in {k \in DbKeys : StartsWith(k, DbPrefix(h) \o Join(p))}},
                 LAMBDA a, b : SegsCmp(Split(a), Split(b)) < 0)

(* key_comparator orders the keys the DB holds and the bounds of the open *)
(* iterators totally: it is antisymmetric, tells distinct keys apart and  *)
(* is transitive, as RocksDB requires of a comparator (the numeric height *)
(* order and the string order meet on these keys without a cycle).         *)
KeyOrderTotal ==
    LET K == DbKeys \cup UNION {{LowerBound(it.height, it.prefix),
                                 UpperBound(it.height, it.prefix)} : it \in Range(iterators)}
    IN
    /\ \A a, b \in K :
          /\ KeyComparator(a, b) = -KeyComparator(b, a)
          /\ KeyComparator(a, b) = 0 => a = b
    /\ \A a, b, c \in K :
          KeyComparator(a, b) < 0 /\ KeyComparator(b, c) < 0 => KeyComparator(a, c) < 0

(* Seeking from the prefix under the segment-wise comparator and stopping *)
(* at the byte-incremented bound yields, in ascending order, exactly the  *)
(* keys of that height whose string starts with the prefix's string: what *)
(* next has returned is a prefix of that list, and all of it once the     *)
(* iterator is spent.                                                      *)
IterYieldsPrefixRange ==
    \A id \in DOMAIN iterators :
        LET ref == StringPrefixKeys(iterators[id].height, iterators[id].prefix)
        IN  /\ IsPrefix(yielded[id], ref)
            /\ iterators[id].rest = <<>> => yielded[id] = ref

(* The longest run of keys at the front of ks whose values decode. *)
DecodableRun(h, ks) ==
    LET bad == SelectInSeq(ks, LAMBDA k : DbPrefix(h) \o k \in BadValues)
    IN  IF bad = 0 THEN ks ELSE SubSeq(ks, 1, bad - 1)

(* Every key an iterator yields has the prefix's segments as its first    *)
(* segments (the spec: iterating a prefix that is a full key returns      *)
(* exactly that key if present).                                           *)
SegmentPrefixOnly ==
    \A id \in DOMAIN iterators :
        \A k \in ToSet(yielded[id]) : IsPrefix(iterators[id].prefix, Split(k))

=============================================================================
