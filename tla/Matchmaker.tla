----------------------------- MODULE Matchmaker -----------------------------
(***************************************************************************)
(* The intent-gossip matchmaker: the driver of                              *)
(* apps/src/lib/node/gossip/intent_gossiper/matchmaker.rs (filter, intent   *)
(* mempool, one run of the matchmaker WASM per intent, the host calls that  *)
(* try_send commands into a bounded channel, and handle_mm_message), and    *)
(* the matchmaker program wasm/matchmaker_template (add_intent: add the     *)
(* intent as a node of a petgraph DiGraph, search its SCCs, turn each cycle *)
(* into one tx of transfers, remove the matched nodes, store the graph).    *)
(*                                                                         *)
(* An intent is abstract: its owner is the intent itself, and what it      *)
(* sells and buys are offers, a token together with an amount (the         *)
(* template compares both).  The graph keeps petgraph's node indices: a     *)
(* sequence of intents whose first element is node_index(0); remove_node    *)
(* moves the last node into the removed index.  An edge <<i, j>> means i    *)
(* sells what j buys.  The gossip event loop that calls try_match_intent    *)
(* and handle_mm_message is not in src/; it is taken from the spec.  The   *)
(* tx built from a sorted cycle is in MatchTx.                             *)
(***************************************************************************)
EXTENDS MatchTx, Naturals, Sequences, FiniteSets, SequencesExt, Graphs

CONSTANTS
    FilterAccepts,  \* the intents the matchmaker's filter validates
    Malformed,      \* intents whose data does not decode as Signed<Intent>
    Cap,            \* capacity of the matchmaker message channel (100)
    DrainFirst,     \* the loop handles every queued command before the next intent
    RemovesMatched  \* the program calls remove_intents for the ids it matched

ASSUME MatchmakerAssumption ==
    /\ Sell \in [Intents -> Offers] /\ Buy \in [Intents -> Offers]
    /\ FilterAccepts \subseteq Intents /\ Malformed \subseteq Intents
    /\ Cap \in Nat \ {0}
    /\ DrainFirst \in BOOLEAN /\ RemovesMatched \in BOOLEAN

VARIABLES
    pending,    \* intents gossip has not delivered yet
    mempool,    \* IntentMempool: the ids put and not removed
    data,       \* Matchmaker.data: the graph as the program last stored it
    chan,       \* the mpsc channel from WasmHost to the event loop
    submitted,  \* the txs handed to broadcast_tx_commit
    mm          \* "ok", "panicked" (a panic ended the task), "hung"

vars == <<pending, mempool, data, chan, submitted, mm>>

(* Graph::new(), what decode_graph returns for empty data. *)
NewGraph == [nodes |-> <<>>, edges |-> {}]

(* The petgraph graph seen as a graph of the community Graphs module. *)
AsGraph(g) == [node |-> ToSet(g.nodes), edge |-> g.edges]

-----------------------------------------------------------------------------
(***************************** the template *******************************)

(* find_to_update_node: a DFS from node_index(0) visits what it reaches;  *)
(* a visited node buying what the new one sells gets an edge from it,     *)
(* else one selling what it buys gets an edge to it.                       *)
FindToUpdateNode(g, i) ==
    LET start == g.nodes[1]
        seen  == {start} \cup Descendants(AsGraph(g), start)
        sellTo  == {n \in seen : Sell[i] = Buy[n]}
        buyFrom == {n \in seen \ sellTo : Buy[i] = Sell[n]}
    IN  [sell |-> sellTo, buy |-> buyFrom]

(* add_node: graph.add_node, then the edges update_edge adds. *)
AddNode(g, i) ==
    LET g1 == [g EXCEPT !.nodes = Append(@, i)]
        c  == FindToUpdateNode(g1, i)
    IN  [g1 EXCEPT !.edges = @ \cup {<<i, n>> : n \in c.sell}
                               \cup {<<n, i>> : n \in c.buy}]

(* The strongly connected component of n. *)
Scc(g, n) ==
    LET G == AsGraph(g)
    IN  ({n} \cup Descendants(G, n)) \cap ({n} \cup Ancestors(G, n))

(* The components tarjan_scc returns with more than one node. *)
Cycles(g) == {c \in {Scc(g, n) : n \in ToSet(g.nodes)} : Cardinality(c) > 1}

(* sort_cycle's loop: pop the front; keep it if to_connect has an edge to *)
(* it, else push it back.  When every node left was pushed back in a row  *)
(* the loop is back in a state it was in, so it never ends.                *)
RECURSIVE SortLoop(_, _, _, _, _)
SortLoop(E, to, dq, ordered, misses) ==
    IF dq = <<>> THEN [hung |-> FALSE, order |-> Reverse(ordered)]
    ELSE IF misses = Len(dq) THEN [hung |-> TRUE, order |-> ordered]
    ELSE IF <<to, Head(dq)>> \in E
         THEN SortLoop(E, Head(dq), Tail(dq), Append(ordered, Head(dq)), 0)
         ELSE SortLoop(E, to, Append(Tail(dq), Head(dq)), ordered, misses + 1)

(* A bug: the order is not reversed at the end. *)
SortCycleNoReverse(E, cyc) ==
    LET r == SortLoop(E, Head(cyc), Tail(cyc), <<Head(cyc)>>, 0)
    IN  [r EXCEPT !.order = Reverse(@)]

SortCycle(E, cyc) == SortLoop(E, Head(cyc), Tail(cyc), <<Head(cyc)>>, 0)

(* A bug: the last node is copied into index k but not popped. *)
RemoveNodeNoPop(g, k) ==
    LET n == Len(g.nodes)
        id == g.nodes[k]
    IN  IF k > n THEN g
        ELSE [nodes |-> [g.nodes EXCEPT ![k] = g.nodes[n]],
              edges |-> {e \in g.edges : id # e[1] /\ id # e[2]}]

(* graph.remove_node(k): the last node takes index k; out of range is a  *)
(* no-op.                                                                  *)
RemoveNode(g, k) ==
    LET n == Len(g.nodes)
        id == g.nodes[k]
    IN  IF k > n THEN g
        ELSE [nodes |-> IF k = n THEN SubSeq(g.nodes, 1, n - 1)
                        ELSE [SubSeq(g.nodes, 1, n - 1) EXCEPT ![k] = g.nodes[n]],
              edges |-> {e \in g.edges : id # e[1] /\ id # e[2]}]

RECURSIVE RemoveDescending(_, _)
RemoveDescending(g, idx) ==
    IF idx = {} THEN g
    ELSE RemoveDescending(RemoveNode(g, Max(idx)), idx \ {Max(idx)})

RECURSIVE RemoveAscending(_, _)
RemoveAscending(g, idx) ==
    IF idx = {} THEN g
    ELSE RemoveAscending(RemoveNode(g, Min(idx)), idx \ {Min(idx)})

(* A bug: the indices are removed in ascending order. *)
FindMatchAndRemoveNodeAsc(g, ids) ==
    RemoveAscending(g, {k \in 1..Len(g.nodes) : g.nodes[k] \in ids})

(* find_match_and_remove_node: remove the matched indices, highest first. *)
FindMatchAndRemoveNode(g, ids) ==
    RemoveDescending(g, {k \in 1..Len(g.nodes) : g.nodes[k] \in ids})


(* The commands the host calls put in the channel. *)
InjectTx(tx) == [kind |-> "InjectTx", tx |-> tx]
RemoveIntents(ids) == [kind |-> "RemoveIntents", ids |-> ids]
UpdateData(g) == [kind |-> "UpdateData", graph |-> g]

(* The template's send_tx: the IntentTransfers, encoded, sent with       *)
(* send_match.                                                             *)
SendTx(order) == <<InjectTx(TxData(order))>>

(* update_graph_data: the graph, as JSON, sent with update_data. *)
UpdateGraphData(g) == <<UpdateData(g)>>

(* decode_intent_data: try_from_slice(..).unwrap() traps the program on   *)
(* bytes that are not a Signed<Intent>.                                    *)
DecodeIntentData(i) == i \notin Malformed

(* The orders tarjan_scc may list each cycle's nodes in ("an arbitrary   *)
(* order", says the template).                                             *)
Orders(cs) ==
    {o \in [DOMAIN cs -> UNION {SetToSeqs(c) : c \in ToSet(cs)}] :
        \A k \in DOMAIN cs : o[k] \in SetToSeqs(cs[k])}

(* add_intent over the stored graph g, with tarjan's orders o: the        *)
(* commands sent, in order, and whether a sort_cycle never returned.       *)
AddIntent(g, i, o) ==
    LET g1 == AddNode(g, i)
        cs == SetToSeq(Cycles(g1))
        sorted == [k \in DOMAIN cs |-> SortCycle(g1.edges, o[k])]
        hungAt == {k \in DOMAIN cs : sorted[k].hung}
        done == IF hungAt = {} THEN Len(cs) ELSE Min(hungAt) - 1
        sends(k) == SendTx(sorted[k].order)
                    \o (IF RemovesMatched THEN <<RemoveIntents(cs[k])>> ELSE <<>>)
        out == FlattenSeq([k \in 1..done |-> sends(k)])
        g2 == FindMatchAndRemoveNode(g1, UNION ToSet(cs))
    IN  IF hungAt = {} THEN [hung |-> FALSE, out |-> out \o UpdateGraphData(g2)]
                       ELSE [hung |-> TRUE, out |-> out]

(* The host's try_send(..).expect, one per command: a full channel panics. *)
SendAll(r) ==
    IF Len(chan) + Len(r.out) > Cap
    THEN /\ chan' = chan \o SubSeq(r.out, 1, Cap - Len(chan))
         /\ mm' = "panicked"
    ELSE /\ chan' = chan \o r.out
         /\ mm' = IF r.hung THEN "hung" ELSE "ok"

-----------------------------------------------------------------------------
(****************************** the driver ********************************)

Init ==
    /\ pending = Intents
    /\ mempool = {}
    /\ data = NewGraph
    /\ chan = <<>>
    /\ submitted = {}
    /\ mm = "ok"

(* The event loop calls try_match_intent on a gossiped intent: the filter, *)
(* mempool.put, then the matchmaker run over self.data; a runner error     *)
(* (the program traps decoding the intent) is unwrapped into a panic.      *)
TryMatchIntentBody(i) ==
    /\ pending' = pending \ {i}
    /\ IF i \notin FilterAccepts
       THEN UNCHANGED <<mempool, chan, mm>>
       ELSE /\ mempool' = mempool \cup {i}
            /\ IF ~DecodeIntentData(i)
               THEN mm' = "panicked" /\ UNCHANGED chan
               ELSE \E o \in Orders(SetToSeq(Cycles(AddNode(data, i)))) :
                        SendAll(AddIntent(data, i, o))
    /\ UNCHANGED <<data, submitted>>

(* A bug of the loop: an intent is taken while commands are queued. *)
TryMatchIntentNoDrain(i) ==
    /\ mm = "ok" /\ i \in pending
    /\ TryMatchIntentBody(i)

TryMatchIntent(i) ==
    /\ mm = "ok" /\ i \in pending
    /\ DrainFirst => chan = <<>>
    /\ TryMatchIntentBody(i)

(* handle_mm_message(InjectTx): sign, build the Tx, broadcast_tx_commit. *)
HandleInjectTx ==
    /\ mm = "ok" /\ chan # <<>> /\ Head(chan).kind = "InjectTx"
    /\ submitted' = submitted \cup {Head(chan).tx}
    /\ chan' = Tail(chan)
    /\ UNCHANGED <<pending, mempool, data, mm>>

(* handle_mm_message(RemoveIntents): mempool.remove of every id. *)
HandleRemoveIntents ==
    /\ mm = "ok" /\ chan # <<>> /\ Head(chan).kind = "RemoveIntents"
    /\ mempool' = mempool \ Head(chan).ids
    /\ chan' = Tail(chan)
    /\ UNCHANGED <<pending, data, submitted, mm>>

(* handle_mm_message(UpdateData): self.data = mm_data. *)
HandleUpdateData ==
    /\ mm = "ok" /\ chan # <<>> /\ Head(chan).kind = "UpdateData"
    /\ data' = Head(chan).graph
    /\ chan' = Tail(chan)
    /\ UNCHANGED <<pending, mempool, submitted, mm>>

(* Nothing left to do: the loop waits for gossip, or its task has ended. *)
Idle ==
    /\ mm # "ok" \/ (pending = {} /\ chan = <<>>)
    /\ UNCHANGED vars

Next ==
    \/ \E i \in Intents : TryMatchIntent(i)
    \/ HandleInjectTx
    \/ HandleRemoveIntents
    \/ HandleUpdateData
    \/ Idle

Spec == Init /\ [][Next]_vars

-----------------------------------------------------------------------------
(****************************** properties ********************************)

Graph == [nodes : Seq(Intents), edges : SUBSET (Intents \X Intents)]
Tx == [transfers : SUBSET [src : Intents, dst : Intents, offer : Offers],
       intents : SUBSET Intents]
Msg == [kind : {"InjectTx"}, tx : Tx]
       \cup [kind : {"RemoveIntents"}, ids : SUBSET Intents]
       \cup [kind : {"UpdateData"}, graph : Graph]

(* Types, and a node of the stored graph never appears at two indices. *)
TypeOK ==
    /\ pending \subseteq Intents /\ mempool \subseteq Intents
    /\ data \in Graph /\ IsInjective(data.nodes)
    /\ chan \in Seq(Msg) /\ Len(chan) <= Cap
    /\ submitted \subseteq Tx
    /\ mm \in {"ok", "panicked", "hung"}

(* The intents a tx the matchmaker broadcast has settled. *)
Matched == UNION {tx.intents : tx \in submitted}

(* The intents gossip delivered and the filter let in. *)
Accepted == (Intents \ pending) \cap FilterAccepts

(* The loop has handled every command and its task is alive. *)
Quiet == chan = <<>> /\ mm = "ok"

(* S can settle as one trade: its intents in a ring, each selling what    *)
(* the next one buys.                                                      *)
IsTradeCycle(S) ==
    /\ Cardinality(S) > 1
    /\ \E o \in SetToSeqs(S) :
          \A k \in 1..Len(o) : Sell[o[k]] = Buy[o[(k % Len(o)) + 1]]

(* A matchmaker run always returns (sort_cycle terminates) and every tx   *)
(* create_and_send_tx_data injects makes each of its intents give what it *)
(* sells and get what it buys.                                             *)
MatchSound ==
    /\ mm # "hung"
    /\ \A tx \in submitted : Balanced(tx)

(* Once the loop has applied every command, the graph the matchmaker      *)
(* stored (self.data, set by UpdateData) holds exactly the accepted       *)
(* intents no broadcast tx settled: add_intent added each one and          *)
(* find_match_and_remove_node removed exactly the matched ones.            *)
GraphTracksLiveIntents ==
    Quiet => ToSet(data.nodes) = Accepted \ Matched

(* The host's try_send(..).expect never finds the channel full, so the    *)
(* matchmaker task never panics.                                           *)
NoPanic == mm # "panicked"

(* Once the loop has applied every command, no intent of a broadcast tx   *)
(* is left in the intent mempool (spec, scenario 6: RemoveIntents follows *)
(* the InjectTx of a match).                                               *)
MatchedLeaveMempool == Quiet => mempool \cap Matched = {}

(* Once the loop has applied every command, no set of accepted, unmatched *)
(* intents could still settle as a ring trade: the matchmaker found every *)
(* cycle the intents it was given form.                                    *)
NoMissedMatch == Quiet => ~\E S \in SUBSET (Accepted \ Matched) : IsTradeCycle(S)

=============================================================================
