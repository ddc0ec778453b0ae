----------------------------- MODULE Operations ------------------------------
(***************************************************************************)
(* The iterative lookups of operations.rs: find_node, get_peers and       *)
(* announce_peer (get_peers followed by announces to the nearest          *)
(* responders), run by one caller against a DHT whose verified routing    *)
(* table starts as RoutingNodes, and whose unverified entries (starting  *)
(* as LaterVerified) its own pings may verify while the lookup runs.  The *)
(* lookup's requests go through the same DHT, so the nodes of a find_node *)
(* answer also enter the DHT's table unverified.                           *)
(*                                                                         *)
(* A lookup keeps a local table (a storage::buckets::Buckets keyed by the *)
(* target, with no verified filter), seeds it from the node's verified   *)
(* nodes, sends a request to the nearest LookupK of all its entries in   *)
(* parallel, merges what comes back, and stops when the nearest list no   *)
(* longer changes or when the overall timeout (tokio::time::timeout)      *)
(* fires.  Remote nodes are model values; Dist gives each its XOR         *)
(* distance to the target, so "nearest" is by Dist.  What a node answers  *)
(* is fixed: the nodes it knows (Knows) or, for get_peers, a peer list if *)
(* it holds peers (PeerHolders).  Silent nodes never answer; any request *)
(* may also be lost and end in its own timeout.                            *)
(***************************************************************************)
EXTENDS Naturals, FiniteSets, Sequences, SequencesExt

CONSTANTS
    Op,                 \* "find_node" or "announce_peer"
    Node,               \* remote nodes
    Dist,               \* Node -> Nat: XOR distance to the target, injective
    RoutingNodes,       \* dht.get_nodes() when the operation starts
    LaterVerified,      \* unverified entries of the DHT's table at the start
    Knows,              \* Node -> SUBSET Node: nodes a node returns
    PeerHolders,        \* nodes that answer get_peers with peers
    Silent,             \* nodes that never answer
    LookupK,            \* nodes queried per round (8 in the code)
    FindNodeTimeout,    \* per-request timeout of find_node (5 s)
    RoundGap,           \* minimum time between round starts (1 s)
    OpTimeout           \* the timeout argument of the operation

ASSUME Op \in {"find_node", "announce_peer"}
ASSUME Dist \in [Node -> Nat] /\ \A m, n \in Node : Dist[m] = Dist[n] => m = n
ASSUME RoutingNodes \cup LaterVerified \subseteq Node /\ Knows \in [Node -> SUBSET Node]
ASSUME PeerHolders \cup Silent \subseteq Node

VARIABLES
    now,          \* Instant::now(), in seconds since the operation began
    phase,        \* "seed": top of the loop; "round": awaiting todos;
                  \* "result": the loop has ended; "done": returned
    reason,       \* why the loop ended: "converged" or "timeout"
    table,        \* the DHT's verified routing table (environment)
    dht_unverified, \* the DHT's unverified routing entries (environment)
    buckets,      \* the nodes of the operation's local Buckets
    best_ids,     \* best_ids: the nearest list of the previous round
    todos,        \* outstanding requests of the round: node -> deadline
    started,      \* started_sending_time
    responders,   \* get_peers responders, in arrival order
    unique_peers, \* holders whose peer lists were merged
    announced     \* nodes announce_peer sends an announce to

vars == <<now, phase, reason, table, dht_unverified, buckets, best_ids, todos, started, responders,
          unique_peers, announced>>

None == "none"

TypeOK ==
    /\ now \in 0..OpTimeout
    /\ phase \in {"seed", "round", "result", "done"}
    /\ reason \in {None, "converged", "timeout"}
    /\ table \cup dht_unverified \cup best_ids \subseteq Node
    /\ buckets \subseteq Node
    /\ DOMAIN todos \subseteq Node /\ todos \in [DOMAIN todos -> Nat]
    /\ started \in 0..OpTimeout
    /\ responders \in Seq(Node)
    /\ unique_peers \subseteq PeerHolders /\ announced \subseteq Node

\* get_nearest_nodes(target, None): the LookupK entries closest to the
\* target, in distance order (a set here: distances are distinct).
Nearest(S) == {n \in S : Cardinality({m \in S : Dist[m] < Dist[n]}) < LookupK}

\* buckets.add for every node not yet contained; Buckets::add(_, None)
\* keeps the wrapper as given and an entry already there as it is, and
\* the local table's entries are never removed.
AddMissing(b, nodes) == b \cup nodes

\* The nodes of n's answer not yet in the local table are added
\* (buckets.add(NodeWrapper::new(node), None)).
Learn(b, n) == AddMissing(b, Knows[n])

\* Mutant: the responders are not sorted.
GetPeersResultNewUnsorted(r) == r

\* GetPeersResult::new: sort_unstable_by the XOR distance of each
\* responder to the info hash.  Duplicates are kept; entries with equal
\* distance are the same node, so the unstable order is still unique.
GetPeersResultNew(r) == SortSeq(r, LAMBDA a, b : Dist[a] < Dist[b])

\* announce_peer: responders().into_iter().take(8).
AnnounceTargets(r) ==
    LET sorted == GetPeersResultNew(r)
    IN ToSet(SubSeq(sorted, 1, IF Len(sorted) < LookupK THEN Len(sorted) ELSE LookupK))

\* Mutant: find_node passes the operation's timeout to each request.
FindNodeRequestTimeoutOverall == OpTimeout

\* The per-request timeout given to send_request: 5 s for find_node, the
\* operation's own timeout for get_peers.
RequestTimeout ==
    IF Op = "find_node" THEN FindNodeTimeout ELSE OpTimeout

\* dht.get_nodes(): the verified nodes of the routing table.
get_nodes == table

\* send_request with a timeout: the request of each nearest node, due
\* RequestTimeout from now (tokio::time::timeout around the reply slot).
send_request(nearest) == [n \in nearest |-> now + RequestTimeout]

Init ==
    /\ now = 0
    /\ phase = "seed"
    /\ reason = None
    /\ table = RoutingNodes
    /\ dht_unverified = LaterVerified \ RoutingNodes
    /\ buckets = {}
    /\ best_ids = {}
    /\ todos = <<>>
    /\ started = 0
    /\ responders = <<>>
    /\ unique_peers = {}
    /\ announced = {}

\* The local table after the top-of-loop seeding: dht.get_nodes() returns
\* the verified routing table and each node not yet contained is added.
Seeded == AddMissing(buckets, get_nodes)

\* Top of the loop: seed the local table, take its nearest entries; stop if they are the previous round's, else send the round's
\* requests.  With nothing to query the loop sleeps (Tick).
SeedRound ==
    LET seeded  == Seeded
        nearest == Nearest(seeded)
    IN /\ phase = "seed"
       /\ nearest # {}
       /\ buckets' = seeded
       /\ IF nearest = best_ids
          THEN /\ phase' = "result" /\ reason' = "converged"
               /\ UNCHANGED <<best_ids, todos, started>>
          ELSE /\ best_ids' = nearest
               /\ todos' = send_request(nearest)
               /\ started' = now
               /\ phase' = "round" /\ UNCHANGED reason
       /\ UNCHANGED <<now, table, dht_unverified, responders, unique_peers, announced>>

\* Mutant: the peers branch is taken for every get_peers answer.
AnswerAlwaysPeers(n) ==
    /\ phase = "round"
    /\ n \in DOMAIN todos \ Silent
    /\ now < OpTimeout
    /\ todos' = [m \in DOMAIN todos \ {n} |-> todos[m]]
    /\ IF Op = "find_node"
       THEN /\ buckets' = Learn(buckets, n)
            /\ dht_unverified' = dht_unverified \cup (Knows[n] \ table)
            /\ UNCHANGED <<responders, unique_peers>>
       ELSE /\ responders' = Append(responders, n)
            /\ unique_peers' = unique_peers \cup {n} /\ UNCHANGED buckets
            /\ UNCHANGED dht_unverified
    /\ UNCHANGED <<now, phase, reason, table, best_ids, started, announced>>

\* A response arrives before the request's deadline.  find_node merges the
\* returned nodes; get_peers records the responder with its token, then
\* merges either the nodes or the peers of the answer.
Answer(n) ==
    /\ phase = "round"
    /\ n \in DOMAIN todos \ Silent
    /\ now < OpTimeout
    /\ todos' = [m \in DOMAIN todos \ {n} |-> todos[m]]
    /\ IF Op = "find_node"
       THEN /\ buckets' = Learn(buckets, n)
            /\ dht_unverified' = dht_unverified \cup (Knows[n] \ table)
            /\ UNCHANGED <<responders, unique_peers>>
       ELSE /\ responders' = Append(responders, n)
            /\ IF n \in PeerHolders
               THEN unique_peers' = unique_peers \cup {n} /\ UNCHANGED buckets
               ELSE buckets' = Learn(buckets, n)
                    /\ UNCHANGED unique_peers
            /\ UNCHANGED dht_unverified
    /\ UNCHANGED <<now, phase, reason, table, best_ids, started, announced>>

\* The request's own timeout fires (TimeoutError, logged).  The overall
\* deadline was set before any request's, so it fires first when both are
\* due.
RequestTimedOut(n) ==
    /\ phase = "round"
    /\ n \in DOMAIN todos
    /\ now >= todos[n] /\ now < OpTimeout
    /\ todos' = [m \in DOMAIN todos \ {n} |-> todos[m]]
    /\ UNCHANGED <<now, phase, reason, table, dht_unverified, buckets, best_ids, started,
                   responders, unique_peers, announced>>

\* All of the round's requests are done; the next round starts no sooner
\* than RoundGap after this one started.
RoundEnd ==
    /\ phase = "round"
    /\ todos = <<>>
    /\ now >= started + RoundGap
    /\ phase' = "seed"
    /\ UNCHANGED <<now, reason, table, dht_unverified, buckets, best_ids, todos, started,
                   responders, unique_peers, announced>>

\* Time passes while the loop awaits: the bootstrap sleep with nothing to
\* query, pending responses, or the rate-limiting sleep; never past a due
\* timer, and not once the round is over and its gap has passed.
Tick ==
    /\ now < OpTimeout
    /\ \/ phase = "round" /\ (todos # <<>> \/ now < started + RoundGap)
       \/ phase = "seed" /\ Nearest(Seeded) = {}
    /\ \A n \in DOMAIN todos : now < todos[n]
    /\ now' = now + 1
    /\ UNCHANGED <<phase, reason, table, dht_unverified, buckets, best_ids, todos, started,
                   responders, unique_peers, announced>>

\* tokio::time::timeout ends the loop, dropping the round's requests; the
\* results so far are returned.
OverallTimeout ==
    /\ phase \in {"seed", "round"}
    /\ now = OpTimeout
    /\ phase' = "result" /\ reason' = "timeout"
    /\ todos' = <<>>
    /\ UNCHANGED <<now, table, dht_unverified, buckets, best_ids, started, responders,
                   unique_peers, announced>>

\* find_node returns the nearest of its table; announce_peer sends an
\* announce, with the token that responder gave, to the first LookupK
\* responders in distance order.
Return ==
    /\ phase = "result"
    /\ phase' = "done"
    /\ announced' = IF Op = "announce_peer" THEN AnnounceTargets(responders)
                    ELSE {}
    /\ UNCHANGED <<now, reason, table, dht_unverified, buckets, best_ids, todos, started,
                   responders, unique_peers>>

\* Environment: while the lookup runs, the node's buddy pings verify one
\* of its unverified entries (dht.rs common_send_and_handle_response,
\* add_or_update(node, true)).
TableVerify(n) ==
    /\ phase \in {"seed", "round"}
    /\ n \in dht_unverified
    /\ table' = table \cup {n}
    /\ dht_unverified' = dht_unverified \ {n}
    /\ UNCHANGED <<now, phase, reason, buckets, best_ids, todos, started,
                   responders, unique_peers, announced>>

Next ==
    \/ SeedRound \/ RoundEnd \/ Tick \/ OverallTimeout \/ Return
    \/ \E n \in Node : Answer(n) \/ RequestTimedOut(n) \/ TableVerify(n)

Spec == Init /\ [][Next]_vars

-----------------------------------------------------------------------------
(* Properties                                                              *)

\* Spec 4.6: each request has its own 5 s timeout, so a node that never
\* answers costs a round 5 s and the lookup still ends because its nearest
\* list stopped changing, as long as the routing table has nodes and the
\* operation's timeout leaves room for the rounds.
LookupEndsByConvergence ==
    phase \in {"result", "done"} => reason = "converged"

\* Spec 4.6: announce_peer announces to the LookupK nearest responders of
\* get_peers, i.e. to min(LookupK, #responders) distinct nodes, the
\* nearest of all that answered.
AnnounceReachesNearest ==
    phase = "done" /\ Op = "announce_peer" =>
        announced = Nearest(ToSet(responders))

\* GetPeersResult::new and take(8): announce_peer announces to at most
\* LookupK of the nodes that answered get_peers, and never passes over a
\* responder nearer the info hash than one it announces to, whatever the
\* order in which the rounds' answers arrived.
AnnounceNeverSkipsNearer ==
    phase = "done" /\ Op = "announce_peer" =>
        /\ announced \subseteq ToSet(responders)
        /\ Cardinality(announced) <= LookupK
        /\ \A a \in announced, m \in ToSet(responders) \ announced : Dist[a] < Dist[m]

=============================================================================
