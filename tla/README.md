# TLA+ models of the rustydht-lib DHT node

This directory holds TLA+ models of the DHT node in `src/src/dht/dht.rs` and of the iterative lookups in `src/src/dht/operations.rs`. It also holds the TLC configurations that check them. `PROJECT.json` is the machine-readable index:

- the components;
- the runs and their mutants;
- the map from every definition to the source lines it translates;
- the findings;
- the hazards.

## The system

`spec.md` names these parts. Only `dht.rs` and `operations.rs` are in `src/`. The storage, transport and Id code is not, so the modules for those parts follow the spec. Their map entries are marked `spec_modelled`.

| Part | State | Operations that change it | Interactions |
|---|---|---|---|
| DHT node (`dht.rs`) | `our_id`, buckets, peer storage, token secrets (current and old), IPv4 votes, subscriber senders | one handler per request variant; periodic router ping, buddy ping, find_node, ip4 maintenance, token rotation; fire-and-forget ping and find_node tasks with a 5 s timeout that handle the reply; `subscribe` | All state is behind one mutex. Tasks interleave at every `.await`. The accept loop, the periodic loops and the spawned request tasks run concurrently. |
| Routing table (NodeStorage) | Id → NodeWrapper(last_seen, last_verified) | `add_or_update(verified)`, `prune`, `count`, `get_nearest_nodes` | Updated by requests (unverified), matched responses (verified) and find_node answers (unverified). |
| PeerStorage | info hash → peer → announce time | `announce_peer` with two caps | Written by the announce_peer handler after the token test. |
| Address source | voter → claimed IP, weight | `add_vote`, `decay`, `get_best_ipv4` | Responders vote; ip4 maintenance reads the winner and may replace `our_id`. |
| Transport (DHTSocket) | reply slots keyed by transaction id | `send_to`, `recv_from` | Delivers a matched reply to its slot and returns it to the accept loop, which also notifies subscribers. A failing `send_to` of a reply is a General error that ends the event loop. |
| Operations (`operations.rs`) | local buckets, best_ids, responders, peers | the round loop of `find_node` and `get_peers`; `announce_peer` | Seed from the verified routing table, which the node's own tasks keep verifying while the lookup runs. Use `send_request` with per-request and overall timeouts. |
| Throttler, codec, shutdown, Id/BEP-42 arithmetic | — | — | Not modelled; see below. |

The behaviours that make this code hard:

- A reply reaches subscribers before the task that sent the request has handled it.
- A timeout can cancel a task whose reply has already arrived.
- Wrong responders answer Id-less router pings.
- Token rotation can fall between get_peers and announce_peer.
- The Id the node adopts depends on its peers' votes.
- The lookup loop's timeouts and its duplicate responders.
- Announce tokens are a CRC, which is linear, so one token gives away every other address's token.
- One failed reply send stops every task of the node.

## Modules

- **`DHTNode.tla`**: the node. Its variables follow `DHTState`. The abstract parts are:
  - `pending`: the spawned request tasks with their reply slots.
  - `issued`: the tokens handed out.
  - `responded`: a history of matched replies.

  There is one action per handler and per periodic task: `HandlePing`, `HandleGetPeers`, `HandleAnnouncePeer`, `BuddyPing`, `PeriodicFindNode`, `Ip4Maintenance`, `RotateTokenSecrets`, and so on. An action covers the whole handler. For example, `HandleAnnouncePeer` does all of the following in one step:
  - `common_request_handling`;
  - the token test;
  - the store;
  - the subscriber fan-out.

  Reply handling is split at the await that separates its two parts:
  - `DeliverReply`: the transport fills the slot and the accept loop notifies subscribers.
  - `DeliverError`: a host answers with a KRPC error message instead. It carries no Id, so it can fill only a slot keyed by IP; the accept loop's catch-all arm logs it, subscribers get an error event, and the waiting task ends with a `GeneralError` without verifying anyone.
  - `HandleResponse`: the spawned task runs `common_send_and_handle_response`. It is split into `vote_responder` and `admit_responder`, which apply the BEP-42 test at `dht.rs:830` to the responder, and `admit_listed`, which adds the nodes of a `FindNodeResponse`. Any request's answer may be a `FindNodeResponse`, because the responder chooses.
  - `Timeout`: the 5 s task timeout.

  `Subscribe`, `ReadEvent` and `DropReceiver` are the library's user.

  Tokens: `calculate_token` names a token by the pair <<ip, secret>> it is computed from. `ForgeableTokens(issued)` is what a host can put in an announce: CRC32C is affine, so from one token for secret s it can compute the token of every IPv4 address for s. An announce may come from any source address.

  `running` is false once `run_event_loop` has returned. A handler replies through `SendReply`: a reply to an address in `Unreachable` fails, the handler's earlier changes stay, no event is sent, and `try_join!` ends every loop. Spawned request tasks are detached and may still finish.
- **`RoutingTable.tla`**: the abstract routing table: each entry is unverified or verified, and `answered` holds the Ids of matched responses. Its one action `Update` allows any combination of inserts, verifications and evictions in a step, with four rules:
  - an entry becomes verified only if its Id answered;
  - a verified entry that stays is not downgraded;
  - at most K entries;
  - a step that inserts removes only unverified entries, at most one per insert.

  DHTNode instantiates it with `EntryStatus` (from `last_verified`) and `AnsweredIds` (from `responded`). `RoutingRefinement == RT!Spec` is checked as a property.
- **`NodeStorage.tla`, `PeerStorage.tla`, `AddressSource.tla`**: pure operators on the storage values, instantiated by DHTNode. Abstractions:
  - There is one bucket of `K` entries. Kademlia only splits the bucket holding our own Id, and remote Ids here are model values.
  - `Nearest` (in NodeStorage) is the set of verified entries.
- **`Operations.tla`**: one `find_node` or `announce_peer` run.
  - `buckets` is the local table, a `storage::buckets::Buckets` keyed by the target. It has no verified filter: `add(.., None)` and `get_nearest_nodes` never look at a flag. Seeding adds the DHT's verified nodes, and answers add the nodes they list. `Nearest` is taken over all of its entries, so nodes learned from answers are queried in later rounds.
  - `table` and `dht_unverified` are the DHT's own routing table, the environment of the lookup. `table` (the verified entries, what `get_nodes` returns) starts as `RoutingNodes` and `dht_unverified` as `LaterVerified`. The lookup's find_node requests go through `DHT::send_request`, so the nodes of every find_node answer also enter `dht_unverified`. `TableVerify` is the DHT's buddy ping verifying one of them while the lookup runs; the next seeding then adds it. The DHT's prunes are left out: they cannot remove an entry from the local table.
  - `GetPeersResultNew` sorts the responders with `SortSeq` by distance, and `AnnounceTargets` takes the first `LookupK`, as `announce_peer` does.
  - `Dist` gives each remote its XOR distance to the target.
  - `Knows` says which nodes a remote returns.
  - `PeerHolders` are the remotes that answer get_peers with peers.
  - `Silent` remotes never answer.
  - The clock `now` carries the per-request deadlines, the 1 s round gap and the overall timeout.
- **`MCDHTNode.tla`, `MCOperations.tla`**: the model values and definitions the `.cfg` files use.

## Runs

| Run | Config | Expect | What it shows |
|---|---|---|---|
| requests | `MCRequests.cfg` | pass | Checked over every request variant from two hosts, one with spoofable Ids and one whose replies fail to send, with two token rotations: a token handed out is accepted from its IP for exactly one rotation and refused after the second (`TokenWindow`). |
| token_forgery | `MCForgery.cfg` | violation | `PeerRequiresToken` fails: r1 gets a token by get_peers, computes r2's token from it, and an announce spoofed from r2 stores a peer for r2. |
| routing | `MCRouting.cfg` | pass | Checked over router pings, buddy pings, periodic find_node, replies from the right or a wrong responder, KRPC error answers, and timeouts racing replies: the routing table implements `RoutingTable` (`RoutingRefinement`), and every entry's Id is BEP-42 valid for its address, whether it came in as requester, responder or listed node (`EntriesValidForAddress`). |
| address | `MCAddress.cfg` | pass | With two external addresses, two voters (one of which can answer with a wrong Id), `MinVotes = 2` and decay: `our_id` changes only to an Id valid for an address that `MinVotes` remotes claim, each of which answered with an Id valid for its own address (`IdFollowsValidVoters`). |
| router_liveness | `MCLive.cfg` | pass | Under `LiveSpec`: a reachable router with a valid Id is eventually verified, despite timeouts, KRPC errors and wrong responders (`RouterEventuallyVerified`). |
| send_failure | `MCSendFailure.cfg` | violation | `RouterEventuallyVerified` fails: one request from an address `send_to` fails for ends the event loop. |
| read_only | `MCReadOnly.cfg` | pass | The full next-state relation in read-only mode, with a subscriber that subscribes, reads and drops: every event goes through `try_send` and no channel grows past its capacity (`TypeOK`). |
| subscriber_race | `MCEvents.cfg` | violation | `RouterVerifiedOnEvent`: a subscriber can read the event of the router's reply before the router is verified. |
| find_node | `MCFindNode.cfg` | pass | With a silent node, nodes learned from answers and the DHT verifying nodes concurrently, find_node's 5 s per-request timeout lets the lookup converge before the overall timeout (`LookupEndsByConvergence`). |
| get_peers | `MCGetPeers.cfg` | pass | The whole announce_peer state space: answers in any order, with nodes or peers, the overall timeout and the announce. The sort of `GetPeersResult::new` and `take(8)` never pass over a responder nearer than one announced to, and announce to at most `LookupK` responders (`AnnounceNeverSkipsNearer`). |
| get_peers_timeout | `MCGetPeersTimeout.cfg` | violation | The same convergence property fails for get_peers. |
| announce_duplicates | `MCAnnounce.cfg` | violation | `AnnounceReachesNearest` fails because responders are duplicated. |

Each property of a passing run has a mutant in `PROJECT.json`: a plausible bug in the mapped code that TLC catches under the run's own configuration. The mutants include:

- a missing-Id request that is still upserted;
- a rotation that forgets the old secret;
- a responder admitted whatever its Id;
- a responder that votes whatever its Id;
- a responder upserted without being verified;
- a subscriber send that ignores a full channel;
- find_node using the overall timeout;
- a get_peers answer always taken as peers;
- responders left unsorted.

## Findings

1. **Subscriber race (`dht.rs:1325`).** `test_event_loop_pings_routers` and spec scenario 5 expect the routing table to show one verified node right after B's first subscriber event. The code does not guarantee this:
   - The accept loop sends the `MessageReceived` event for the router's reply as soon as the transport has matched it (`dht.rs:296`).
   - The router is verified only later, when the spawned ping task runs (`dht.rs:837-839`).
   - So the test can read `(0, 0)`.
2. **get_peers per-request timeout (`operations.rs:263`).** Spec 4.6 and find_node (`operations.rs:143`) give each request a 5 s timeout. get_peers gives each request the operation's whole timeout instead, so a single silent node among the nearest keeps the first round open until the overall timeout fires. get_peers and announce_peer therefore never get past round one when a silent node is among the nearest.
3. **Duplicate responders (`operations.rs:279`).** A node that answers in two rounds is pushed twice. `announce_peer` takes the first 8 of the sorted list (`operations.rs:51`), so it announces twice to that node and skips a nearer distinct responder. Spec 4.6 says the announce goes to "the 8 nearest responders".

4. **Announce tokens can be forged (`dht.rs:991`).** `calculate_token` is CRC32C(ip octets ‖ secret). CRC is affine over GF(2), so for inputs of one length crc(x) ⊕ crc(y) ⊕ crc(z) = crc(x ⊕ y ⊕ z). Hence token(V) = token(A) ⊕ crc((A ⊕ V) ‖ 0…) ⊕ crc(0…) for any IPv4 addresses A and V, and the secret is never needed. A host that got its own token from get_peers can announce, spoofed from any IPv4 address, a peer the node stores for that address. The token exists to bind an announce to the address that asked (BEP 5). The comment at `dht.rs:988-990` concedes that the scheme is not safe.
5. **One peer can stop the node (`dht.rs:374`, spec gap).** Every handler replies with `send_to(reply, addr, ...).await?` to the packet's source. A send error is a General error. `accept_incoming_packets` returns it, and `try_join!` ends `run_event_loop`. Spec 7 makes I/O errors fatal, but it does not separate a failure caused by one peer's address from a failure of the socket.

## Bounds

- DHT runs use two remotes:
  - `r1` is a router whose Id is valid only at its own address.
  - `r2` sits on a private address where any Id is valid, so it can spoof Ids and answer as a wrong responder.
- Other DHT bounds: K = 1 (2 for liveness, send failure and events, so the bucket cannot lock the router out); time 0..2 (0..1 in the address, read-only and liveness runs); two rotations; find_node answers of at most one node (none in the address and liveness runs).
- These bounds are enough for the hazards they target:
  - two rotations separate "one rotation" from "two";
  - one-entry caps make every insert an eviction;
  - two remotes give a wrong responder for every ping.
- The full product of all parts does not fit in TLC's reach. The request side (`RequestSpec`) and the routing side (`RoutingSpec`, with ping standing for every request variant) are checked separately. They share only the routing table, which requests touch through the same `common_request_handling`. The read-only run checks the full `Spec`.
- Operations runs use four nodes with distances 1 to 4 and `LookupK = 2`. The table starts with n1 and n2 and may verify n3 during the lookup, so the nearest list changes between rounds and n1 is queried in two rounds. n4 is only ever learned from answers, so find_node queries it in its second round; the DHT learns it too from the find_node answers and may verify it before the lookup ends. The local Buckets' capacity (k = 8) is never reached by four nodes, so it is not modelled. Time is scaled so that find_node's per-request timeout (3) is below the overall timeout (15, 10 for get_peers).

## Fairness

`LiveSpec` assumes three things:

- The router keeps being pinged, which the repeated `periodic_router_ping` guarantees (weak fairness).
- A reachable router answers some ping with its own Id.
- The waiting task runs before its timeout infinitely often.

The last two are strong fairness, because timeouts and wrong responders keep disabling them.

A liveness property over every unverified entry ("eventually verified or pruned") is not checked. It would need every node to answer some ping, which the code does not assume: prune exists because nodes go silent. Pruning would also need a clock longer than the grace periods.

No other run uses fairness. The lookups terminate through their bounded clock.

## Not modelled

- Throttler: it only drops packets, which the model already allows.
- Bencode codec: pure data conversion.
- Shutdown.
- Bucket splitting and XOR order in the routing table.
- The CRC32C arithmetic of BEP-42: `ValidFor` is a relation, so collisions are not considered. The token CRC is modelled by its linearity (`ForgeableTokens`); collisions beyond that are not considered.
- The await inside `periodic_find_node` between reading the count and pinging routers. The stale count only decides whether one find_node round is skipped or sent, the spec states nothing that tells the two orders apart, and the routing properties hold for any find_node requests a round sends.
- The two critical sections of `common_send_and_handle_response` (verify and vote, then the find_node nodes). Nothing awaits between them, and the model runs them as one step.
- The clock origin of `Instant`: `checked_sub` underflows only near the monotonic clock's origin. The model takes node start as the origin, which skips at least as many buddy-ping rounds as the code.
- Only the first IPv4 address a router's hostname resolves to is pinged. The model has one address per router, so it does not ask whether another address would have answered.
- Send errors of spawned pings and find_nodes: they are logged and never propagate (spec 7), so they behave like a lost request.

## Plan

Done in the first sitting, in order:

1. The request handlers with tokens and peer storage.
2. The routing lifecycle.
3. Address voting.
4. Router liveness.
5. Read-only mode and subscribers.
6. The lookups.

Done in the second sitting:

1. The DHT's table grows during a lookup.
2. The abstract `RoutingTable` and its refinement.
3. Reply send failures and the `try_join!` teardown (finding 5).
4. The buddy-ping liveness with the underflow window.

Done in the third sitting:

1. The XOR sort of `GetPeersResult::new` and the announce's `take(8)`, with `AnnounceNeverSkipsNearer` replacing a type-only run.
2. The lookup composed with the DHT's table as its environment: find_node answers feed the DHT's unverified entries, which it verifies concurrently.

Done in the fourth sitting:

1. KRPC error answers as a fault (`DeliverError`): an error fills a router ping's slot, so the ping neither times out nor verifies. `RoutingRefinement` and `RouterEventuallyVerified` still hold with it, because later router pings still bootstrap the node.

Corrections made in the fifth sitting, after re-reading the source:

1. The lookup's local table is a `storage::buckets::Buckets`, which has no verified filter. The earlier model filtered it, which gave a finding ("learned nodes are never queried") and a property that held only by that filter. Both are withdrawn, and learned nodes are now queried.
2. Tokens are forgeable by CRC linearity (finding 4). `PeerRequiresToken` moved from a passing run to the violation run token_forgery.
3. Properties that restated a guard or an insert rule were replaced: `EntriesValidForAddress` (BEP-42 admission across every path into the table) and `IdFollowsValidVoters` (votes only from responders with valid Ids).
4. Removed: the peer-storage caps, the bucket-size invariant, the read-only invariant (a read-only node still learns listed nodes unverified), and the buddy-ping liveness (its fairness assumed every node answers).
5. A `FindNodeResponse` answering any request now adds its nodes, as the code keys on the reply's variant.

Left open:

- A multi-bucket NodeStorage with XOR order over small bit-width Ids, checked against a reference definition. The code is a dependency outside `src/`, so it could be modelled only from the spec. It would also need a run of its own, and the project keeps one run per question already asked.
