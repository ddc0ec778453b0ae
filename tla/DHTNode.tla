------------------------------- MODULE DHTNode -------------------------------
(***************************************************************************)
(* One DHT node (src/src/dht/dht.rs): the DHTState behind its mutex, the   *)
(* request handlers of the accept loop, the periodic tasks, the           *)
(* fire-and-forget requests it sends with their reply slots, and the      *)
(* MessageReceived fan-out to subscribers.                                 *)
(*                                                                         *)
(* Remote nodes are model values.  A remote's IP address is the remote    *)
(* itself; an Id claimed at an address is accepted by BEP-42 when the     *)
(* pair <<id, address>> is in ValidFor (an honest node's own pair, or any *)
(* Id on a private address).  Time is a bounded counter of seconds.  Each *)
(* action is one critical section of the state mutex, or one task step    *)
(* between two awaits.                                                     *)
(***************************************************************************)
EXTENDS Naturals, FiniteSets, Sequences, Functions, FiniteSetsExt, TLC

CONSTANTS
    Remote,             \* remote DHT nodes / their IPs
    Routers,            \* settings.routers, resolved to remote nodes
    ValidFor,           \* pairs <<id, ip>> for which is_valid_for_ip holds
    InfoHash,           \* info hashes
    AnnouncePorts,      \* ports an announce_peer may carry
    SrcPorts,           \* UDP source ports of incoming packets (0 is dropped)
    OurIPs,             \* IPs a responder may claim we have (requester_ip)
    OurIds,             \* Ids the node may take
    OurValidFor,        \* pairs <<id, ip>> of OurIds \X OurIPs valid by BEP-42
    InitialId,          \* the id argument of DHT::new, or None
    Subscribers,        \* receivers handed out by subscribe()
    SubCap,             \* mpsc channel capacity (32 in the code)
    ReadOnly,           \* settings.read_only
    ReverifyInterval,   \* settings.reverify_interval_secs
    FindNodesSkipCount, \* settings.find_nodes_skip_count
    MaxTime,            \* bound on the clock
    MaxRotations,       \* bound on token secret rotations
    MaxReplyNodes,      \* bound on the nodes of one find_node answer
    Unreachable,        \* addresses a reply send_to fails for (I/O error)
    K, VerifyGrace, ReverifyGrace, MaxTorrents, MaxPeersPerTorrent,
    VoteWeight, MinVotes, None

ASSUME Routers \cup Unreachable \subseteq Remote /\ ValidFor \subseteq Remote \X Remote
ASSUME 0 \notin AnnouncePorts /\ SrcPorts \subseteq Nat
ASSUME OurValidFor \subseteq OurIds \X OurIPs /\ InitialId \in OurIds \cup {None}
ASSUME \A ip \in OurIPs : \E i \in OurIds : <<i, ip>> \in OurValidFor

NS == INSTANCE NodeStorage
PS == INSTANCE PeerStorage
AS == INSTANCE AddressSource WITH NoIP <- None

VARIABLES
    now,              \* Instant::now(), in seconds
    our_id,           \* state.our_id
    buckets,          \* state.buckets: Id -> NodeWrapper
    peer_storage,     \* state.peer_storage
    token_secret,     \* state.token_secret (secrets are fresh naturals)
    old_token_secret, \* state.old_token_secret
    votes,            \* state.ip4_source
    subscribers,      \* state.subscribers: senders still in the list
    queue,            \* contents of each subscriber's channel
    dropped,          \* subscribers whose receiver was dropped (channel closed)
    pending,          \* outstanding requests: reply slot and its spawned task
    issued,           \* tokens handed to requesters in get_peers replies
    responded,        \* <<id, ip>> of every matched response (history)
    running           \* run_event_loop has not returned

tokenVars == <<token_secret, old_token_secret, issued>>
addrVars  == <<our_id, votes>>
subVars   == <<subscribers, queue, dropped>>
netVars   == <<pending, responded, running>>
vars == <<now, buckets, peer_storage, tokenVars, addrVars, subVars, netVars>>

Kinds  == {"ping", "find_node"}
Event  == [type : {"request", "response", "error"}, from : Remote]
Request(dst, did, kind) == [dst |-> dst, did |-> did, kind |-> kind, reply |-> None]

\* ping_internal / find_node_internal: spawn a task that sends the request
\* (registering its reply slot) and then waits for the slot or its 5 s
\* timeout; the caller does not wait.
ping_internal(dst, did) == Request(dst, did, "ping")
find_node_internal(dst, did) == Request(dst, did, "find_node")

\* make_token_secret: fresh random bytes, modelled as a secret never used
\* before.
make_token_secret(s) == s + 1

TypeOK ==
    /\ now \in 0..MaxTime
    /\ our_id \in OurIds
    /\ DOMAIN buckets \subseteq Remote
    /\ \A i \in DOMAIN buckets :
         buckets[i] \in [addr : Remote, seen : 0..now, lv : (0..now) \cup {None}]
    /\ DOMAIN peer_storage \subseteq InfoHash
    /\ \A h \in DOMAIN peer_storage :
         peer_storage[h] \in [DOMAIN peer_storage[h] -> 0..now]
    /\ {token_secret, old_token_secret} \subseteq 0..MaxRotations
    /\ DOMAIN votes \subseteq Remote
    /\ votes \in [DOMAIN votes -> [ip : OurIPs, w : 1..VoteWeight]]
    /\ subscribers \subseteq Subscribers /\ dropped \subseteq Subscribers
    /\ queue \in [Subscribers -> Seq(Event)]
    /\ \A s \in Subscribers : Len(queue[s]) <= SubCap
    /\ pending \subseteq [dst : Remote, did : Remote \cup {None}, kind : Kinds,
                          reply : Remote \cup {None}]
    /\ issued \subseteq Remote \X (0..MaxRotations)
    /\ responded \subseteq Remote \X Remote
    /\ running \in BOOLEAN

-----------------------------------------------------------------------------
(* Helpers translated from dht.rs                                          *)

\* calculate_token(remote, secret): CRC32C(ip octets ++ secret).  A token
\* is named by the pair it is computed from; the port of the requester is
\* not part of it.
calculate_token(ip, secret) == <<ip, secret>>

\* What a host can put in an announce_peer.  CRC32C is affine over GF(2):
\* for inputs of one length crc(x) + crc(y) + crc(z) = crc(x + y + z) (+ is
\* XOR), so from calculate_token(a, s) anyone computes calculate_token(v, s)
\* = calculate_token(a, s) + crc((a + v) ++ 0..0) + crc(0..0) for every
\* IPv4 v without knowing s.  All remotes are IPv4 here.
ForgeableTokens(known) == {calculate_token(v, t[2]) : t \in known, v \in Remote}

\* The token test of the announce_peer handler.
TokenValid(ip, token) ==
    token \in {calculate_token(ip, token_secret), calculate_token(ip, old_token_secret)}

\* Mutant: the sender joins the routing table as verified.
common_request_handling_verified(src, sid, ro) ==
    /\ sid # None
    /\ buckets' = IF <<sid, src>> \in ValidFor /\ ~ro
                  THEN NS!AddOrUpdate(buckets, sid, src, TRUE, now)
                  ELSE buckets

\* Mutant: the missing-sender-Id early return is dropped.
common_request_handling_noid(src, sid, ro) ==
    buckets' = IF sid = None \/ (<<sid, src>> \in ValidFor /\ ~ro)
               THEN NS!AddOrUpdate(buckets, sid, src, FALSE, now)
               ELSE buckets

\* common_request_handling: a request without a sender Id is a parse
\* error (no reply, no event); a sender whose Id is valid for its IP and
\* that is not read-only joins the routing table unverified.
common_request_handling(src, sid, ro) ==
    /\ sid # None
    /\ buckets' = IF <<sid, src>> \in ValidFor /\ ~ro
                  THEN NS!AddOrUpdate(buckets, sid, src, FALSE, now)
                  ELSE buckets

\* Mutant: try_send treated as a send that always has room.
send_packet_to_subscribers_nocap(ev) ==
    /\ subscribers' = subscribers \ dropped
    /\ queue' = [s \in Subscribers |->
                   IF s \in subscribers \ dropped THEN Append(queue[s], ev) ELSE queue[s]]
    /\ UNCHANGED dropped

\* send_packet_to_subscribers: try_send to every subscriber; a closed
\* channel is removed from the list, a full one loses the event.
send_packet_to_subscribers(ev) ==
    /\ subscribers' = subscribers \ dropped
    /\ queue' = [s \in Subscribers |->
                   IF s \in subscribers \ dropped /\ Len(queue[s]) < SubCap
                   THEN Append(queue[s], ev) ELSE queue[s]]
    /\ UNCHANGED dropped

\* ip4_vote_helper: the responder votes for the address it says we have.
ip4_vote_helper(v, ip, claim) ==
    IF claim = None THEN v ELSE AS!AddVote(v, ip, claim)

\* Id::from_ip: an Id valid for ip.
IdFromIp(ip) == CHOOSE i \in OurIds : <<i, ip>> \in OurValidFor

-----------------------------------------------------------------------------
(* Initial state: DHT::new.  With no Id given and no external address     *)
(* known yet, the Id is random.                                            *)

Init ==
    /\ now = 0
    /\ our_id \in IF InitialId # None THEN {InitialId} ELSE OurIds
    /\ buckets = <<>>
    /\ peer_storage = <<>>
    /\ token_secret = 0
    /\ old_token_secret = 0
    /\ votes = <<>>
    /\ subscribers = {}
    /\ queue = [s \in Subscribers |-> <<>>]
    /\ dropped = {}
    /\ pending = {}
    /\ issued = {}
    /\ responded = {}
    /\ running = TRUE

-----------------------------------------------------------------------------
(* The accept loop: one received request from source IP src, source port *)
(* sp, with sender Id sid and read-only flag ro.  Packets from port 0 are *)
(* dropped; a read-only node only passes the packet to subscribers; else  *)
(* the handler runs and, if it did not fail, subscribers get the event.   *)

Accepted(sp) == sp # 0 /\ ~ReadOnly

ReceiveReadOnly(src, sp) ==
    /\ ReadOnly /\ sp # 0
    /\ send_packet_to_subscribers([type |-> "request", from |-> src])
    /\ UNCHANGED <<now, buckets, peer_storage, tokenVars, addrVars, netVars>>

\* The reply's send_to, then the fan-out.  send_to failing for the address
\* is a General error: the handler returns it, accept_incoming_packets
\* returns it, and try_join! ends run_event_loop; no event is sent, and
\* what the handler changed before the send stays changed.
SendReply(src) ==
    IF src \in Unreachable
    THEN running' = FALSE /\ UNCHANGED subVars
    ELSE /\ send_packet_to_subscribers([type |-> "request", from |-> src])
         /\ UNCHANGED running

\* ping, find_node and sample_infohashes only read the state for their
\* reply after common_request_handling.
HandlePing(src, sp, sid, ro) ==
    /\ Accepted(sp)
    /\ common_request_handling(src, sid, ro)
    /\ SendReply(src)
    /\ UNCHANGED <<now, peer_storage, tokenVars, addrVars, pending, responded>>

HandleFindNode(src, sp, sid, ro) == HandlePing(src, sp, sid, ro)

HandleSampleInfohashes(src, sp, sid, ro) == HandlePing(src, sp, sid, ro)

\* get_peers: the reply carries a token computed from the current secret;
\* the host at src learns it if the reply is sent.
HandleGetPeers(src, sp, sid, ro) ==
    /\ Accepted(sp)
    /\ common_request_handling(src, sid, ro)
    /\ issued' = IF src \in Unreachable THEN issued
                 ELSE issued \cup {calculate_token(src, token_secret)}
    /\ SendReply(src)
    /\ UNCHANGED <<now, peer_storage, token_secret, old_token_secret, addrVars,
                   pending, responded>>

\* announce_peer with a token some host can compute from the tokens handed
\* out (ForgeableTokens), from any source address: stored under the source
\* IP and either the source port (implied_port) or the announced port,
\* before the reply is sent; a bad token gets no reply at all.
HandleAnnouncePeer(src, sp, sid, ro, h, token, port, implied) ==
    /\ Accepted(sp)
    /\ common_request_handling(src, sid, ro)
    /\ IF TokenValid(src, token)
       THEN /\ peer_storage' = PS!AnnouncePeer(peer_storage, h,
                                   <<src, IF implied THEN sp ELSE port>>, now)
            /\ SendReply(src)
       ELSE /\ send_packet_to_subscribers([type |-> "request", from |-> src])
            /\ UNCHANGED <<peer_storage, running>>
    /\ UNCHANGED <<now, tokenVars, addrVars, pending, responded>>

-----------------------------------------------------------------------------
(* Periodic tasks                                                          *)

\* ping_routers / ping_router: each router hostname that resolves
\* (resolved) gets a ping with no known Id.
RouterPings(resolved) == {ping_internal(r, None) : r \in resolved}

\* The startup ping_routers and each round of periodic_router_ping.
PingRouters(resolved) ==
    /\ running
    /\ pending' = pending \cup RouterPings(resolved)
    /\ UNCHANGED <<now, buckets, peer_storage, tokenVars, addrVars, subVars,
                   responded, running>>

\* periodic_buddy_ping: prune, then (unless now - reverify_interval
\* underflows) ping every node not verified within reverify_interval.
BuddyPing ==
    LET pruned == NS!Prune(buckets, now)
        stale  == {i \in DOMAIN pruned :
                     pruned[i].lv = None \/ pruned[i].lv < now - ReverifyInterval}
    IN /\ running
       /\ buckets' = pruned
       /\ pending' = IF now < ReverifyInterval THEN pending
                     ELSE pending \cup {ping_internal(pruned[i].addr, i) : i \in stale}
       /\ UNCHANGED <<now, peer_storage, tokenVars, addrVars, subVars, responded,
                      running>>

\* periodic_find_node: with no verified node, ping the routers first; skip
\* when there are more unverified nodes than find_nodes_skip_count, else
\* send find_node to the verified nodes nearest a mutant of our Id.
PeriodicFindNode(resolved) ==
    LET count   == NS!Count(buckets)
        routers == IF count[2] = 0 THEN RouterPings(resolved) ELSE {}
        finds   == IF count[1] > FindNodesSkipCount THEN {}
                   ELSE {find_node_internal(buckets[i].addr, i) :
                           i \in NS!Nearest(buckets, None)}
    IN /\ running
       /\ pending' = pending \cup routers \cup finds
       /\ UNCHANGED <<now, buckets, peer_storage, tokenVars, addrVars, subVars,
                      responded, running>>

\* periodic_ip4_maintenance: decay the votes; if our Id is not valid for
\* the best external address, take Id::from_ip of it (buckets.set_id
\* re-keys the table; with one far bucket its contents are unchanged).
Ip4Maintenance ==
    LET v    == AS!Decay(votes)
        best == AS!BestIPv4(v)
    IN /\ running
       /\ votes' = v
       /\ our_id' = IF best # None /\ <<our_id, best>> \notin OurValidFor
                    THEN IdFromIp(best) ELSE our_id
       /\ UNCHANGED <<now, buckets, peer_storage, tokenVars, subVars, netVars>>

\* Mutant: the current secret is not kept as the previous one.
RotateTokenSecretsNoOld ==
    /\ running
    /\ token_secret < MaxRotations
    /\ token_secret' = make_token_secret(token_secret)
    /\ UNCHANGED <<now, buckets, peer_storage, old_token_secret, issued,
                   addrVars, subVars, netVars>>

\* rotate_token_secrets: previous <- current, current <- fresh random.
RotateTokenSecrets ==
    /\ running
    /\ token_secret < MaxRotations
    /\ old_token_secret' = token_secret
    /\ token_secret' = make_token_secret(token_secret)
    /\ UNCHANGED <<now, buckets, peer_storage, issued, addrVars, subVars, netVars>>

\* periodic_router_ping: every router_ping_interval_secs, ping_routers.
PeriodicRouterPing(resolved) == PingRouters(resolved)

\* periodic_token_rotation: every 300 s, rotate_token_secrets.
PeriodicTokenRotation == RotateTokenSecrets

Tick ==
    /\ now < MaxTime
    /\ now' = now + 1
    /\ UNCHANGED <<buckets, peer_storage, tokenVars, addrVars, subVars, netVars>>

-----------------------------------------------------------------------------
(* Outstanding requests.  DHTSocket (not under src/) matches a response to *)
(* its reply slot by transaction id and by the Id the request was sent to, *)
(* or by IP when that Id is unknown, and returns it to the accept loop,   *)
(* which passes it to subscribers.  The spawned task handles it later.    *)

\* The node lists a find_node answer may carry: at most MaxReplyNodes.
ReplyNodes == {S \in SUBSET Remote : Cardinality(S) <= MaxReplyNodes}

\* A host at e.dst answers with Id rid; unmatched answers are dropped.
DeliverReply(e, rid) ==
    /\ running
    /\ e \in pending
    /\ e.reply = None
    /\ e.did \in {None, rid}
    /\ pending' = (pending \ {e}) \cup {[e EXCEPT !.reply = rid]}
    /\ responded' = responded \cup {<<rid, e.dst>>}
    /\ send_packet_to_subscribers([type |-> "response", from |-> e.dst])
    /\ UNCHANGED <<now, buckets, peer_storage, tokenVars, addrVars, running>>

\* A host at e.dst answers a request sent without an Id with a KRPC error
\* message, which carries no Id and so can only fill a slot keyed by IP.
\* The accept loop's catch-all arm only logs it and subscribers get the
\* event; the waiting task gets a message that is not a Response and ends
\* with a GeneralError, which it logs: nobody is verified.
DeliverError(e) ==
    /\ running
    /\ e \in pending
    /\ e.reply = None /\ e.did = None
    /\ pending' = pending \ {e}
    /\ send_packet_to_subscribers([type |-> "error", from |-> e.dst])
    /\ UNCHANGED <<now, buckets, peer_storage, tokenVars, addrVars, responded,
                   running>>

\* Mutant: the responder is upserted without being marked verified.
admit_responder_unverified(b, e) ==
    IF <<e.reply, e.dst>> \in ValidFor THEN NS!AddOrUpdate(b, e.reply, e.dst, FALSE, now) ELSE b

\* Mutant: the responder is upserted whether or not its Id is valid for
\* its IP.
admit_responder_any_id(b, e) == NS!AddOrUpdate(b, e.reply, e.dst, TRUE, now)

\* A responder whose Id is valid for the IP the request went to
\* (is_valid_for_ip) is upserted as verified.
admit_responder(b, e) ==
    IF <<e.reply, e.dst>> \in ValidFor THEN NS!AddOrUpdate(b, e.reply, e.dst, TRUE, now) ELSE b

\* Mutant: every responder votes, valid Id or not.
vote_responder_always(v, e, claim) == ip4_vote_helper(v, e.dst, claim)

\* Only a responder whose Id is valid for its IP votes on our address.
vote_responder(v, e, claim) ==
    IF <<e.reply, e.dst>> \in ValidFor THEN ip4_vote_helper(v, e.dst, claim) ELSE v

\* A node listed in a FindNodeResponse is upserted unverified if its Id
\* is valid for its IP.
admit_listed(n, b) ==
    IF <<n, n>> \in ValidFor THEN NS!AddOrUpdate(b, n, n, FALSE, now) ELSE b

\* The rest of common_send_and_handle_response once the reply slot yields,
\* its two critical sections (nothing is awaited between them) as one
\* step: the responder votes for the external IP it claims for
\* us (claim) and is admitted; then, if the answer is a FindNodeResponse
\* (the responder decides, whatever we asked), its listed nodes are
\* admitted.  What the answer carries besides the Id is read only here, so
\* it is chosen here; an answer without nodes lists the empty set.
HandleResponse(e) ==
    /\ e \in pending
    /\ e.reply # None
    /\ \E nodes \in ReplyNodes, claim \in OurIPs \cup {None} :
         /\ votes' = vote_responder(votes, e, claim)
         /\ buckets' = FoldSet(admit_listed, admit_responder(buckets, e), nodes)
    /\ pending' = pending \ {e}
    /\ UNCHANGED <<now, our_id, peer_storage, tokenVars, subVars, responded,
                   running>>

\* The 5 s timeout of spawn_with_shutdown cancels the task, whether or not
\* a reply already sits in its slot; the slot is then dropped.
Timeout(e) ==
    /\ e \in pending
    /\ pending' = pending \ {e}
    /\ UNCHANGED <<now, buckets, peer_storage, tokenVars, addrVars, subVars,
                   responded, running>>

-----------------------------------------------------------------------------
(* Subscribers (environment): subscribe(), reading a channel, dropping a  *)
(* receiver.                                                               *)

Subscribe(s) ==
    /\ s \notin subscribers \cup dropped
    /\ subscribers' = subscribers \cup {s}
    /\ UNCHANGED <<now, buckets, peer_storage, tokenVars, addrVars, queue,
                   dropped, netVars>>

ReadEvent(s) ==
    /\ s \notin dropped
    /\ queue[s] # <<>>
    /\ queue' = [queue EXCEPT ![s] = Tail(@)]
    /\ UNCHANGED <<now, buckets, peer_storage, tokenVars, addrVars, subscribers,
                   dropped, netVars>>

DropReceiver(s) ==
    /\ s \in subscribers \ dropped
    /\ dropped' = dropped \cup {s}
    /\ queue' = [queue EXCEPT ![s] = <<>>]
    /\ UNCHANGED <<now, buckets, peer_storage, tokenVars, addrVars, subscribers,
                   netVars>>

-----------------------------------------------------------------------------
\* One incoming request of any variant, handled by the accept loop while
\* run_event_loop runs.
RequestStep ==
    running /\ \E src \in Remote, sp \in SrcPorts, sid \in Remote \cup {None}, ro \in BOOLEAN :
        \/ ReceiveReadOnly(src, sp)
        \/ HandlePing(src, sp, sid, ro)
        \/ HandleFindNode(src, sp, sid, ro)
        \/ HandleSampleInfohashes(src, sp, sid, ro)
        \/ HandleGetPeers(src, sp, sid, ro)
        \/ \E h \in InfoHash, t \in ForgeableTokens(issued), port \in AnnouncePorts, imp \in BOOLEAN :
             HandleAnnouncePeer(src, sp, sid, ro, h, t, port, imp)

\* The tasks run_event_loop joins that keep the routing table: the
\* periodic ones and the spawned request tasks with their reply slots.
MaintenanceStep ==
    \/ \E resolved \in SUBSET Routers :
         PingRouters(resolved) \/ PeriodicRouterPing(resolved) \/ PeriodicFindNode(resolved)
    \/ BuddyPing
    \/ \E e \in pending : \/ \E rid \in Remote : DeliverReply(e, rid)
                          \/ DeliverError(e)
                          \/ HandleResponse(e)
                          \/ Timeout(e)

SubscriberStep == \E s \in Subscribers : Subscribe(s) \/ ReadEvent(s) \/ DropReceiver(s)

Next ==
    \/ RequestStep \/ MaintenanceStep \/ Ip4Maintenance \/ PeriodicTokenRotation
    \/ SubscriberStep \/ Tick

Spec == Init /\ [][Next]_vars

\* The parts of the node touch disjoint state except the routing table,
\* which requests only extend through common_request_handling, the same
\* for every variant.  Each part is also checked on its own with larger
\* bounds: the announce side with every request variant, and the routing
\* side with ping requests standing for all of them.
RequestSpec == Init /\ [][RequestStep \/ PeriodicTokenRotation \/ Tick]_vars

PingStep ==
    running /\ \E src \in Remote, sp \in SrcPorts, sid \in Remote \cup {None}, ro \in BOOLEAN :
        HandlePing(src, sp, sid, ro)

RoutingSpec ==
    Init /\ [][PingStep \/ MaintenanceStep \/ Ip4Maintenance \/ SubscriberStep \/ Tick]_vars


\* Fairness for the router liveness check: the router keeps being pinged
\* (periodic_router_ping, hostname resolving), a reachable honest router
\* answers one of those pings with its own Id before the timeout, and the
\* waiting task then runs before its timeout.  Timeouts compete with both,
\* hence strong fairness.
HonestRouterReply ==
    \E e \in pending : e.dst \in Routers /\ DeliverReply(e, e.dst)

RouterResponseHandled ==
    \E e \in pending : e.dst \in Routers /\ e.reply = e.dst /\ HandleResponse(e)

LiveSpec ==
    /\ RoutingSpec
    /\ WF_vars(PingRouters(Routers))
    /\ SF_vars(HonestRouterReply)
    /\ SF_vars(RouterResponseHandled)

-----------------------------------------------------------------------------
(* Properties                                                              *)

\* Announce tokens bind the requester's IP: every peer stored for an info
\* hash was announced from an IP that had been handed a token by a
\* get_peers reply.  A host that forges its source address, or reuses a
\* token issued to another IP, must never get a peer stored
\* (calculate_token and the announce_peer token test).
PeerRequiresToken ==
    \A h \in DOMAIN peer_storage : \A a \in DOMAIN peer_storage[h] :
        \E t \in issued : t[1] = a[1]

\* A token stays good for exactly one rotation: a token handed out is
\* accepted from its IP while at most one rotate_token_secrets has happened
\* since, and refused after the second (spec section 8).
TokenWindow ==
    \A t \in issued :
        TokenValid(t[1], t) <=> token_secret - t[2] <= 1

\* The routing table as RoutingTable sees it: each entry's status, and the
\* Ids of every matched response.
EntryStatus == [i \in DOMAIN buckets |->
                  IF buckets[i].lv = None THEN "unverified" ELSE "verified"]
AnsweredIds == {p[1] : p \in responded}

RT == INSTANCE RoutingTable WITH table <- EntryStatus, answered <- AnsweredIds,
                                 Id <- Remote

\* Every step of the node (requests through common_request_handling,
\* matched responses, find_node answers, buddy-ping pruning, Id changes)
\* changes the routing table only as RoutingTable allows: verification
\* needs a matched response carrying the Id, a verified entry is never
\* downgraded, and inserts never push out a verified entry.
RoutingRefinement == RT!Spec

\* BEP-42 admission: every entry of the routing table has an Id valid for
\* the address it is kept under, whether it entered as a requester
\* (common_request_handling), as a responder or as a node listed in a
\* FindNodeResponse (common_send_and_handle_response), and whatever
\* wrong-Id answers, evictions and prunes came between.
EntriesValidForAddress ==
    \A i \in DOMAIN buckets : <<i, buckets[i].addr>> \in ValidFor

\* The remotes that answered one of our requests with an Id valid for
\* their own address.
ValidResponders == {p[2] : p \in responded \cap ValidFor}

\* Our Id changes only in periodic_ip4_maintenance, to an Id valid for an
\* external address that at least MinVotes remotes claim, each of which
\* answered one of our requests with an Id valid for its own address: a
\* responder with a spoofed Id never helps move the node.
IdFollowsValidVoters ==
    [][our_id' # our_id =>
         \E ip \in OurIPs :
            /\ <<our_id', ip>> \in OurValidFor
            /\ Cardinality({x \in DOMAIN votes' \cap ValidResponders :
                              votes'[x].ip = ip}) >= MinVotes]_vars

\* A reachable router with a valid Id ends up verified in the routing
\* table (the bootstrap the test test_event_loop_pings_routers relies on).
RouterEventuallyVerified ==
    \A r \in Routers : <<r, r>> \in ValidFor => <>(r \in NS!VerifiedIds(buckets))

\* test_event_loop_pings_routers and spec scenario 5: once a subscriber
\* has read the MessageReceived event of a router's reply, the router is
\* verified in the routing table.
RouterVerifiedOnEvent ==
    [][\A s \in Subscribers :
         (/\ queue[s] # <<>>
          /\ queue'[s] = Tail(queue[s])
          /\ Head(queue[s]).type = "response"
          /\ Head(queue[s]).from \in Routers)
         => Head(queue[s]).from \in NS!VerifiedIds(buckets)]_vars

=============================================================================
