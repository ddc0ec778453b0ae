----------------------------- MODULE NodeStorage -----------------------------
(***************************************************************************)
(* The routing table (NodeStorage) that the DHT node keeps.  Its source    *)
(* is not part of src/ (only dht.rs and operations.rs are), so these       *)
(* operators follow the specification, section 3 and 4.2.                  *)
(*                                                                         *)
(* A table is a function from node Id to a NodeWrapper record:            *)
(*   addr  the address the node was first seen at                          *)
(*   seen  last_seen, the time of the latest packet from the node          *)
(*   lv    last_verified, the time of the latest matched response, or None *)
(* A wrapper is verified exactly when lv # None.                            *)
(*                                                                         *)
(* Abstraction: Kademlia splits only the bucket holding our own Id, so     *)
(* remote Ids far from ours share one bucket of K entries.  The model     *)
(* keeps that single bucket; its replacement rule is the one of 4.2.       *)
(***************************************************************************)
EXTENDS Naturals, FiniteSets, Functions, TLC

CONSTANTS
    K,              \* bucket size (8 in the code)
    VerifyGrace,    \* verify_grace_period_secs
    ReverifyGrace,  \* reverify_grace_period_secs
    None            \* model value: no last_verified yet

Wrapper(addr, now, verified) ==
    [addr |-> addr, seen |-> now, lv |-> IF verified THEN now ELSE None]

VerifiedIds(b)   == {i \in DOMAIN b : b[i].lv # None}
UnverifiedIds(b) == {i \in DOMAIN b : b[i].lv = None}

\* count() -> (unverified, verified)
Count(b) == <<Cardinality(UnverifiedIds(b)), Cardinality(VerifiedIds(b))>>

\* The unverified entry a full bucket gives up for a newcomer: the one
\* seen least recently.
OldestUnverified(b) ==
    CHOOSE i \in UnverifiedIds(b) :
        \A j \in UnverifiedIds(b) : b[i].seen <= b[j].seen

\* add_or_update(node, verified): refresh a known Id, insert a new one,
\* evicting the oldest unverified entry of a full bucket, or drop the
\* newcomer when every entry is verified.
AddOrUpdate(b, id, addr, verified, now) ==
    IF id \in DOMAIN b
    THEN [b EXCEPT ![id].seen = now,
                   ![id].lv   = IF verified THEN now ELSE @]
    ELSE IF Cardinality(DOMAIN b) < K
         THEN b @@ (id :> Wrapper(addr, now, verified))
         ELSE IF UnverifiedIds(b) = {}
              THEN b
              ELSE LET old == OldestUnverified(b)
                   IN  Restrict(b, DOMAIN b \ {old})
                         @@ (id :> Wrapper(addr, now, verified))

\* prune(reverify_grace, verify_grace): drop unverified entries not seen
\* within VerifyGrace and verified ones not verified within ReverifyGrace.
Keep(w, now) ==
    IF w.lv = None THEN w.seen + VerifyGrace >= now
                   ELSE w.lv + ReverifyGrace >= now

Prune(b, now) == RestrictDomain(b, LAMBDA i : Keep(b[i], now))

\* get_nearest_nodes(target, exclude): up to K verified nodes.  Remote Ids
\* are model values, so XOR order is not modelled; with at most K
\* verified entries the nearest K are all of them.
Nearest(b, exclude) == VerifiedIds(b) \ {exclude}

=============================================================================
