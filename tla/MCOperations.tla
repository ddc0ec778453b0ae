---------------------------- MODULE MCOperations ----------------------------
(* Four remote nodes, n1 nearest the target and n2 farthest.  The routing *)
(* table starts with n1 and n2 and may verify n3 during the lookup; n1    *)
(* and n2 return n4, which the lookup learns and queries in its second   *)
(* round, and n3 returns n1 and n2.  n1 is among the nearest in every    *)
(* round, so it is queried (and, for get_peers, a responder) repeatedly. *)
EXTENDS Operations

CONSTANTS n1, n2, n3, n4

MCNode    == {n1, n2, n3, n4}
MCDist    == (n1 :> 1) @@ (n3 :> 2) @@ (n4 :> 3) @@ (n2 :> 4)
MCRouting == {n1, n2}
MCLater   == {n3}
MCKnows   == (n1 :> {n4}) @@ (n2 :> {n4}) @@ (n3 :> {n1, n2}) @@ (n4 :> {})
=============================================================================
