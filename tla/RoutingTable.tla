---------------------------- MODULE RoutingTable -----------------------------
(***************************************************************************)
(* What the routing table promises the rest of the node, without times,   *)
(* addresses or bucket layout (spec sections 3 and 4.2).  An entry is     *)
(* "unverified" or "verified"; answered is the set of Ids from which a     *)
(* response to one of our requests has been matched.                      *)
(*                                                                         *)
(* One step of the node may change several entries at once (a find_node   *)
(* answer verifies its sender and adds the nodes it lists), so a step is   *)
(* described by what it may do to each entry:                              *)
(*   - an entry becomes verified only if its Id has answered;              *)
(*   - a verified entry that stays is still verified (add_or_update with   *)
(*     verified = false never clears last_verified);                       *)
(*   - the table never holds more than K entries;                          *)
(*   - a step that inserts entries removes only unverified ones, at most   *)
(*     one per insert (a full bucket gives up its oldest unverified entry  *)
(*     or drops the newcomer, never a verified entry); verified entries    *)
(*     leave only through prune.                                           *)
(***************************************************************************)
EXTENDS Naturals, FiniteSets

CONSTANTS Id, K

VARIABLES table, answered

Status == {"unverified", "verified"}

TypeOK ==
    /\ DOMAIN table \subseteq Id /\ table \in [DOMAIN table -> Status]
    /\ answered \subseteq Id

Verified(t) == {i \in DOMAIN t : t[i] = "verified"}

Init ==
    /\ table = <<>>
    /\ answered = {}

\* One step: responses are matched (answered grows) and any combination of
\* inserts, verifications and evictions allowed above is applied.
Update ==
    LET added   == DOMAIN table' \ DOMAIN table
        removed == DOMAIN table \ DOMAIN table'
    IN /\ answered \subseteq answered'
       /\ Cardinality(DOMAIN table') <= K
       /\ \A i \in Verified(table') : i \in Verified(table) \/ i \in answered'
       /\ \A i \in Verified(table) \cap DOMAIN table' : table'[i] = "verified"
       /\ added # {} => /\ removed \cap Verified(table) = {}
                        /\ Cardinality(removed) <= Cardinality(added)

Next == Update

Spec == Init /\ [][Next]_<<table, answered>>

=============================================================================
