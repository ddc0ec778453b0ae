---------------------------- MODULE AddressSource ----------------------------
(***************************************************************************)
(* The IPv4 address source the node asks for its external address         *)
(* (IPV4AddrSource).  Its source is not under src/; the operators follow  *)
(* the specification, section 3: one vote per voter, a later vote of the  *)
(* same voter replacing the earlier, weights that decay to removal, and   *)
(* a plurality winner reported only once it has a quorum of voters.       *)
(*                                                                         *)
(* A vote table is a function from voter IP to [ip, w]: the claimed       *)
(* address and the vote's remaining weight.                               *)
(***************************************************************************)
EXTENDS Naturals, FiniteSets, Functions, TLC

CONSTANTS
    VoteWeight,   \* weight of a fresh vote: decay rounds it survives
    MinVotes,     \* voters a claimed address needs before it is reported
    NoIP          \* get_best_ipv4() returned None

\* add_vote(voter, claimed)
AddVote(v, voter, claimed) == (voter :> [ip |-> claimed, w |-> VoteWeight]) @@ v

\* decay(): every weight drops by one; votes at zero are removed.
Decay(v) ==
    [voter \in {x \in DOMAIN v : v[x].w > 1} |-> [v[voter] EXCEPT !.w = @ - 1]]

Support(v, ip) == Cardinality({x \in DOMAIN v : v[x].ip = ip})

\* get_best_ipv4(): the claimed address with most voters, if it has a
\* quorum; among equally supported addresses an arbitrary fixed one.
BestIPv4(v) ==
    LET claimed == {v[x].ip : x \in DOMAIN v}
        top     == {ip \in claimed : \A o \in claimed : Support(v, o) <= Support(v, ip)}
    IN  IF top = {} THEN NoIP
        ELSE LET ip == CHOOSE a \in top : TRUE
             IN  IF Support(v, ip) >= MinVotes THEN ip ELSE NoIP

=============================================================================
