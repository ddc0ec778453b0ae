----------------------------- MODULE MCDHTNode ------------------------------
(* Model values for the DHTNode runs: two remotes, r1 a router with an    *)
(* Id valid only for itself, r2 on a private address where any Id is      *)
(* valid, so spoofed sender Ids, wrong responders and reused tokens all   *)
(* occur; external addresses ipA/ipB, Ids i1/i2 and a subscriber s1.      *)
EXTENDS DHTNode

CONSTANTS r1, r2, h1, ipA, ipB, i1, i2, s1

MCRemote   == {r1, r2}
MCRouters  == {r1}
MCValidFor == {<<r1, r1>>} \cup ({r1, r2} \X {r2})
MCOurValidFor == {<<i1, ipA>>}

\* Two external addresses; i2 is valid for both, i1 only for ipA.
MCOurValidFor2 == {<<i1, ipA>>, <<i2, ipA>>, <<i2, ipB>>}
=============================================================================
