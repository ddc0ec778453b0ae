----------------------------- MODULE PeerStorage -----------------------------
(***************************************************************************)
(* PeerStorage: info-hash -> announced peer addresses with the time of    *)
(* their announce.  Its source is not under src/, so the operators follow *)
(* the specification, section 3: two caps, max_torrents and              *)
(* max_peers_per_torrent, each enforced by evicting the oldest entry.     *)
(*                                                                         *)
(* A store is a function from info hash to a function from peer address   *)
(* to announce time.                                                       *)
(***************************************************************************)
EXTENDS Naturals, FiniteSets, Functions, TLC

CONSTANTS
    MaxTorrents,          \* settings.max_torrents
    MaxPeersPerTorrent    \* settings.max_peers_per_torrent

\* Time of the most recent announce for an info hash.
LastAnnounce(ps, h) ==
    CHOOSE t \in Range(ps[h]) : \A u \in Range(ps[h]) : u <= t

OldestPeer(peers) ==
    CHOOSE a \in DOMAIN peers : \A b \in DOMAIN peers : peers[a] <= peers[b]

OldestHash(ps) ==
    CHOOSE h \in DOMAIN ps :
        \A g \in DOMAIN ps : LastAnnounce(ps, h) <= LastAnnounce(ps, g)

\* Insert or refresh addr in a peer set, evicting the oldest peer when the
\* set is at its cap.
AddPeer(peers, addr, now) ==
    IF addr \in DOMAIN peers \/ Cardinality(DOMAIN peers) < MaxPeersPerTorrent
    THEN (addr :> now) @@ peers
    ELSE Restrict(peers, DOMAIN peers \ {OldestPeer(peers)}) @@ (addr :> now)

\* announce_peer(info_hash, addr)
AnnouncePeer(ps, h, addr, now) ==
    IF h \in DOMAIN ps
    THEN [ps EXCEPT ![h] = AddPeer(@, addr, now)]
    ELSE IF Cardinality(DOMAIN ps) < MaxTorrents
         THEN ps @@ (h :> (addr :> now))
         ELSE Restrict(ps, DOMAIN ps \ {OldestHash(ps)}) @@ (h :> (addr :> now))

=============================================================================
