---------------------------- MODULE TorrentStore ----------------------------
(***************************************************************************)
(* What the store does for the crawler: the interfaces PeerStore,          *)
(* TorrentStore and InfohashStore of models/storage.go, without SQL.       *)
(* SqliteStore is shown to implement it and Crawler is built on it.        *)
(*                                                                         *)
(* An infohash is absent, pending (an announcement was saved and its       *)
(* metadata was not) or indexed.  A pending one has the peer of the last   *)
(* announcement, or NoPeer once that peer has been removed.                *)
(***************************************************************************)
EXTENDS Integers, FiniteSets

CONSTANTS Infohash, Address, NoPeer

ASSUME TorrentStoreAssumption ==
  /\ Infohash \subseteq Nat /\ IsFiniteSet(Infohash)
  /\ NoPeer \notin Address

VARIABLES torrents, peers, peerOf

store == <<torrents, peers, peerOf>>

StoreInit ==
  /\ torrents = [ih \in Infohash |-> "absent"]
  /\ peers = {}
  /\ peerOf = [ih \in Infohash |-> NoPeer]

(* SavePeer links the infohash to the peer that announced it if that peer  *)
(* is new, and to some known peer if not.                                  *)
SavePeer(a, ih) ==
  /\ peers' = peers \cup {a}
  /\ torrents' = [torrents EXCEPT ![ih] = "pending"]
  /\ \E b \in (IF a \in peers THEN peers ELSE {a}) : peerOf' = [peerOf EXCEPT ![ih] = b]

SaveTorrent(ih) ==
  /\ torrents' = [torrents EXCEPT ![ih] = "indexed"]
  /\ peerOf' = [peerOf EXCEPT ![ih] = NoPeer]
  /\ UNCHANGED peers

RemoveTorrent(ih) ==
  /\ torrents' = [torrents EXCEPT ![ih] = "absent"]
  /\ peerOf' = [peerOf EXCEPT ![ih] = NoPeer]
  /\ UNCHANGED peers

\* Mutant of RemovePeer: the link to the peer stays.
RemovePeerOnly(a) == peers' = peers \ {a} /\ UNCHANGED <<torrents, peerOf>>

RemovePeer(a) ==
  /\ peers' = peers \ {a}
  /\ peerOf' = [ih \in Infohash |-> IF peerOf[ih] = a THEN NoPeer ELSE peerOf[ih]]
  /\ UNCHANGED torrents

(* PendingInfohashes(n) returns the n first ones that have a peer, in the  *)
(* order of the infohashes: the one member of this set.                    *)
Pending == {ih \in Infohash : torrents[ih] = "pending" /\ peerOf[ih] # NoPeer}
PendingInfohashes(n) ==
  LET k == IF Cardinality(Pending) < n THEN Cardinality(Pending) ELSE n
  IN  {s \in [1 .. k -> [addr : Address, ih : Pending]] :
         \A i \in 1 .. k :
           /\ s[i].addr = peerOf[s[i].ih]
           /\ \A ih \in Pending : ih < s[i].ih <=> \E j \in 1 .. i - 1 : s[j].ih = ih}

StoreNext ==
  \/ \E a \in Address, ih \in Infohash : SavePeer(a, ih)
  \/ \E ih \in Infohash : SaveTorrent(ih) \/ RemoveTorrent(ih)
  \/ \E a \in Address : RemovePeer(a)

StoreSpec == StoreInit /\ [][StoreNext]_store
=============================================================================
