----------------------- MODULE SqliteStoreRefinement -----------------------
(***************************************************************************)
(* SqliteStore implements TorrentStore, for all infohashes, addresses,     *)
(* tags, tag lists and every bound of the ids.                             *)
(*                                                                         *)
(* The mapping takes the peer of an infohash from a join of three tables.  *)
(* It is well defined because of SqliteStoreProofs' invariant: one row per *)
(* infohash, one link per torrent, one peer per id.                        *)
(***************************************************************************)
EXTENDS SqliteStoreProofs, FiniteSetTheorems

-----------------------------------------------------------------------------
(***************************************************************************)
(* The mapping                                                             *)
(***************************************************************************)

(* The addresses linked to an infohash, as the join of the three tables. *)
LEMMA LinkedToJoin ==
  ASSUME NEW d, NEW ih
  PROVE  \A x : x \in LinkedTo(d, ih) <=>
           \E t \in d.torrents, r \in d.peers_torrents, p \in d.peers :
             t.infohash = ih /\ r.torrent_id = t.id /\ r.peer_id = p.id /\ x = p.address
<1> TAKE x
<1>1. x \in LinkedTo(d, ih) <=> \E t \in d.torrents : t.infohash = ih /\ x \in PeersOf(d, t)
  BY DEF LinkedTo
<1>2. \A t : x \in PeersOf(d, t) <=>
        \E r \in d.peers_torrents, p \in d.peers :
          r.torrent_id = t.id /\ r.peer_id = p.id /\ x = p.address
  BY DEF PeersOf
<1> QED BY <1>1, <1>2, Zenon

(* The join has at most one row. *)
LEMMA LinkedToOne ==
  ASSUME NEW d, DbInv(d), NEW ih, NEW x \in LinkedTo(d, ih)
  PROVE  LinkedTo(d, ih) = {x} /\ x \in Address
<1>1. PICK t \in d.torrents, r \in d.peers_torrents, p \in d.peers :
        t.infohash = ih /\ r.torrent_id = t.id /\ r.peer_id = p.id /\ x = p.address
  BY LinkedToJoin
<1>2. ASSUME NEW y \in LinkedTo(d, ih) PROVE y = x
  <2>1. PICK u \in d.torrents, s \in d.peers_torrents, q \in d.peers :
          u.infohash = ih /\ s.torrent_id = u.id /\ s.peer_id = q.id /\ y = q.address
    BY LinkedToJoin
  <2>2. u = t
    BY <1>1, <2>1 DEF DbInv, UniqueKeys
  <2>3. s = r
    BY <1>1, <2>1, <2>2 DEF DbInv, OneLink
  <2>4. q = p
    BY <1>1, <2>1, <2>3 DEF DbInv, PrimaryKeys, Tables
  <2> QED BY <1>1, <2>1, <2>4
<1>3. x \in Address
  BY <1>1 DEF DbInv, DbType
<1> QED BY <1>2, <1>3, Zenon

(* What the mapping makes of no row and of one. *)
LEMMA PeerOfValue ==
  ASSUME NEW d, NEW ih
  PROVE  /\ LinkedTo(d, ih) = {} => PeerOf(d, ih) = NoPeer
         /\ \A x \in Address : LinkedTo(d, ih) = {x} => PeerOf(d, ih) = x
<1>1. ASSUME LinkedTo(d, ih) = {} PROVE PeerOf(d, ih) = NoPeer
  <2>1. PeerOf(d, ih) = CHOOSE z \in {NoPeer} : \A y \in {NoPeer} : z >= y
    <3>1. {NoPeer} \cup LinkedTo(d, ih) = {NoPeer}
      BY <1>1, Zenon
    <3> QED BY <3>1, Zenon DEF PeerOf, Max
  <2>2. NoPeer >= NoPeer
    BY DEF NoPeer
  <2>3. \E z \in {NoPeer} : \A y \in {NoPeer} : z >= y
    BY <2>2, Zenon
  <2> QED BY <2>1, <2>3, Zenon
<1>2. ASSUME NEW x \in Address, LinkedTo(d, ih) = {x} PROVE PeerOf(d, ih) = x
  <2>1. x \in Nat /\ x >= NoPeer /\ x >= x /\ ~(NoPeer >= x)
    BY StoreAssumption DEF NoPeer
  <2>2. PeerOf(d, ih) = CHOOSE z \in {NoPeer, x} : \A y \in {NoPeer, x} : z >= y
    <3>1. {NoPeer} \cup LinkedTo(d, ih) = {NoPeer, x}
      BY <1>2, Zenon
    <3> QED BY <3>1, Zenon DEF PeerOf, Max
  <2>3. \E z \in {NoPeer, x} : \A y \in {NoPeer, x} : z >= y
    BY <2>1, Zenon
  <2>4. PeerOf(d, ih) \in {NoPeer, x} /\ \A y \in {NoPeer, x} : PeerOf(d, ih) >= y
    BY <2>2, <2>3, Zenon
  <2> QED BY <2>1, <2>4, Zenon
<1> QED BY <1>1, <1>2

(* A linked infohash has the linked address as its peer; the others have   *)
(* none.                                                                   *)
LEMMA PeerOfLinked ==
  ASSUME NEW d, DbInv(d), NEW ih
  PROVE  \/ LinkedTo(d, ih) = {} /\ PeerOf(d, ih) = NoPeer
         \/ LinkedTo(d, ih) = {PeerOf(d, ih)} /\ PeerOf(d, ih) \in Address
<1>1. CASE LinkedTo(d, ih) = {}
  BY <1>1, PeerOfValue
<1>2. CASE LinkedTo(d, ih) # {}
  <2>1. PICK x : x \in LinkedTo(d, ih)
    BY <1>2, Zenon
  <2> QED BY <2>1, LinkedToOne, PeerOfValue
<1> QED BY <1>1, <1>2

(* NoPeer is no address. *)
LEMMA NoPeerIsNoAddress == NoPeer \notin Address
BY StoreAssumption DEF NoPeer

(* The rest of the mapping depends on the tables it reads. *)
LEMMA SameView ==
  ASSUME NEW d, NEW e, e.torrents = d.torrents, e.peers = d.peers,
         e.peers_torrents = d.peers_torrents, NEW ih
  PROVE  StatusOf(e, ih) = StatusOf(d, ih) /\ PeerOf(e, ih) = PeerOf(d, ih)
<1>1. StatusOf(e, ih) = StatusOf(d, ih)
  BY DEF StatusOf
<1>2. \A t : PeersOf(e, t) = PeersOf(d, t)
  BY DEF PeersOf
<1>3. LinkedTo(e, ih) = LinkedTo(d, ih)
  BY <1>2 DEF LinkedTo
<1> QED BY <1>1, <1>3 DEF PeerOf

-----------------------------------------------------------------------------
(***************************************************************************)
(* What the methods do to the mapped state                                 *)
(***************************************************************************)

(***************************************************************************)
(* A method that removes no peer is invisible in an infohash whose row and *)
(* links it leaves alone: new peers have ids that no link refers to.       *)
(***************************************************************************)
LEMMA OtherInfohash ==
  ASSUME NEW d, DbInv(d), NEW e, DbInv(e), NEW other,
         \A t : t.infohash = other => (t \in e.torrents <=> t \in d.torrents),
         \A t \in d.torrents : t.infohash = other =>
           \A r : r.torrent_id = t.id => (r \in e.peers_torrents <=> r \in d.peers_torrents),
         d.peers \subseteq e.peers
  PROVE  StatusOf(e, other) = StatusOf(d, other) /\ PeerOf(e, other) = PeerOf(d, other)
<1>1. \A t : t \in e.torrents /\ t.infohash = other <=> t \in d.torrents /\ t.infohash = other
  OBVIOUS
<1>2. StatusOf(e, other) = StatusOf(d, other)
  <2>1. {t \in e.torrents : t.infohash = other} = {t \in d.torrents : t.infohash = other}
    BY <1>1, Zenon
  <2> QED BY <2>1, Zenon DEF StatusOf
<1>3. ASSUME NEW t \in d.torrents, t.infohash = other
      PROVE  \A r : r \in e.peers_torrents /\ r.torrent_id = t.id
                      <=> r \in d.peers_torrents /\ r.torrent_id = t.id
  BY <1>3
<1>4. ASSUME NEW r \in d.peers_torrents, NEW p
      PROVE  p \in e.peers /\ r.peer_id = p.id <=> p \in d.peers /\ r.peer_id = p.id
  <2>1. PICK q \in d.peers : r.peer_id = q.id
    BY DEF DbInv, ForeignKeys, Ids
  <2>2. \A s \in e.peers : s.id = q.id => s = q
    BY <2>1 DEF DbInv, PrimaryKeys, Tables
  <2> QED BY <2>1, <2>2
<1>5. LinkedTo(e, other) = LinkedTo(d, other)
  <2>1. ASSUME NEW x \in LinkedTo(e, other) PROVE x \in LinkedTo(d, other)
    <3>1. PICK t \in e.torrents, r \in e.peers_torrents, p \in e.peers :
            t.infohash = other /\ r.torrent_id = t.id /\ r.peer_id = p.id /\ x = p.address
      BY LinkedToJoin
    <3>2. t \in d.torrents
      BY <1>1, <3>1
    <3>3. r \in d.peers_torrents
      BY <1>3, <3>1, <3>2
    <3>4. p \in d.peers
      BY <1>4, <3>1, <3>3
    <3> QED BY <3>1, <3>2, <3>3, <3>4, LinkedToJoin
  <2>2. ASSUME NEW x \in LinkedTo(d, other) PROVE x \in LinkedTo(e, other)
    <3>1. PICK t \in d.torrents, r \in d.peers_torrents, p \in d.peers :
            t.infohash = other /\ r.torrent_id = t.id /\ r.peer_id = p.id /\ x = p.address
      BY LinkedToJoin
    <3>2. t \in e.torrents /\ p \in e.peers
      BY <1>1, <3>1
    <3>3. r \in e.peers_torrents
      BY <1>3, <3>1
    <3> QED BY <3>1, <3>2, <3>3, LinkedToJoin
  <2> QED BY <2>1, <2>2, Zenon
<1> QED BY <1>2, <1>5 DEF PeerOf

(* SavePeer, committed. *)
LEMMA SavePeerView ==
  ASSUME NEW d, DbInv(d), NEW a \in Address, NEW ih \in Infohash, PeerIdValid(d, a)
  PROVE  LET e     == SavedPeer(d, a, ih)
             known == {p.address : p \in d.peers}
         IN  /\ {p.address : p \in e.peers} = known \cup {a}
             /\ StatusOf(e, ih) = "pending"
             /\ PeerOf(e, ih) \in (IF a \in known THEN known ELSE {a})
             /\ \A other \in Infohash \ {ih} :
                  StatusOf(e, other) = StatusOf(d, other) /\ PeerOf(e, other) = PeerOf(d, other)
<1> DEFINE e == SavedPeer(d, a, ih)
           f == PeerRow(d, a)
           known == {p.address : p \in d.peers}
           old == {t \in d.torrents : t.infohash = ih}
           ids == {t.id : t \in old}
           new == PendingRow(d, a, ih).last
           row == [id |-> new, infohash |-> ih, named |-> FALSE]
           link == [id |-> e.last, peer_id |-> f.last, torrent_id |-> new]
<1>1. /\ DbInv(e)
      /\ e.torrents = (d.torrents \ old) \cup {row}
      /\ e.peers = f.peers
      /\ e.peers_torrents = {r \in d.peers_torrents : r.torrent_id \notin ids} \cup {link}
      /\ \A t \in d.torrents : t.id < new
  BY SavedPeerInv
<1>2. /\ DbInv(f)
      /\ a \in known => f = d
      /\ a \notin known =>
           f.peers = d.peers \cup {[id |-> f.last, address |-> a]}
  BY InsertPeerInv DEF PeerRow
<1>3. PICK p \in f.peers : p.id = f.last
  BY DEF PeerIdValid
<1>4. /\ row.id = new /\ row.infohash = ih /\ row.named = FALSE
      /\ link.peer_id = f.last /\ link.torrent_id = new
  OBVIOUS
<1>5. \A t \in d.torrents : t.id # new
  <2>1. \A t \in d.torrents : t.id \in Nat
    BY DEF DbInv, DbType, PosInt
  <2>2. \A i \in Nat : ~(i < i)
    OBVIOUS
  <2> QED BY <1>1, <2>1, <2>2, Zenon
<1> HIDE DEF e, f, new, row, link
<1>6. {q.address : q \in e.peers} = known \cup {a}
  <2>1. CASE a \in known
    BY <1>1, <1>2, <2>1
  <2>2. CASE a \notin known
    <3> DEFINE q == [id |-> f.last, address |-> a]
    <3>1. q.address = a /\ e.peers = d.peers \cup {q}
      BY <1>1, <1>2, <2>2
    <3> HIDE DEF q
    <3> QED BY <3>1
  <2> QED BY <2>1, <2>2
<1>7. StatusOf(e, ih) = "pending"
  <2>1. {t \in e.torrents : t.infohash = ih} = {row}
    BY <1>1, <1>4
  <2> QED BY <1>4, <2>1 DEF StatusOf
<1>8. PeerOf(e, ih) = p.address
  <2>1. row \in e.torrents /\ link \in e.peers_torrents /\ p \in e.peers
    BY <1>1, <1>3
  <2>2. p.address \in LinkedTo(e, ih)
    BY <1>3, <1>4, <2>1, LinkedToJoin
  <2> QED BY <1>1, <2>2, LinkedToOne, PeerOfValue
<1>9. p.address \in (IF a \in known THEN known ELSE {a})
  <2>1. CASE a \in known
    BY <1>2, <1>3, <2>1
  <2>2. CASE a \notin known
    <3> DEFINE q == [id |-> f.last, address |-> a]
    <3>1. q \in f.peers /\ q.id = f.last /\ q.address = a
      BY <1>2, <2>2
    <3>2. q = p
      BY <1>2, <1>3, <3>1 DEF DbInv, PrimaryKeys, Tables
    <3> QED BY <2>2, <3>1, <3>2
  <2> QED BY <2>1, <2>2
<1>10. ASSUME NEW other \in Infohash \ {ih}
       PROVE  StatusOf(e, other) = StatusOf(d, other) /\ PeerOf(e, other) = PeerOf(d, other)
  <2>1. d.peers \subseteq e.peers
    BY <1>1, <1>2
  <2>2. \A t : t.infohash = other => (t \in e.torrents <=> t \in d.torrents)
    BY <1>1, <1>4
  <2>3. ASSUME NEW t \in d.torrents, t.infohash = other, NEW r, r.torrent_id = t.id
        PROVE  r \in e.peers_torrents <=> r \in d.peers_torrents
    <3>1. t.id \notin ids
      BY <2>3 DEF DbInv, PrimaryKeys, Tables
    <3>2. r # link
      BY <1>4, <1>5, <2>3
    <3> HIDE DEF ids
    <3> QED BY <1>1, <2>3, <3>1, <3>2
  <2> QED BY <1>1, <2>1, <2>2, <2>3, OtherInfohash
<1> QED BY <1>6, <1>7, <1>8, <1>9, <1>10 DEF e

(* SaveTorrent. *)
LEMMA SaveTorrentView ==
  ASSUME NEW d, DbInv(d), NEW ih \in Infohash, NEW tags \in Seq(Tag), NEW withFiles
  PROVE  LET e == SavedTorrent(d, ih, tags, withFiles)
         IN  /\ e.peers = d.peers
             /\ StatusOf(e, ih) = "indexed"
             /\ PeerOf(e, ih) = NoPeer
             /\ \A other \in Infohash \ {ih} :
                  StatusOf(e, other) = StatusOf(d, other) /\ PeerOf(e, other) = PeerOf(d, other)
<1> DEFINE e == SavedTorrent(d, ih, tags, withFiles)
           old == {t \in d.torrents : t.infohash = ih}
           ids == {t.id : t \in old}
           new == InsertTorrent(d, ih, TRUE).last
           row == [id |-> new, infohash |-> ih, named |-> TRUE]
<1>1. /\ DbInv(e)
      /\ e.torrents = (d.torrents \ old) \cup {row}
      /\ e.peers = d.peers
      /\ e.peers_torrents = {r \in d.peers_torrents : r.torrent_id \notin ids}
      /\ \A t \in d.torrents : t.id < new
  BY SavedTorrentInv
<1>2. row.infohash = ih /\ row.named = TRUE /\ row \in e.torrents
  BY <1>1
<1> HIDE DEF e, new, row
<1>3. {t \in e.torrents : t.infohash = ih} = {row}
  BY <1>1, <1>2
<1>4. StatusOf(e, ih) = "indexed"
  BY <1>2, <1>3 DEF StatusOf
<1>5. LinkedTo(e, ih) = {}
  <2>1. ASSUME NEW x \in LinkedTo(e, ih) PROVE FALSE
    <3>1. PICK t \in e.torrents, r \in e.peers_torrents, p \in e.peers :
            t.infohash = ih /\ r.torrent_id = t.id /\ r.peer_id = p.id /\ x = p.address
      BY <2>1, LinkedToJoin
    <3>2. t = row
      BY <1>3, <3>1
    <3> QED BY <1>1, <1>2, <3>1, <3>2 DEF DbInv, OneLink
  <2> QED BY <2>1, Zenon
<1>6. PeerOf(e, ih) = NoPeer
  BY <1>5, PeerOfValue
<1>7. ASSUME NEW other \in Infohash \ {ih}
      PROVE  StatusOf(e, other) = StatusOf(d, other) /\ PeerOf(e, other) = PeerOf(d, other)
  <2>1. \A t : t.infohash = other => (t \in e.torrents <=> t \in d.torrents)
    BY <1>1, <1>2
  <2>2. ASSUME NEW t \in d.torrents, t.infohash = other, NEW r, r.torrent_id = t.id
        PROVE  r \in e.peers_torrents <=> r \in d.peers_torrents
    <3>1. t.id \notin ids
      BY <2>2 DEF DbInv, PrimaryKeys, Tables
    <3> HIDE DEF ids
    <3> QED BY <1>1, <2>2, <3>1
  <2> QED BY <1>1, <2>1, <2>2, OtherInfohash
<1> QED BY <1>1, <1>4, <1>6, <1>7 DEF e

(* RemoveTorrent. *)
LEMMA RemoveTorrentView ==
  ASSUME NEW d, DbInv(d), NEW ih \in Infohash
  PROVE  LET e == RemovedTorrent(d, ih)
         IN  /\ e.peers = d.peers
             /\ StatusOf(e, ih) = "absent"
             /\ PeerOf(e, ih) = NoPeer
             /\ \A other \in Infohash \ {ih} :
                  StatusOf(e, other) = StatusOf(d, other) /\ PeerOf(e, other) = PeerOf(d, other)
<1> DEFINE e == RemovedTorrent(d, ih)
           old == {t \in d.torrents : t.infohash = ih}
           ids == {t.id : t \in old}
<1>1. DbInv(e)
  BY DeleteTorrentsInv DEF RemovedTorrent
<1>2. /\ e.torrents = d.torrents \ old
      /\ e.peers = d.peers
      /\ e.peers_torrents = {r \in d.peers_torrents : r.torrent_id \notin ids}
  BY DEF RemovedTorrent, DeleteTorrents, DbInv, DbType
<1> HIDE DEF e
<1>3. {t \in e.torrents : t.infohash = ih} = {}
  BY <1>2
<1>4. StatusOf(e, ih) = "absent"
  BY <1>3 DEF StatusOf
<1>5. LinkedTo(e, ih) = {}
  <2>1. ASSUME NEW x \in LinkedTo(e, ih) PROVE FALSE
    BY <1>3, <2>1, LinkedToJoin
  <2> QED BY <2>1, Zenon
<1>6. PeerOf(e, ih) = NoPeer
  BY <1>5, PeerOfValue
<1>7. ASSUME NEW other \in Infohash \ {ih}
      PROVE  StatusOf(e, other) = StatusOf(d, other) /\ PeerOf(e, other) = PeerOf(d, other)
  <2>1. \A t : t.infohash = other => (t \in e.torrents <=> t \in d.torrents)
    BY <1>2
  <2>2. ASSUME NEW t \in d.torrents, t.infohash = other, NEW r, r.torrent_id = t.id
        PROVE  r \in e.peers_torrents <=> r \in d.peers_torrents
    <3>1. t.id \notin ids
      BY <2>2 DEF DbInv, PrimaryKeys, Tables
    <3> HIDE DEF ids
    <3> QED BY <1>2, <2>2, <3>1
  <2> QED BY <1>1, <1>2, <2>1, <2>2, OtherInfohash
<1> QED BY <1>2, <1>4, <1>6, <1>7 DEF e

(* RemovePeer: the infohash that was linked to the peer has none. *)
LEMMA RemovePeerView ==
  ASSUME NEW d, DbInv(d), NEW a \in Address
  PROVE  LET e == RemovedPeer(d, a)
         IN  /\ {p.address : p \in e.peers} = {p.address : p \in d.peers} \ {a}
             /\ \A ih \in Infohash :
                  /\ StatusOf(e, ih) = StatusOf(d, ih)
                  /\ PeerOf(e, ih) = IF PeerOf(d, ih) = a THEN NoPeer ELSE PeerOf(d, ih)
<1> DEFINE e == RemovedPeer(d, a)
           old == {p \in d.peers : p.address = a}
           ids == {p.id : p \in old}
<1>1. DbInv(e)
  BY DeletePeersInv DEF RemovedPeer
<1>2. /\ e.torrents = d.torrents
      /\ e.peers = d.peers \ old
      /\ e.peers_torrents = {r \in d.peers_torrents : r.peer_id \notin ids}
  BY DEF RemovedPeer, DeletePeers, DbInv, DbType
<1> HIDE DEF e
<1>3. {p.address : p \in e.peers} = {p.address : p \in d.peers} \ {a}
  BY <1>2
<1>4. ASSUME NEW ih \in Infohash
      PROVE  /\ StatusOf(e, ih) = StatusOf(d, ih)
             /\ PeerOf(e, ih) = IF PeerOf(d, ih) = a THEN NoPeer ELSE PeerOf(d, ih)
  <2>1. StatusOf(e, ih) = StatusOf(d, ih)
    BY <1>2 DEF StatusOf
  <2>2. LinkedTo(e, ih) = LinkedTo(d, ih) \ {a}
    <3>1. ASSUME NEW x \in LinkedTo(e, ih) PROVE x \in LinkedTo(d, ih) \ {a}
      <4>1. PICK t \in e.torrents, r \in e.peers_torrents, p \in e.peers :
              t.infohash = ih /\ r.torrent_id = t.id /\ r.peer_id = p.id /\ x = p.address
        BY <3>1, LinkedToJoin
      <4>2. t \in d.torrents /\ r \in d.peers_torrents /\ p \in d.peers /\ p.address # a
        BY <1>2, <4>1
      <4> QED BY <4>1, <4>2, LinkedToJoin
    <3>2. ASSUME NEW x \in LinkedTo(d, ih), x # a PROVE x \in LinkedTo(e, ih)
      <4>1. PICK t \in d.torrents, r \in d.peers_torrents, p \in d.peers :
              t.infohash = ih /\ r.torrent_id = t.id /\ r.peer_id = p.id /\ x = p.address
        BY <3>2, LinkedToJoin
      <4>2. p.id \notin ids
        BY <3>2, <4>1 DEF DbInv, PrimaryKeys, Tables
      <4> HIDE DEF ids
      <4>3. t \in e.torrents /\ r \in e.peers_torrents /\ p \in e.peers
        BY <1>2, <3>2, <4>1, <4>2
      <4> QED BY <4>1, <4>3, LinkedToJoin
    <3> QED BY <3>1, <3>2, Zenon
  <2>3. CASE LinkedTo(d, ih) = {} /\ PeerOf(d, ih) = NoPeer
    BY <2>1, <2>2, <2>3, PeerOfValue, NoPeerIsNoAddress
  <2>4. CASE LinkedTo(d, ih) = {PeerOf(d, ih)} /\ PeerOf(d, ih) \in Address
    <3>1. CASE PeerOf(d, ih) = a
      <4>1. LinkedTo(e, ih) = {}
        BY <2>2, <2>4, <3>1, Zenon
      <4> QED BY <2>1, <3>1, <4>1, PeerOfValue
    <3>2. CASE PeerOf(d, ih) # a
      <4>1. LinkedTo(e, ih) = {PeerOf(d, ih)}
        BY <2>2, <2>4, <3>2, Zenon
      <4> QED BY <2>1, <2>4, <3>2, <4>1, PeerOfValue
    <3> QED BY <3>1, <3>2
  <2> QED BY <2>3, <2>4, PeerOfLinked
<1> QED BY <1>3, <1>4 DEF e

-----------------------------------------------------------------------------
(***************************************************************************)
(* The refinement                                                          *)
(***************************************************************************)

(* The empty tables are the empty store. *)
LEMMA InitRefines == Init => Abstract!StoreInit
<1> SUFFICES ASSUME Init PROVE Abstract!StoreInit
  OBVIOUS
<1>1. db.torrents = {} /\ db.peers = {}
  BY DEF Init, EmptyDb
<1>2. \A ih : StatusOf(db, ih) = "absent"
  BY <1>1 DEF StatusOf
<1>3. \A ih : LinkedTo(db, ih) = {}
  BY <1>1, LinkedToJoin
<1>4. \A ih : PeerOf(db, ih) = NoPeer
  BY <1>3, PeerOfValue
<1> QED BY <1>1, <1>2, <1>4 DEF Abstract!StoreInit

(* A step that leaves the mapped tables alone is a stutter of the store. *)
LEMMA Stutters ==
  ASSUME db'.torrents = db.torrents, db'.peers = db.peers,
         db'.peers_torrents = db.peers_torrents
  PROVE  UNCHANGED Abstract!store
<1>1. \A ih : StatusOf(db, ih)' = StatusOf(db, ih) /\ PeerOf(db, ih)' = PeerOf(db, ih)
  BY SameView
<1> QED BY <1>1 DEF Abstract!store

(* Every step of a method is a step of the store or a stutter. *)
LEMMA StepRefines == StoreInv /\ [Next]_vars => [Abstract!StoreNext]_(Abstract!store)
<1> SUFFICES ASSUME StoreInv, [Next]_vars PROVE [Abstract!StoreNext]_(Abstract!store)
  OBVIOUS
<1> USE DEF StoreInv
<1> DEFINE Goal == [Abstract!StoreNext]_(Abstract!store)
<1>1. ASSUME \A t \in Tables : db'[t] = db[t] PROVE Goal
  <2>1. db'.torrents = db.torrents /\ db'.peers = db.peers
        /\ db'.peers_torrents = db.peers_torrents
    BY <1>1 DEF Tables
  <2> QED BY <2>1, Stutters
<1>2. ASSUME NEW a \in Address, NEW ih \in Infohash, SavePeer(a, ih)
      PROVE  Goal
  <2>1. CASE PeerIdValid(db, a)
    <3> DEFINE known == {p.address : p \in db.peers}
    <3>1. /\ {p.address : p \in db'.peers} = known \cup {a}
          /\ StatusOf(db', ih) = "pending"
          /\ PeerOf(db', ih) \in (IF a \in known THEN known ELSE {a})
          /\ \A other \in Infohash \ {ih} :
               StatusOf(db', other) = StatusOf(db, other) /\ PeerOf(db', other) = PeerOf(db, other)
      BY <1>2, <2>1, SavePeerView DEF SavePeer
    <3>2. [x \in Infohash |-> StatusOf(db', x)] =
            [[x \in Infohash |-> StatusOf(db, x)] EXCEPT ![ih] = "pending"]
      BY <3>1
    <3>3. [x \in Infohash |-> PeerOf(db', x)] =
            [[x \in Infohash |-> PeerOf(db, x)] EXCEPT ![ih] = PeerOf(db', ih)]
      BY <3>1
    <3>4. Abstract!SavePeer(a, ih)
      BY <3>1, <3>2, <3>3 DEF Abstract!SavePeer
    <3> QED BY <3>4 DEF Abstract!StoreNext
  <2>2. CASE ~PeerIdValid(db, a)
    <3>1. db' = Rollback(db, PendingRow(db, a, ih))
      BY <1>2, <2>2 DEF SavePeer, SavedPeer
    <3>2. DbInv(PendingRow(db, a, ih))
      BY PendingRowInv
    <3> QED BY <1>1, <3>1, <3>2, RollbackKeeps
  <2> QED BY <2>1, <2>2
<1>3. ASSUME NEW a \in Address, NEW ih \in Infohash, SavePeerFails(a, ih)
      PROVE  Goal
  <2>1. PICK e \in PeerSteps(db, a, ih) : db' = Rollback(db, e)
    BY <1>3 DEF SavePeerFails, RolledBack
  <2>2. DbInv(e)
    BY PeerStepsInv
  <2> QED BY <1>1, <2>1, <2>2, RollbackKeeps
<1>4. ASSUME NEW ih \in Infohash, NEW tags \in TagLists, NEW f \in BOOLEAN,
             SaveTorrent(ih, tags, f)
      PROVE  Goal
  <2>1. tags \in Seq(Tag)
    BY StoreAssumption
  <2>2. /\ db'.peers = db.peers
        /\ StatusOf(db', ih) = "indexed"
        /\ PeerOf(db', ih) = NoPeer
        /\ \A other \in Infohash \ {ih} :
             StatusOf(db', other) = StatusOf(db, other) /\ PeerOf(db', other) = PeerOf(db, other)
    BY <1>4, <2>1, SaveTorrentView DEF SaveTorrent
  <2>3. [x \in Infohash |-> StatusOf(db', x)] =
          [[x \in Infohash |-> StatusOf(db, x)] EXCEPT ![ih] = "indexed"]
    BY <2>2
  <2>4. [x \in Infohash |-> PeerOf(db', x)] =
          [[x \in Infohash |-> PeerOf(db, x)] EXCEPT ![ih] = NoPeer]
    BY <2>2
  <2>5. Abstract!SaveTorrent(ih)
    BY <2>2, <2>3, <2>4 DEF Abstract!SaveTorrent
  <2> QED BY <2>5 DEF Abstract!StoreNext
<1>5. ASSUME NEW ih \in Infohash, NEW tags \in TagLists, SaveTorrentFails(ih, tags)
      PROVE  Goal
  <2>1. tags \in Seq(Tag)
    BY StoreAssumption
  <2>2. PICK e \in TorrentSteps(db, ih, tags) : db' = Rollback(db, e)
    BY <1>5 DEF SaveTorrentFails, RolledBack
  <2>3. DbInv(e)
    BY <2>1, TorrentStepsInv
  <2> QED BY <1>1, <2>2, <2>3, RollbackKeeps
<1>6. ASSUME NEW ih \in Infohash, RemoveTorrent(ih)
      PROVE  Goal
  <2>1. /\ db'.peers = db.peers
        /\ StatusOf(db', ih) = "absent"
        /\ PeerOf(db', ih) = NoPeer
        /\ \A other \in Infohash \ {ih} :
             StatusOf(db', other) = StatusOf(db, other) /\ PeerOf(db', other) = PeerOf(db, other)
    BY <1>6, RemoveTorrentView DEF RemoveTorrent
  <2>2. [x \in Infohash |-> StatusOf(db', x)] =
          [[x \in Infohash |-> StatusOf(db, x)] EXCEPT ![ih] = "absent"]
    BY <2>1
  <2>3. [x \in Infohash |-> PeerOf(db', x)] =
          [[x \in Infohash |-> PeerOf(db, x)] EXCEPT ![ih] = NoPeer]
    BY <2>1
  <2>4. Abstract!RemoveTorrent(ih)
    BY <2>1, <2>2, <2>3 DEF Abstract!RemoveTorrent
  <2> QED BY <2>4 DEF Abstract!StoreNext
<1>7. ASSUME NEW a \in Address, RemovePeer(a)
      PROVE  Goal
  <2>1. /\ {p.address : p \in db'.peers} = {p.address : p \in db.peers} \ {a}
        /\ \A x \in Infohash :
             /\ StatusOf(db', x) = StatusOf(db, x)
             /\ PeerOf(db', x) = IF PeerOf(db, x) = a THEN NoPeer ELSE PeerOf(db, x)
    BY <1>7, RemovePeerView DEF RemovePeer
  <2>2. [x \in Infohash |-> StatusOf(db', x)] = [x \in Infohash |-> StatusOf(db, x)]
    BY <2>1
  <2> DEFINE peerOf == [x \in Infohash |-> PeerOf(db, x)]
  <2>3. [x \in Infohash |-> PeerOf(db', x)] =
          [x \in Infohash |-> IF peerOf[x] = a THEN NoPeer ELSE peerOf[x]]
    BY <2>1
  <2>4. Abstract!RemovePeer(a)
    BY <2>1, <2>2, <2>3 DEF Abstract!RemovePeer
  <2> QED BY <2>4 DEF Abstract!StoreNext
<1>8. ASSUME NEW tag \in Tag, SaveTag(tag)
      PROVE  Goal
  <2>1. db'.torrents = db.torrents /\ db'.peers = db.peers
        /\ db'.peers_torrents = db.peers_torrents
    BY <1>8, InsertTagInv DEF SaveTag
  <2> QED BY <2>1, Stutters
<1>9. ASSUME UNCHANGED db
      PROVE  Goal
  BY <1>1, <1>9
<1>10. ASSUME Reopen
       PROVE  Goal
  <2>1. \A t \in Tables : [db EXCEPT !.last = 0][t] = db[t]
    BY NewLastInv
  <2> QED BY <1>1, <1>10, <2>1 DEF Reopen
<1> HIDE DEF Goal
<1>11. Goal
  BY <1>2, <1>3, <1>4, <1>5, <1>6, <1>7, <1>8, <1>9, <1>10
     DEF Next, vars, TorrentsByTag, TorrentByHash, TorrentsByName
<1> QED BY <1>11 DEF Goal

(***************************************************************************)
(* The SQLite store is the store that the crawler is built on: whatever    *)
(* SQL does behind the methods' back (rows replaced with new ids, cascades,*)
(* rollbacks, a stale last_insert_rowid, a restart on the same file), the  *)
(* crawler sees the steps of TorrentStore only.                            *)
(***************************************************************************)
THEOREM StoreRefines == Spec => ImplementsStore
BY InitRefines, StepRefines, StoreInvariant, PTL
   DEF Spec, ImplementsStore, Abstract!StoreSpec


-----------------------------------------------------------------------------
(***************************************************************************)
(* The query for pending infohashes                                        *)
(***************************************************************************)

(* The place of a number in a set: how many are smaller. *)
Below(S, x) == {y \in S : y < x}
Rank(S, x) == Cardinality(Below(S, x))

(* Ranks order a finite set as its members are ordered, without gaps. *)
LEMMA Ranks ==
  ASSUME NEW S, IsFiniteSet(S), S \subseteq Nat
  PROVE  /\ \A x \in S : Rank(S, x) \in 0 .. Cardinality(S) - 1
         /\ \A x, y \in S : x < y <=> Rank(S, x) < Rank(S, y)
         /\ \A x, y \in S : Rank(S, x) = Rank(S, y) => x = y
         /\ \A i \in 0 .. Cardinality(S) - 1 : \E x \in S : Rank(S, x) = i
<1> DEFINE m == Cardinality(S)
<1>1. m \in Nat
  BY FS_CardinalityType
<1>2. \A x \in S : IsFiniteSet(Below(S, x)) /\ Rank(S, x) \in Nat
  <2> TAKE x \in S
  <2>1. Below(S, x) \in SUBSET S
    BY DEF Below
  <2>2. IsFiniteSet(Below(S, x))
    BY <2>1, FS_Subset
  <2> QED BY <2>2, FS_CardinalityType DEF Rank
<1>3. ASSUME NEW x \in S PROVE Rank(S, x) \in 0 .. m - 1
  <2>1. Below(S, x) \in SUBSET S /\ x \notin Below(S, x)
    BY DEF Below
  <2>2. Rank(S, x) <= m /\ (m = Rank(S, x) => S = Below(S, x))
    BY <2>1, FS_Subset DEF Rank
  <2>3. Rank(S, x) # m
    BY <2>1, <2>2
  <2> HIDE DEF m
  <2> QED BY <1>1, <1>2, <2>2, <2>3
<1>4. ASSUME NEW x \in S, NEW y \in S, x < y PROVE Rank(S, x) < Rank(S, y)
  <2>1. x \in Nat /\ y \in Nat /\ \A z \in S : z \in Nat
    OBVIOUS
  <2>2. Below(S, x) \in SUBSET Below(S, y) /\ x \in Below(S, y) /\ x \notin Below(S, x)
    <3>1. \A z \in S : z < x => z < y
      BY <1>4, <2>1
    <3>2. ~(x < x)
      BY <2>1
    <3> QED BY <1>4, <3>1, <3>2 DEF Below
  <2>3. /\ Rank(S, x) <= Rank(S, y)
        /\ Rank(S, y) = Rank(S, x) => Below(S, y) = Below(S, x)
    BY <1>2, <2>2, FS_Subset DEF Rank
  <2>4. Rank(S, x) # Rank(S, y)
    BY <2>2, <2>3
  <2> QED BY <1>2, <2>3, <2>4
<1>5. ASSUME NEW x \in S, NEW y \in S
      PROVE  /\ x < y <=> Rank(S, x) < Rank(S, y)
             /\ Rank(S, x) = Rank(S, y) => x = y
  <2>1. x \in Nat /\ y \in Nat /\ Rank(S, x) \in Nat /\ Rank(S, y) \in Nat
    BY <1>2
  <2>2. CASE x < y
    <3>1. Rank(S, x) < Rank(S, y)
      BY <1>4, <2>2
    <3> QED BY <2>1, <2>2, <3>1
  <2>3. CASE y < x
    <3>1. Rank(S, y) < Rank(S, x)
      BY <1>4, <2>3
    <3> QED BY <2>1, <2>3, <3>1
  <2>4. CASE x = y
    BY <2>1, <2>4
  <2> QED BY <2>1, <2>2, <2>3, <2>4
<1>6. ASSUME NEW i \in 0 .. m - 1 PROVE \E x \in S : Rank(S, x) = i
  <2> DEFINE T == 0 .. m - 1
             f == [x \in S |-> Rank(S, x)]
  <2>1. IsFiniteSet(T) /\ Cardinality(T) = m
    <3> HIDE DEF m
    <3>0. 0 \in Int /\ m - 1 \in Int
      BY <1>1
    <3>1. /\ IsFiniteSet(0 .. m - 1)
          /\ Cardinality(0 .. m - 1) = IF 0 > m - 1 THEN 0 ELSE m - 1 - 0 + 1
      BY <3>0, FS_Interval
    <3> QED BY <1>1, <3>1
  <2>2. f \in [S -> T] /\ \A x \in S : f[x] = Rank(S, x)
    BY <1>3
  <2>3. \A x, y \in S : f[x] = f[y] => x = y
    BY <1>5, <2>2
  <2> HIDE DEF f
  <2>4. f \in Injection(S, T)
    BY <2>2, <2>3 DEF Injection, IsInjective
  <2>5. f \in Surjection(S, T)
    BY <2>1, <2>4, FS_Injection
  <2>6. PICK x \in S : f[x] = i
    BY <1>6, <2>5 DEF Surjection
  <2> QED BY <2>2, <2>6
<1> QED BY <1>3, <1>5, <1>6

(* One row per infohash: a set of torrents is counted by its infohashes. *)
LEMMA CountedByInfohash ==
  ASSUME NEW d, DbInv(d), NEW R, R \subseteq d.torrents, NEW Q,
         Q = {t.infohash : t \in R}, IsFiniteSet(Q)
  PROVE  Cardinality(R) = Cardinality(Q)
<1> DEFINE f == [t \in R |-> t.infohash]
<1>1. f \in [R -> Q] /\ \A q \in Q : \E t \in R : f[t] = q
  OBVIOUS
<1>2. \A t, u \in R : f[t] = f[u] => t = u
  BY DEF DbInv, UniqueKeys
<1> HIDE DEF f
<1>3. f \in Injection(R, Q) /\ f \in Surjection(R, Q)
  BY <1>1, <1>2 DEF Injection, Surjection, IsInjective
<1> QED BY <1>3, FS_Injection

(* A pending row as the abstract store sees it. *)
PendingHashes(d) == {t.infohash : t \in Pending(d)}

LEMMA PendingRowsView ==
  ASSUME NEW d, DbInv(d)
  PROVE  /\ PendingHashes(d) =
              {ih \in Infohash : StatusOf(d, ih) = "pending" /\ PeerOf(d, ih) # NoPeer}
         /\ \A t \in Pending(d) : /\ Max(PeersOf(d, t)) = PeerOf(d, t.infohash)
                                  /\ PeerOf(d, t.infohash) \in Address
<1>1. \A t, u \in d.torrents : t.infohash = u.infohash => t = u
  BY DEF DbInv, UniqueKeys
<1>2. \A t \in d.torrents : t.infohash \in Infohash /\ t.named \in BOOLEAN
  BY DEF DbInv, DbType
<1>3. \A t \in d.torrents : LinkedTo(d, t.infohash) = PeersOf(d, t)
  <2> TAKE t \in d.torrents
  <2>1. {u \in d.torrents : u.infohash = t.infohash} = {t}
    BY <1>1
  <2>2. {PeersOf(d, u) : u \in {t}} = {PeersOf(d, t)}
    OBVIOUS
  <2>3. UNION {PeersOf(d, t)} = PeersOf(d, t)
    OBVIOUS
  <2> QED BY <2>1, <2>2, <2>3 DEF LinkedTo
<1>4. \A t \in d.torrents : StatusOf(d, t.infohash) = IF t.named THEN "indexed" ELSE "pending"
  <2> TAKE t \in d.torrents
  <2>1. {u \in d.torrents : u.infohash = t.infohash} = {t}
    BY <1>1
  <2>2. {t} # {} /\ ((\E u \in {t} : u.named) <=> t.named)
    OBVIOUS
  <2> QED BY <2>1, <2>2, Zenon DEF StatusOf
<1>5. \A ih : StatusOf(d, ih) = "pending" => \E t \in d.torrents : t.infohash = ih
  <2> SUFFICES ASSUME NEW ih, ~\E t \in d.torrents : t.infohash = ih
               PROVE  StatusOf(d, ih) # "pending"
    OBVIOUS
  <2>1. {t \in d.torrents : t.infohash = ih} = {}
    OBVIOUS
  <2>2. StatusOf(d, ih) = "absent"
    BY <2>1, Zenon DEF StatusOf
  <2> QED BY <2>2
<1>6. \A t \in d.torrents : PeersOf(d, t) # {} <=> PeerOf(d, t.infohash) # NoPeer
  BY <1>3, PeerOfLinked, NoPeerIsNoAddress
<1>7. \A t \in d.torrents : t \in Pending(d) <=>
        StatusOf(d, t.infohash) = "pending" /\ PeerOf(d, t.infohash) # NoPeer
  BY <1>4, <1>6 DEF Pending
<1>8. PendingHashes(d) =
        {ih \in Infohash : StatusOf(d, ih) = "pending" /\ PeerOf(d, ih) # NoPeer}
  <2>1. Pending(d) \subseteq d.torrents
    BY DEF Pending
  <2>2. ASSUME NEW ih \in PendingHashes(d)
        PROVE  ih \in Infohash /\ StatusOf(d, ih) = "pending" /\ PeerOf(d, ih) # NoPeer
    BY <1>2, <1>7, <2>1, <2>2 DEF PendingHashes
  <2>3. ASSUME NEW ih \in Infohash, StatusOf(d, ih) = "pending", PeerOf(d, ih) # NoPeer
        PROVE  ih \in PendingHashes(d)
    BY <1>5, <1>7, <2>3 DEF PendingHashes
  <2> QED BY <2>2, <2>3
<1>9. ASSUME NEW t \in Pending(d)
      PROVE  Max(PeersOf(d, t)) = PeerOf(d, t.infohash) /\ PeerOf(d, t.infohash) \in Address
  <2> DEFINE a == PeerOf(d, t.infohash)
  <2>1. t \in d.torrents /\ PeersOf(d, t) # {}
    BY DEF Pending
  <2>2. PeersOf(d, t) = {a} /\ a \in Address
    BY <1>3, <2>1, PeerOfLinked
  <2> HIDE DEF a
  <2>3. a >= a
    BY <2>2, StoreAssumption
  <2>4. Max({a}) = CHOOSE z \in {a} : \A y \in {a} : z >= y
    BY Zenon DEF Max
  <2>5. Max({a}) = a
    BY <2>3, <2>4, Zenon
  <2> QED BY <2>2, <2>5 DEF a
<1> QED BY <1>8, <1>9


(* The query in terms of the pending infohashes and their ranks. *)
LEMMA QueryByRank ==
  ASSUME NEW d, DbInv(d), NEW n
  PROVE  PendingInfohashes(d, n) =
           {[addr |-> PeerOf(d, ih), ih |-> ih] :
              ih \in {x \in PendingHashes(d) : Rank(PendingHashes(d), x) < n}}
<1> DEFINE Q == PendingHashes(d)
           Before(u) == {v \in Pending(d) : v.infohash < u.infohash}
<1>1. \A t \in Pending(d) : Max(PeersOf(d, t)) = PeerOf(d, t.infohash)
  BY PendingRowsView
<1>2. \A t \in Pending(d) : Cardinality(Before(t)) = Rank(Q, t.infohash)
  <2> TAKE t \in Pending(d)
  <2> DEFINE R == Before(t)
             B == Below(Q, t.infohash)
  <2>1. R \subseteq d.torrents
    BY DEF Pending
  <2>2. B = {v.infohash : v \in R}
    BY DEF PendingHashes, Below
  <2>3. IsFiniteSet(B)
    <3>1. B \in SUBSET Infohash
      BY PendingRowsView DEF Below
    <3> QED BY <3>1, FS_Subset, StoreAssumption
  <2> HIDE DEF R, B
  <2>4. Cardinality(R) = Cardinality(B)
    BY <2>1, <2>2, <2>3, CountedByInfohash
  <2> QED BY <2>4 DEF R, B, Rank
<1>3. PendingInfohashes(d, n) =
        {[addr |-> Max(PeersOf(d, t)), ih |-> t.infohash] :
           t \in {u \in Pending(d) : Cardinality(Before(u)) < n}}
  BY DEF PendingInfohashes
<1> HIDE DEF Before
<1>4. {[addr |-> Max(PeersOf(d, t)), ih |-> t.infohash] :
         t \in {u \in Pending(d) : Cardinality(Before(u)) < n}} =
        {[addr |-> PeerOf(d, ih), ih |-> ih] : ih \in {x \in Q : Rank(Q, x) < n}}
  <2>1. ASSUME NEW t \in Pending(d), Cardinality(Before(t)) < n
        PROVE  /\ t.infohash \in Q /\ Rank(Q, t.infohash) < n
               /\ [addr |-> Max(PeersOf(d, t)), ih |-> t.infohash] =
                    [addr |-> PeerOf(d, t.infohash), ih |-> t.infohash]
    BY <1>1, <1>2, <2>1 DEF PendingHashes
  <2>2. ASSUME NEW ih \in Q, Rank(Q, ih) < n
        PROVE  \E t \in Pending(d) :
                 /\ Cardinality(Before(t)) < n
                 /\ [addr |-> PeerOf(d, ih), ih |-> ih] =
                      [addr |-> Max(PeersOf(d, t)), ih |-> t.infohash]
    <3>1. PICK t \in Pending(d) : ih = t.infohash
      BY DEF PendingHashes
    <3> QED BY <1>1, <1>2, <2>2, <3>1
  <2> HIDE DEF Q
  <2> QED BY <2>1, <2>2
<1> QED BY <1>3, <1>4

(* TorrentStore counts as this module does. *)
LEMMA SameCount == \A S : Abstract!Cardinality(S) = Cardinality(S)
BY Zenon DEF Abstract!Cardinality, Abstract!IsFiniteSet, Cardinality, IsFiniteSet

(***************************************************************************)
(* PendingInfohashes' one statement, a join of three tables with group by, *)
(* max and limit, answers as TorrentStore says, for every limit: the first *)
(* n pending infohashes, each with its peer.                               *)
(***************************************************************************)
THEOREM StoreQueries == Spec => []QueryAgrees
<1>1. StoreInv => QueryAgrees
  <2> SUFFICES ASSUME StoreInv, NEW n \in 1 .. Cardinality(Infohash)
               PROVE  \E s \in Abstract!PendingInfohashes(n) :
                        PendingInfohashes(db, n) = {s[i] : i \in DOMAIN s}
    BY DEF QueryAgrees
  <2> DEFINE Q == PendingHashes(db)
             m == Cardinality(Q)
             k == IF m < n THEN m ELSE n
             At(i) == CHOOSE x \in Q : Rank(Q, x) = i - 1
             s == [i \in 1 .. k |-> [addr |-> PeerOf(db, At(i)), ih |-> At(i)]]
  <2>1. DbInv(db)
    BY DEF StoreInv
  <2>2. /\ Q = {ih \in Infohash : StatusOf(db, ih) = "pending" /\ PeerOf(db, ih) # NoPeer}
        /\ \A ih \in Q : PeerOf(db, ih) \in Address
    <3>1. \A t \in Pending(db) : PeerOf(db, t.infohash) \in Address
      BY <2>1, PendingRowsView
    <3>2. \A ih \in Q : PeerOf(db, ih) \in Address
      BY <3>1 DEF PendingHashes
    <3> QED BY <2>1, <3>2, PendingRowsView
  <2>3. IsFiniteSet(Q) /\ Q \subseteq Nat /\ Q \subseteq Infohash
    <3>1. Q \in SUBSET Infohash
      BY <2>2
    <3> HIDE DEF Q
    <3> QED BY <3>1, FS_Subset, StoreAssumption
  <2>4. Abstract!Pending = Q
    BY <2>2 DEF Abstract!Pending
  <2>5. PendingInfohashes(db, n) =
          {[addr |-> PeerOf(db, ih), ih |-> ih] : ih \in {x \in Q : Rank(Q, x) < n}}
    BY <2>1, QueryByRank
  <2> HIDE DEF Q
  <2>6. m \in Nat
    BY <2>3, FS_CardinalityType
  <2>7. /\ \A x \in Q : Rank(Q, x) \in 0 .. m - 1
        /\ \A x, y \in Q : x < y <=> Rank(Q, x) < Rank(Q, y)
        /\ \A x, y \in Q : Rank(Q, x) = Rank(Q, y) => x = y
        /\ \A i \in 0 .. m - 1 : \E x \in Q : Rank(Q, x) = i
    BY <2>3, Ranks
  <2> HIDE DEF m
  <2>8. k \in Nat /\ k <= m /\ k <= n /\ n \in Nat
    BY <2>6
  <2>9. \A i \in Nat : i < m /\ i < n => i < k
    BY <2>6
  <2> HIDE DEF k
  <2>10. \A i \in 1 .. k : At(i) \in Q /\ Rank(Q, At(i)) = i - 1
    <3> TAKE i \in 1 .. k
    <3>1. i - 1 \in 0 .. m - 1
      BY <2>6, <2>8
    <3>2. \E x \in Q : Rank(Q, x) = i - 1
      BY <2>7, <3>1
    <3> QED BY <3>2
  <2>11. \A x \in Q : Rank(Q, x) < n => Rank(Q, x) + 1 \in 1 .. k /\ At(Rank(Q, x) + 1) = x
    <3> SUFFICES ASSUME NEW x \in Q, Rank(Q, x) < n
                 PROVE  Rank(Q, x) + 1 \in 1 .. k /\ At(Rank(Q, x) + 1) = x
      OBVIOUS
    <3> HIDE DEF At
    <3>1. Rank(Q, x) \in Nat /\ Rank(Q, x) < m
      BY <2>6, <2>7
    <3>2. Rank(Q, x) + 1 \in 1 .. k
      BY <2>8, <2>9, <3>1
    <3>3. At(Rank(Q, x) + 1) \in Q /\ Rank(Q, At(Rank(Q, x) + 1)) = Rank(Q, x)
      BY <2>10, <3>1, <3>2
    <3> QED BY <2>7, <3>2, <3>3
  <2> HIDE DEF At
  <2>12. \A i \in 1 .. k : s[i].addr = PeerOf(db, At(i)) /\ s[i].ih = At(i)
    OBVIOUS
  <2>13. s \in [1 .. k -> [addr : Address, ih : Q]]
    BY <2>2, <2>10
  <2>14. DOMAIN s = 1 .. k /\ \A i \in 1 .. k : s[i] = [addr |-> PeerOf(db, At(i)), ih |-> At(i)]
    OBVIOUS
  <2> HIDE DEF s
  <2>15. \A i \in 1 .. k : \A ih \in Q : ih < s[i].ih <=> \E j \in 1 .. i - 1 : s[j].ih = ih
    <3> TAKE i \in 1 .. k
    <3> TAKE ih \in Q
    <3>0. i \in Nat /\ k \in Nat /\ i <= k /\ Rank(Q, ih) \in Nat /\ At(i) \in Q
          /\ Rank(Q, At(i)) = i - 1
      BY <2>6, <2>7, <2>8, <2>10
    <3>1. ASSUME ih < s[i].ih PROVE \E j \in 1 .. i - 1 : s[j].ih = ih
      <4>1. Rank(Q, ih) < i - 1
        BY <2>7, <2>12, <3>0, <3>1
      <4>2. Rank(Q, ih) < n /\ Rank(Q, ih) + 1 \in 1 .. i - 1
        BY <2>8, <3>0, <4>1
      <4>3. s[Rank(Q, ih) + 1].ih = ih
        BY <2>11, <2>12, <4>2
      <4> QED BY <4>2, <4>3
    <3>2. ASSUME NEW j \in 1 .. i - 1, s[j].ih = ih PROVE ih < s[i].ih
      <4>1. j \in 1 .. k /\ j - 1 < i - 1
        BY <3>0
      <4>2. Rank(Q, ih) = j - 1
        BY <2>10, <2>12, <3>2, <4>1
      <4>3. Rank(Q, ih) < Rank(Q, At(i))
        BY <3>0, <4>1, <4>2
      <4> QED BY <2>7, <2>12, <3>0, <4>3
    <3> QED BY <3>1, <3>2
  <2>16. s \in Abstract!PendingInfohashes(n)
    <3>1. Abstract!Cardinality(Q) = m
      BY SameCount DEF m
    <3>2. \A i \in 1 .. k : s[i].addr = [x \in Infohash |-> PeerOf(db, x)][s[i].ih]
      BY <2>3, <2>10, <2>12
    <3> QED BY <2>4, <2>13, <2>15, <3>1, <3>2 DEF Abstract!PendingInfohashes, k
  <2>17. PendingInfohashes(db, n) = {s[i] : i \in DOMAIN s}
    <3>1. ASSUME NEW x \in Q, Rank(Q, x) < n
          PROVE  \E i \in 1 .. k : [addr |-> PeerOf(db, x), ih |-> x] = s[i]
      BY <2>11, <2>14, <3>1
    <3>2. ASSUME NEW i \in 1 .. k
          PROVE  \E x \in Q : Rank(Q, x) < n /\ s[i] = [addr |-> PeerOf(db, x), ih |-> x]
      <4>1. i - 1 < n
        BY <2>8
      <4> QED BY <2>10, <2>14, <4>1
    <3> QED BY <2>5, <2>14, <3>1, <3>2
  <2> QED BY <2>16, <2>17
<1> QED BY <1>1, StoreInvariant, PTL
=============================================================================
