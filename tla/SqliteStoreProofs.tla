------------------------- MODULE SqliteStoreProofs -------------------------
(***************************************************************************)
(* Proofs about SqliteStore, for all infohashes, addresses, tags, tag      *)
(* lists and every bound of the ids.                                       *)
(*                                                                         *)
(* A method is a sequence of SQL statements, and the ids of the databases  *)
(* between them may exceed IdBound.  So the invariant is stated of any     *)
(* database (DbInv) and shown to survive every statement; a method's step  *)
(* is then a composition of statements.                                    *)
(***************************************************************************)
EXTENDS SqliteStore, TLAPS, WellFoundedInduction

PosInt == Nat \ {0}

-----------------------------------------------------------------------------
(***************************************************************************)
(* Natural numbers: least elements, greatest elements, rowids              *)
(***************************************************************************)

(* Every nonempty set of naturals has a least element. *)
LEMMA LeastNat ==
  ASSUME NEW T, T \subseteq Nat, T # {}
  PROVE  \E x \in T : \A y \in T : x <= y
<1>1. PICK x \in T : \A y \in T : <<y, x>> \notin OpToRel(<, Nat)
  BY NatLessThanWellFounded, WFMin, Zenon
<1>2. \A y \in T : ~(y < x)
  <2>1. ASSUME NEW y \in T, y < x PROVE FALSE
    <3>1. <<y, x>> \in Nat \X Nat /\ <<y, x>>[1] < <<y, x>>[2]
      BY <2>1
    <3>2. <<y, x>> \in OpToRel(<, Nat)
      BY <3>1 DEF OpToRel
    <3> QED BY <1>1, <2>1, <3>2
  <2> QED BY <2>1
<1>3. x \in Nat /\ \A y \in T : y \in Nat
  OBVIOUS
<1> QED BY <1>2, <1>3

(* Max of a nonempty set of naturals with an upper bound is its greatest   *)
(* member.                                                                 *)
LEMMA GreatestNat ==
  ASSUME NEW S, S \subseteq Nat, S # {}, NEW n \in Nat, \A x \in S : x <= n
  PROVE  Max(S) \in S /\ \A y \in S : y <= Max(S)
<1> DEFINE Gaps == {n - x : x \in S}
<1>1. Gaps \subseteq Nat /\ Gaps # {}
  <2>1. \A x \in S : n - x \in Nat
    OBVIOUS
  <2> QED BY <2>1, Zenon
<1> HIDE DEF Gaps
<1>2. PICK g \in Gaps : \A h \in Gaps : g <= h
  BY <1>1, LeastNat, Zenon
<1>3. PICK x \in S : g = n - x
  BY DEF Gaps
<1>4. \A y \in S : n - x <= n - y
  BY <1>2, <1>3 DEF Gaps
<1>5. \A y \in S : x >= y
  BY <1>4
<1>6. Max(S) \in S /\ \A y \in S : Max(S) >= y
  BY <1>5, Zenon DEF Max
<1> QED BY <1>6

(* The rows have positive ids and finitely many of them are in use. *)
Bounded(rows) == \E n \in Nat : \A r \in rows : r.id \in PosInt /\ r.id <= n

(* A new row's id is positive and greater than the ids of the table. *)
LEMMA FreshId ==
  ASSUME NEW rows, Bounded(rows)
  PROVE  NextId(rows) \in PosInt /\ \A r \in rows : r.id < NextId(rows)
<1>1. PICK n \in Nat : \A r \in rows : r.id \in PosInt /\ r.id <= n
  BY DEF Bounded
<1> DEFINE S == {r.id : r \in rows} \cup {0}
<1>2. S \subseteq Nat /\ S # {} /\ \A x \in S : x <= n
  BY <1>1 DEF PosInt
<1>3. \A r \in rows : r.id \in S
  OBVIOUS
<1> HIDE DEF S
<1>4. Max(S) \in S /\ \A y \in S : y <= Max(S)
  BY <1>2, GreatestNat, Zenon
<1>5. NextId(rows) = Max(S) + 1
  BY DEF NextId, S
<1>6. Max(S) \in Nat /\ \A r \in rows : r.id \in Nat /\ r.id <= Max(S)
  BY <1>2, <1>3, <1>4
<1> QED BY <1>5, <1>6 DEF PosInt

(* Removing rows and adding one keep the ids bounded. *)
LEMMA BoundedSubset ==
  ASSUME NEW rows, Bounded(rows), NEW less, less \subseteq rows
  PROVE  Bounded(less)
BY Zenon DEF Bounded

LEMMA BoundedAdd ==
  ASSUME NEW rows, Bounded(rows), NEW row, row.id \in PosInt
  PROVE  Bounded(rows \cup {row})
<1>1. PICK n \in Nat : \A r \in rows : r.id \in PosInt /\ r.id <= n
  BY DEF Bounded
<1>2. \E m \in Nat : n <= m /\ row.id <= m
  <2>1. CASE n <= row.id
    BY <2>1 DEF PosInt
  <2>2. CASE ~(n <= row.id)
    BY <2>2 DEF PosInt
  <2> QED BY <2>1, <2>2
<1>3. PICK m \in Nat : n <= m /\ row.id <= m
  BY <1>2
<1>4. \A r \in rows \cup {row} : r.id \in PosInt /\ r.id <= m
  BY <1>1, <1>3 DEF PosInt
<1> QED BY <1>4 DEF Bounded

-----------------------------------------------------------------------------
(***************************************************************************)
(* The invariant of a database between two SQL statements                  *)
(***************************************************************************)

(* The keys: no id, infohash, address or tag twice. *)
PrimaryKeys(d) == \A t \in Tables : \A r, s \in d[t] : r.id = s.id => r = s
UniqueKeys(d) ==
  /\ \A r, s \in d.torrents : r.infohash = s.infohash => r = s
  /\ \A r, s \in d.peers : r.address = s.address => r = s
  /\ \A r, s \in d.tags : r.name = s.name => r = s

(* A pending torrent has one link at most: SavePeer replaces the row and   *)
(* with it the links it had.  An indexed one has none.                     *)
OneLink(d) ==
  /\ \A r, s \in d.peers_torrents : r.torrent_id = s.torrent_id => r = s
  /\ \A r \in d.peers_torrents, t \in d.torrents : r.torrent_id = t.id => ~t.named

DbInv(d) ==
  /\ d \in DbType(PosInt)
  /\ \A t \in Tables : Bounded(d[t])
  /\ PrimaryKeys(d)
  /\ UniqueKeys(d)
  /\ ForeignKeys(d)
  /\ OneLink(d)

(* A database with fewer rows only has to be checked for its foreign keys. *)
LEMMA FewerRows ==
  ASSUME NEW d, DbInv(d), NEW e \in DbType(PosInt),
         \A t \in Tables : e[t] \subseteq d[t], ForeignKeys(e)
  PROVE  DbInv(e)
<1>1. \A t \in Tables : Bounded(e[t])
  BY BoundedSubset DEF DbInv
<1>2. PrimaryKeys(e)
  BY DEF DbInv, PrimaryKeys
<1>3. UniqueKeys(e) /\ OneLink(e)
  BY DEF DbInv, UniqueKeys, OneLink, Tables
<1> QED BY <1>1, <1>2, <1>3 DEF DbInv

(* Deleting torrents, with the cascade. *)
LEMMA DeleteTorrentsInv ==
  ASSUME NEW d, DbInv(d), NEW gone \in SUBSET d.torrents
  PROVE  DbInv(DeleteTorrents(d, gone))
<1> DEFINE e == DeleteTorrents(d, gone)
           ids == {t.id : t \in gone}
<1>0. d \in DbType(PosInt)
  BY DEF DbInv
<1>1. /\ e \in DbType(PosInt)
      /\ e.torrents = d.torrents \ gone
      /\ e.peers = d.peers
      /\ e.peers_torrents = {r \in d.peers_torrents : r.torrent_id \notin ids}
      /\ e.tags = d.tags
      /\ e.tags_torrents = {r \in d.tags_torrents : r.torrent_id \notin ids}
      /\ e.files = {r \in d.files : r.torrent_id \notin ids}
      /\ e.last = d.last
  BY <1>0 DEF DeleteTorrents, DbType
<1> HIDE DEF e
<1>2. \A t \in Tables : e[t] \subseteq d[t]
  BY <1>1 DEF Tables
<1>3. ForeignKeys(e)
  BY <1>1 DEF DbInv, ForeignKeys, Ids
<1> QED BY <1>1, <1>2, <1>3, FewerRows DEF e

(* Deleting peers, with the cascade. *)
LEMMA DeletePeersInv ==
  ASSUME NEW d, DbInv(d), NEW gone \in SUBSET d.peers
  PROVE  DbInv(DeletePeers(d, gone))
<1> DEFINE e == DeletePeers(d, gone)
           ids == {p.id : p \in gone}
<1>0. d \in DbType(PosInt)
  BY DEF DbInv
<1>1. /\ e \in DbType(PosInt)
      /\ e.torrents = d.torrents
      /\ e.peers = d.peers \ gone
      /\ e.peers_torrents = {r \in d.peers_torrents : r.peer_id \notin ids}
      /\ e.tags = d.tags
      /\ e.tags_torrents = d.tags_torrents
      /\ e.files = d.files
      /\ e.last = d.last
  BY <1>0 DEF DeletePeers, DbType
<1> HIDE DEF e
<1>2. \A t \in Tables : e[t] \subseteq d[t]
  BY <1>1 DEF Tables
<1>3. ForeignKeys(e)
  BY <1>1 DEF DbInv, ForeignKeys, Ids
<1> QED BY <1>1, <1>2, <1>3, FewerRows DEF e

(* Deleting tags, with the cascade. *)
LEMMA DeleteTagsInv ==
  ASSUME NEW d, DbInv(d), NEW gone \in SUBSET d.tags
  PROVE  DbInv(DeleteTags(d, gone))
<1> DEFINE e == DeleteTags(d, gone)
           ids == {t.id : t \in gone}
<1>0. d \in DbType(PosInt)
  BY DEF DbInv
<1>1. /\ e \in DbType(PosInt)
      /\ e.torrents = d.torrents
      /\ e.peers = d.peers
      /\ e.peers_torrents = d.peers_torrents
      /\ e.tags = d.tags \ gone
      /\ e.tags_torrents = {r \in d.tags_torrents : r.tag_id \notin ids}
      /\ e.files = d.files
      /\ e.last = d.last
  BY <1>0 DEF DeleteTags, DbType
<1> HIDE DEF e
<1>2. \A t \in Tables : e[t] \subseteq d[t]
  BY <1>1 DEF Tables
<1>3. ForeignKeys(e)
  BY <1>1 DEF DbInv, ForeignKeys, Ids
<1> QED BY <1>1, <1>2, <1>3, FewerRows DEF e

(* "insert or replace into torrents": the new row has a fresh id and no    *)
(* link yet, and what else goes is the replaced row and what refers to it. *)
LEMMA InsertTorrentInv ==
  ASSUME NEW d, DbInv(d), NEW ih \in Infohash, NEW named \in BOOLEAN
  PROVE  LET e   == InsertTorrent(d, ih, named)
             old == {t \in d.torrents : t.infohash = ih}
             ids == {t.id : t \in old}
         IN  /\ DbInv(e)
             /\ e.last \in PosInt
             /\ e.torrents = (d.torrents \ old)
                               \cup {[id |-> e.last, infohash |-> ih, named |-> named]}
             /\ e.peers = d.peers
             /\ e.peers_torrents = {r \in d.peers_torrents : r.torrent_id \notin ids}
             /\ \A r \in e.peers_torrents : r.torrent_id # e.last
             /\ \A t \in d.torrents : t.id < e.last
<1> DEFINE e == InsertTorrent(d, ih, named)
           old == {t \in d.torrents : t.infohash = ih}
           ids == {t.id : t \in old}
           f == DeleteTorrents(d, old)
           id == NextId(d.torrents)
           row == [id |-> id, infohash |-> ih, named |-> named]
<1>0. d \in DbType(PosInt) /\ DbInv(f)
  BY DeleteTorrentsInv DEF DbInv
<1>1. /\ f \in DbType(PosInt)
      /\ f.torrents = d.torrents \ old
      /\ f.peers = d.peers
      /\ f.peers_torrents = {r \in d.peers_torrents : r.torrent_id \notin ids}
  BY <1>0 DEF DeleteTorrents, DbType
<1>2. id \in PosInt /\ \A t \in d.torrents : t.id < id
  BY FreshId DEF DbInv, Tables
<1>3. e = [f EXCEPT !.torrents = @ \cup {row}, !.last = id]
  BY DEF InsertTorrent
<1>4. row.id = id /\ row.infohash = ih /\ row.named = named
      /\ row \in [id : PosInt, infohash : Infohash, named : BOOLEAN]
  BY <1>2
<1> HIDE DEF e, f, id, row, old
<1>5. /\ e \in DbType(PosInt)
      /\ e.torrents = f.torrents \cup {row}
      /\ e.peers = f.peers
      /\ e.peers_torrents = f.peers_torrents
      /\ e.tags = f.tags
      /\ e.tags_torrents = f.tags_torrents
      /\ e.files = f.files
      /\ e.last = id
  BY <1>1, <1>2, <1>3, <1>4 DEF DbType, PosInt
<1>6. \A t \in f.torrents : t.id < id /\ t.id \in PosInt
  BY <1>0, <1>1, <1>2 DEF DbType
<1>7. \A t \in f.torrents : t.infohash # ih
  BY <1>1 DEF old
<1>8. DbInv(e)
  <2>1. \A t \in Tables : Bounded(e[t])
    <3>1. Bounded(e.torrents)
      BY <1>0, <1>2, <1>4, <1>5, BoundedAdd DEF DbInv, Tables
    <3> QED BY <1>0, <1>5, <3>1 DEF DbInv, Tables
  <2>2. PrimaryKeys(e)
    <3>1. \A r, s \in e.torrents : r.id = s.id => r = s
      BY <1>0, <1>2, <1>4, <1>5, <1>6 DEF DbInv, PrimaryKeys, Tables, PosInt
    <3> QED BY <1>0, <1>5, <3>1 DEF DbInv, PrimaryKeys, Tables
  <2>3. UniqueKeys(e)
    BY <1>0, <1>4, <1>5, <1>7 DEF DbInv, UniqueKeys
  <2>4. ForeignKeys(e)
    BY <1>0, <1>5 DEF DbInv, ForeignKeys, Ids
  <2>5. \A r \in e.peers_torrents : r.torrent_id # id
    BY <1>0, <1>2, <1>5, <1>6 DEF DbInv, ForeignKeys, Ids, PosInt
  <2>6. OneLink(e)
    BY <1>0, <1>4, <1>5, <2>5 DEF DbInv, OneLink
  <2> QED BY <1>5, <2>1, <2>2, <2>3, <2>4, <2>6 DEF DbInv
<1>9. \A r \in e.peers_torrents : r.torrent_id # id
  BY <1>0, <1>2, <1>5, <1>6 DEF DbInv, ForeignKeys, Ids, PosInt
<1> QED BY <1>1, <1>2, <1>5, <1>8, <1>9 DEF e, old, row

(* "insert or ignore into peers" *)
LEMMA InsertPeerInv ==
  ASSUME NEW d, DbInv(d), NEW a \in Address
  PROVE  LET e == InsertPeer(d, a)
         IN  /\ DbInv(e)
             /\ e.torrents = d.torrents /\ e.peers_torrents = d.peers_torrents
             /\ (\E p \in d.peers : p.address = a) => e = d
             /\ ~(\E p \in d.peers : p.address = a) =>
                  /\ e.peers = d.peers \cup {[id |-> e.last, address |-> a]}
                  /\ e.last \in PosInt
                  /\ \A p \in d.peers : p.id < e.last
<1> DEFINE e == InsertPeer(d, a)
           id == NextId(d.peers)
           row == [id |-> id, address |-> a]
<1>0. d \in DbType(PosInt)
  BY DEF DbInv
<1>1. CASE \E p \in d.peers : p.address = a
  <2>1. e = d
    BY <1>1 DEF InsertPeer
  <2> QED BY <1>1, <2>1
<1>2. CASE ~(\E p \in d.peers : p.address = a)
  <2>1. e = [d EXCEPT !.peers = @ \cup {row}, !.last = id]
    BY <1>2 DEF InsertPeer
  <2>2. id \in PosInt /\ \A p \in d.peers : p.id < id
    BY FreshId DEF DbInv, Tables
  <2>3. row.id = id /\ row.address = a /\ row \in [id : PosInt, address : Address]
    BY <2>2
  <2> HIDE DEF e, id, row
  <2>4. /\ e \in DbType(PosInt)
        /\ e.torrents = d.torrents
        /\ e.peers = d.peers \cup {row}
        /\ e.peers_torrents = d.peers_torrents
        /\ e.tags = d.tags
        /\ e.tags_torrents = d.tags_torrents
        /\ e.files = d.files
        /\ e.last = id
    BY <1>0, <2>1, <2>2, <2>3 DEF DbType, PosInt
  <2>5. \A p \in d.peers : p.id < id /\ p.id \in PosInt
    BY <1>0, <2>2 DEF DbType
  <2>6. \A t \in Tables : Bounded(e[t])
    <3>1. Bounded(e.peers)
      BY <2>2, <2>3, <2>4, BoundedAdd DEF DbInv, Tables
    <3> QED BY <2>4, <3>1 DEF DbInv, Tables
  <2>7. PrimaryKeys(e)
    <3>1. \A r, s \in e.peers : r.id = s.id => r = s
      BY <2>2, <2>3, <2>4, <2>5 DEF DbInv, PrimaryKeys, Tables, PosInt
    <3> QED BY <2>4, <3>1 DEF DbInv, PrimaryKeys, Tables
  <2>8. UniqueKeys(e)
    BY <1>2, <2>3, <2>4 DEF DbInv, UniqueKeys
  <2>9. ForeignKeys(e) /\ OneLink(e)
    BY <2>4 DEF DbInv, ForeignKeys, Ids, OneLink
  <2>10. DbInv(e)
    BY <2>4, <2>6, <2>7, <2>8, <2>9 DEF DbInv
  <2> QED BY <1>2, <2>2, <2>4, <2>10 DEF e, row
<1> QED BY <1>1, <1>2

(* "insert or replace into tags": the links to the replaced row go. *)
LEMMA InsertTagInv ==
  ASSUME NEW d, DbInv(d), NEW tag \in Tag
  PROVE  LET e == InsertTag(d, tag)
         IN  /\ DbInv(e)
             /\ e.last \in Ids(e.tags)
             /\ e.torrents = d.torrents
             /\ e.peers = d.peers
             /\ e.peers_torrents = d.peers_torrents
<1> DEFINE e == InsertTag(d, tag)
           old == {t \in d.tags : t.name = tag}
           f == DeleteTags(d, old)
           id == NextId(d.tags)
           row == [id |-> id, name |-> tag]
<1>0. d \in DbType(PosInt) /\ DbInv(f)
  BY DeleteTagsInv DEF DbInv
<1>1. /\ f \in DbType(PosInt)
      /\ f.torrents = d.torrents
      /\ f.peers = d.peers
      /\ f.peers_torrents = d.peers_torrents
      /\ f.tags = d.tags \ old
  BY <1>0 DEF DeleteTags, DbType
<1>2. id \in PosInt /\ \A t \in d.tags : t.id < id
  BY FreshId DEF DbInv, Tables
<1>3. e = [f EXCEPT !.tags = @ \cup {row}, !.last = id]
  BY DEF InsertTag
<1>4. row.id = id /\ row.name = tag /\ row \in [id : PosInt, name : Tag]
  BY <1>2
<1> HIDE DEF e, f, id, row, old
<1>5. /\ e \in DbType(PosInt)
      /\ e.torrents = f.torrents
      /\ e.peers = f.peers
      /\ e.peers_torrents = f.peers_torrents
      /\ e.tags = f.tags \cup {row}
      /\ e.tags_torrents = f.tags_torrents
      /\ e.files = f.files
      /\ e.last = id
  BY <1>1, <1>2, <1>3, <1>4 DEF DbType, PosInt
<1>6. \A t \in f.tags : t.id < id /\ t.id \in PosInt
  BY <1>0, <1>1, <1>2 DEF DbType
<1>7. \A t \in f.tags : t.name # tag
  BY <1>1 DEF old
<1>8. DbInv(e)
  <2>1. \A t \in Tables : Bounded(e[t])
    <3>1. Bounded(e.tags)
      BY <1>0, <1>2, <1>4, <1>5, BoundedAdd DEF DbInv, Tables
    <3> QED BY <1>0, <1>5, <3>1 DEF DbInv, Tables
  <2>2. PrimaryKeys(e)
    <3>1. \A r, s \in e.tags : r.id = s.id => r = s
      BY <1>0, <1>2, <1>4, <1>5, <1>6 DEF DbInv, PrimaryKeys, Tables, PosInt
    <3> QED BY <1>0, <1>5, <3>1 DEF DbInv, PrimaryKeys, Tables
  <2>3. UniqueKeys(e)
    BY <1>0, <1>4, <1>5, <1>7 DEF DbInv, UniqueKeys
  <2>4. ForeignKeys(e) /\ OneLink(e)
    BY <1>0, <1>5 DEF DbInv, ForeignKeys, Ids, OneLink
  <2> QED BY <1>5, <2>1, <2>2, <2>3, <2>4 DEF DbInv
<1> QED BY <1>1, <1>4, <1>5, <1>8 DEF e, Ids

(* Linking a tag and a torrent that exist. *)
LEMMA InsertTagTorrentInv ==
  ASSUME NEW d, DbInv(d), NEW tag \in Ids(d.tags), NEW torrent \in Ids(d.torrents)
  PROVE  LET e == InsertTagTorrent(d, tag, torrent)
         IN  /\ DbInv(e)
             /\ e.torrents = d.torrents
             /\ e.peers = d.peers
             /\ e.peers_torrents = d.peers_torrents
<1> DEFINE e == InsertTagTorrent(d, tag, torrent)
           id == NextId(d.tags_torrents)
           row == [id |-> id, tag_id |-> tag, torrent_id |-> torrent]
<1>1. d \in DbType(PosInt)
  BY DEF DbInv
<1>2. id \in PosInt /\ \A r \in d.tags_torrents : r.id < id
  BY FreshId DEF DbInv, Tables
<1>3. e = [d EXCEPT !.tags_torrents = @ \cup {row}, !.last = id]
  BY DEF InsertTagTorrent
<1>4. /\ row.id = id /\ row.tag_id = tag /\ row.torrent_id = torrent
      /\ row \in [id : PosInt, tag_id : PosInt, torrent_id : PosInt]
  BY <1>1, <1>2 DEF Ids, DbType
<1> HIDE DEF e, id, row
<1>5. /\ e \in DbType(PosInt)
      /\ e.torrents = d.torrents
      /\ e.peers = d.peers
      /\ e.peers_torrents = d.peers_torrents
      /\ e.tags = d.tags
      /\ e.tags_torrents = d.tags_torrents \cup {row}
      /\ e.files = d.files
  BY <1>1, <1>2, <1>3, <1>4 DEF DbType, PosInt
<1>6. \A r \in d.tags_torrents : r.id < id /\ r.id \in PosInt
  BY <1>1, <1>2 DEF DbType
<1>7. \A t \in Tables : Bounded(e[t])
  <2>1. Bounded(e.tags_torrents)
    BY <1>2, <1>4, <1>5, BoundedAdd DEF DbInv, Tables
  <2> QED BY <1>5, <2>1 DEF DbInv, Tables
<1>8. PrimaryKeys(e)
  <2>1. \A r, s \in e.tags_torrents : r.id = s.id => r = s
    BY <1>2, <1>4, <1>5, <1>6 DEF DbInv, PrimaryKeys, Tables, PosInt
  <2> QED BY <1>5, <2>1 DEF DbInv, PrimaryKeys, Tables
<1>9. UniqueKeys(e) /\ OneLink(e)
  BY <1>5 DEF DbInv, UniqueKeys, OneLink
<1>10. ForeignKeys(e)
  BY <1>4, <1>5 DEF DbInv, ForeignKeys
<1> QED BY <1>5, <1>7, <1>8, <1>9, <1>10 DEF DbInv, e

(* Linking a peer that exists and a pending torrent that has no link: the  *)
(* rows that SavePeer has just looked up and made.                         *)
LEMMA InsertPeerTorrentInv ==
  ASSUME NEW d, DbInv(d), NEW peer \in Ids(d.peers), NEW torrent \in Ids(d.torrents),
         \A t \in d.torrents : t.id = torrent => ~t.named,
         \A r \in d.peers_torrents : r.torrent_id # torrent
  PROVE  LET e == InsertPeerTorrent(d, peer, torrent)
         IN  /\ DbInv(e)
             /\ e.torrents = d.torrents
             /\ e.peers = d.peers
             /\ e.peers_torrents = d.peers_torrents
                  \cup {[id |-> e.last, peer_id |-> peer, torrent_id |-> torrent]}
<1> DEFINE e == InsertPeerTorrent(d, peer, torrent)
           id == NextId(d.peers_torrents)
           row == [id |-> id, peer_id |-> peer, torrent_id |-> torrent]
<1>1. d \in DbType(PosInt)
  BY DEF DbInv
<1>2. id \in PosInt /\ \A r \in d.peers_torrents : r.id < id
  BY FreshId DEF DbInv, Tables
<1>3. e = [d EXCEPT !.peers_torrents = @ \cup {row}, !.last = id]
  BY DEF InsertPeerTorrent
<1>4. /\ row.id = id /\ row.peer_id = peer /\ row.torrent_id = torrent
      /\ row \in [id : PosInt, peer_id : PosInt, torrent_id : PosInt]
  BY <1>1, <1>2 DEF Ids, DbType
<1> HIDE DEF e, id, row
<1>5. /\ e \in DbType(PosInt)
      /\ e.torrents = d.torrents
      /\ e.peers = d.peers
      /\ e.peers_torrents = d.peers_torrents \cup {row}
      /\ e.tags = d.tags
      /\ e.tags_torrents = d.tags_torrents
      /\ e.files = d.files
      /\ e.last = id
  BY <1>1, <1>2, <1>3, <1>4 DEF DbType, PosInt
<1>6. \A r \in d.peers_torrents : r.id < id /\ r.id \in PosInt
  BY <1>1, <1>2 DEF DbType
<1>7. \A t \in Tables : Bounded(e[t])
  <2>1. Bounded(e.peers_torrents)
    BY <1>2, <1>4, <1>5, BoundedAdd DEF DbInv, Tables
  <2> QED BY <1>5, <2>1 DEF DbInv, Tables
<1>8. PrimaryKeys(e)
  <2>1. \A r, s \in e.peers_torrents : r.id = s.id => r = s
    BY <1>2, <1>4, <1>5, <1>6 DEF DbInv, PrimaryKeys, Tables, PosInt
  <2> QED BY <1>5, <2>1 DEF DbInv, PrimaryKeys, Tables
<1>9. UniqueKeys(e)
  BY <1>5 DEF DbInv, UniqueKeys
<1>10. ForeignKeys(e)
  BY <1>4, <1>5 DEF DbInv, ForeignKeys
<1>11. OneLink(e)
  BY <1>4, <1>5 DEF DbInv, OneLink
<1> QED BY <1>5, <1>7, <1>8, <1>9, <1>10, <1>11 DEF DbInv, e, row

(* A file of a torrent that exists. *)
LEMMA InsertFileInv ==
  ASSUME NEW d, DbInv(d), NEW torrent \in Ids(d.torrents)
  PROVE  LET e == InsertFile(d, torrent)
         IN  /\ DbInv(e)
             /\ e.torrents = d.torrents
             /\ e.peers = d.peers
             /\ e.peers_torrents = d.peers_torrents
<1> DEFINE e == InsertFile(d, torrent)
           id == NextId(d.files)
           row == [id |-> id, torrent_id |-> torrent]
<1>1. d \in DbType(PosInt)
  BY DEF DbInv
<1>2. id \in PosInt /\ \A r \in d.files : r.id < id
  BY FreshId DEF DbInv, Tables
<1>3. e = [d EXCEPT !.files = @ \cup {row}, !.last = id]
  BY DEF InsertFile
<1>4. /\ row.id = id /\ row.torrent_id = torrent
      /\ row \in [id : PosInt, torrent_id : PosInt]
  BY <1>1, <1>2 DEF Ids, DbType
<1> HIDE DEF e, id, row
<1>5. /\ e \in DbType(PosInt)
      /\ e.torrents = d.torrents
      /\ e.peers = d.peers
      /\ e.peers_torrents = d.peers_torrents
      /\ e.tags = d.tags
      /\ e.tags_torrents = d.tags_torrents
      /\ e.files = d.files \cup {row}
  BY <1>1, <1>2, <1>3, <1>4 DEF DbType, PosInt
<1>6. \A r \in d.files : r.id < id /\ r.id \in PosInt
  BY <1>1, <1>2 DEF DbType
<1>7. \A t \in Tables : Bounded(e[t])
  <2>1. Bounded(e.files)
    BY <1>2, <1>4, <1>5, BoundedAdd DEF DbInv, Tables
  <2> QED BY <1>5, <2>1 DEF DbInv, Tables
<1>8. PrimaryKeys(e)
  <2>1. \A r, s \in e.files : r.id = s.id => r = s
    BY <1>2, <1>4, <1>5, <1>6 DEF DbInv, PrimaryKeys, Tables, PosInt
  <2> QED BY <1>5, <2>1 DEF DbInv, PrimaryKeys, Tables
<1>9. UniqueKeys(e) /\ OneLink(e)
  BY <1>5 DEF DbInv, UniqueKeys, OneLink
<1>10. ForeignKeys(e)
  BY <1>4, <1>5 DEF DbInv, ForeignKeys
<1> QED BY <1>5, <1>7, <1>8, <1>9, <1>10 DEF DbInv, e

(* Only last_insert_rowid changes: after a rollback, or in a new process. *)
LEMMA NewLastInv ==
  ASSUME NEW d, DbInv(d), NEW n \in Nat
  PROVE  LET e == [d EXCEPT !.last = n]
         IN  DbInv(e) /\ \A t \in Tables : e[t] = d[t]
<1> DEFINE e == [d EXCEPT !.last = n]
<1>1. d \in DbType(PosInt)
  BY DEF DbInv
<1>2. e \in DbType(PosInt) /\ \A t \in Tables : e[t] = d[t]
  BY <1>1 DEF DbType, Tables
<1> HIDE DEF e
<1>3. ForeignKeys(e)
  BY <1>2 DEF DbInv, ForeignKeys, Ids, Tables
<1>4. DbInv(e)
  BY <1>2, <1>3, FewerRows
<1> QED BY <1>2, <1>4 DEF e

-----------------------------------------------------------------------------
(***************************************************************************)
(* The loop over the tags                                                  *)
(***************************************************************************)

(* A tag and its link to a torrent that exists. *)
LEMMA AddTagInv ==
  ASSUME NEW d, DbInv(d), NEW tag \in Tag, NEW torrent \in Ids(d.torrents)
  PROVE  LET e == AddTag(d, tag, torrent)
         IN  /\ DbInv(e)
             /\ e.torrents = d.torrents
             /\ e.peers = d.peers
             /\ e.peers_torrents = d.peers_torrents
<1> DEFINE e == InsertTag(d, tag)
<1>1. /\ DbInv(e) /\ e.last \in Ids(e.tags)
      /\ e.torrents = d.torrents /\ e.peers = d.peers
      /\ e.peers_torrents = d.peers_torrents
  BY InsertTagInv
<1>2. AddTag(d, tag, torrent) = InsertTagTorrent(e, e.last, torrent)
  BY DEF AddTag
<1> HIDE DEF e
<1> QED BY <1>1, <1>2, InsertTagTorrentInv

(* The databases after every tag: the function that AddTags chooses. *)
After(d, tags, torrent) ==
  CHOOSE g : g = [i \in 0 .. Len(tags) |->
                    IF i = 0 THEN d ELSE AddTag(g[i - 1], tags[i], torrent)]

(* The recursion has a solution; by induction on the number of tags, as a  *)
(* least counterexample.                                                   *)
LEMMA AfterDef ==
  ASSUME NEW d, NEW tags \in Seq(Tag), NEW torrent
  PROVE  LET g == After(d, tags, torrent)
         IN  /\ AddTags(d, tags, torrent) = g[Len(tags)]
             /\ g[0] = d
             /\ \A i \in 1 .. Len(tags) : g[i] = AddTag(g[i - 1], tags[i], torrent)
<1> DEFINE Sol(g, n) == g = [i \in 0 .. n |->
                              IF i = 0 THEN d ELSE AddTag(g[i - 1], tags[i], torrent)]
           Bad == {n \in Nat : ~(\E g : Sol(g, n))}
<1>1. Bad = {}
  <2>1. SUFFICES ASSUME Bad # {} PROVE FALSE
    OBVIOUS
  <2>2. PICK n \in Bad : \A m \in Bad : n <= m
    <3>1. Bad \subseteq Nat
      OBVIOUS
    <3> HIDE DEF Bad
    <3> QED BY <2>1, <3>1, LeastNat, Zenon
  <2>3. n # 0
    <3> DEFINE h == [i \in 0 .. 0 |-> d]
    <3>1. h = [i \in 0 .. 0 |-> IF i = 0 THEN d ELSE AddTag(h[i - 1], tags[i], torrent)]
      OBVIOUS
    <3>2. Sol(h, 0)
      BY <3>1
    <3> QED BY <3>2
  <2>4. n - 1 \in Nat /\ n - 1 \notin Bad /\ n \in Nat
    BY <2>2, <2>3
  <2>5. PICK g : Sol(g, n - 1)
    BY <2>4
  <2> DEFINE h == [i \in 0 .. n |-> IF i = n THEN AddTag(g[n - 1], tags[n], torrent) ELSE g[i]]
  <2>6. \A i \in 0 .. n - 1 : h[i] = g[i]
    BY <2>4
  <2>7. \A i \in 0 .. n : h[i] = IF i = 0 THEN d ELSE AddTag(h[i - 1], tags[i], torrent)
    <3>1. TAKE i \in 0 .. n
    <3>2. CASE i = n
      <4>1. h[i] = AddTag(g[n - 1], tags[n], torrent)
        BY <3>2
      <4>2. g[n - 1] = h[n - 1]
        BY <2>4, <2>6
      <4> QED BY <3>2, <4>1, <4>2, <2>3
    <3>3. CASE i # n
      <4>1. i \in 0 .. n - 1 /\ h[i] = g[i]
        BY <2>4, <2>6, <3>3
      <4>2. g[i] = IF i = 0 THEN d ELSE AddTag(g[i - 1], tags[i], torrent)
        BY <2>5, <4>1
      <4>3. i # 0 => g[i - 1] = h[i - 1]
        BY <2>4, <2>6, <4>1
      <4> QED BY <4>1, <4>2, <4>3, Zenon
    <3> QED BY <3>2, <3>3
  <2>8. Sol(h, n)
    <3>1. h = [i \in 0 .. n |-> h[i]]
      OBVIOUS
    <3> HIDE DEF h
    <3> QED BY <2>7, <3>1
  <2> QED BY <2>8
<1>2. \E g : Sol(g, Len(tags))
  BY <1>1
<1>3. Sol(After(d, tags, torrent), Len(tags))
  BY <1>2 DEF After
<1>4. AddTags(d, tags, torrent) = After(d, tags, torrent)[Len(tags)]
  BY DEF AddTags, After
<1> HIDE DEF Bad
<1>5. Len(tags) \in Nat
  OBVIOUS
<1>6. After(d, tags, torrent)[0] = d
  BY <1>3, <1>5
<1>7. ASSUME NEW i \in 1 .. Len(tags)
      PROVE  After(d, tags, torrent)[i] = AddTag(After(d, tags, torrent)[i - 1], tags[i], torrent)
  <2>1. i \in 0 .. Len(tags) /\ i # 0
    BY <1>5
  <2> QED BY <1>3, <2>1
<1> QED BY <1>4, <1>6, <1>7

(* All the tags of a torrent that exists. *)
LEMMA AddTagsInv ==
  ASSUME NEW d, DbInv(d), NEW tags \in Seq(Tag), NEW torrent \in Ids(d.torrents)
  PROVE  LET e == AddTags(d, tags, torrent)
         IN  /\ DbInv(e)
             /\ e.torrents = d.torrents
             /\ e.peers = d.peers
             /\ e.peers_torrents = d.peers_torrents
<1> DEFINE g == After(d, tags, torrent)
           Ok(e) == /\ DbInv(e)
                    /\ e.torrents = d.torrents
                    /\ e.peers = d.peers
                    /\ e.peers_torrents = d.peers_torrents
           Bad == {n \in 0 .. Len(tags) : ~Ok(g[n])}
<1>1. /\ AddTags(d, tags, torrent) = g[Len(tags)]
      /\ g[0] = d
      /\ \A i \in 1 .. Len(tags) : g[i] = AddTag(g[i - 1], tags[i], torrent)
  BY AfterDef
<1> HIDE DEF g
<1>2. Len(tags) \in Nat /\ \A i \in 1 .. Len(tags) : tags[i] \in Tag
  OBVIOUS
<1>3. Bad = {}
  <2>1. SUFFICES ASSUME Bad # {} PROVE FALSE
    OBVIOUS
  <2>2. PICK n \in Bad : \A m \in Bad : n <= m
    <3>1. Bad \subseteq Nat
      BY <1>2
    <3> HIDE DEF Bad
    <3> QED BY <2>1, <3>1, LeastNat, Zenon
  <2>3. n # 0
    BY <1>1
  <2>4. n \in 1 .. Len(tags) /\ n - 1 \in 0 .. Len(tags) /\ n - 1 \notin Bad
    BY <1>2, <2>2, <2>3
  <2>5. Ok(g[n - 1]) /\ g[n] = AddTag(g[n - 1], tags[n], torrent) /\ tags[n] \in Tag
    BY <1>1, <1>2, <2>4
  <2>6. Ok(g[n])
    BY <2>5, AddTagInv
  <2> QED BY <2>2, <2>6
<1>4. Ok(g[Len(tags)])
  BY <1>2, <1>3
<1> QED BY <1>1, <1>4

-----------------------------------------------------------------------------
(***************************************************************************)
(* The methods                                                             *)
(***************************************************************************)

(* SavePeer up to its foreign key check. *)
LEMMA PendingRowInv ==
  ASSUME NEW d, DbInv(d), NEW a \in Address, NEW ih \in Infohash
  PROVE  LET e   == PendingRow(d, a, ih)
             old == {t \in d.torrents : t.infohash = ih}
             ids == {t.id : t \in old}
         IN  /\ DbInv(PeerRow(d, a)) /\ DbInv(e)
             /\ e.torrents = (d.torrents \ old)
                               \cup {[id |-> e.last, infohash |-> ih, named |-> FALSE]}
             /\ e.peers = PeerRow(d, a).peers
             /\ e.peers_torrents = {r \in d.peers_torrents : r.torrent_id \notin ids}
             /\ \A r \in e.peers_torrents : r.torrent_id # e.last
             /\ \A t \in d.torrents : t.id < e.last
<1> DEFINE f == PeerRow(d, a)
<1>1. DbInv(f) /\ f.torrents = d.torrents /\ f.peers_torrents = d.peers_torrents
  BY InsertPeerInv DEF PeerRow
<1>2. PendingRow(d, a, ih) = InsertTorrent(f, ih, FALSE)
  BY DEF PendingRow
<1> HIDE DEF f
<1>3. LET e   == InsertTorrent(f, ih, FALSE)
          old == {t \in f.torrents : t.infohash = ih}
          ids == {t.id : t \in old}
      IN  /\ DbInv(e)
          /\ e.torrents = (f.torrents \ old)
                            \cup {[id |-> e.last, infohash |-> ih, named |-> FALSE]}
          /\ e.peers = f.peers
          /\ e.peers_torrents = {r \in f.peers_torrents : r.torrent_id \notin ids}
          /\ \A r \in e.peers_torrents : r.torrent_id # e.last
          /\ \A t \in f.torrents : t.id < e.last
  BY <1>1, InsertTorrentInv
<1> QED BY <1>1, <1>2, <1>3, Zenon DEF f

(* SavePeer, committed: the torrent is new and has the link to the peer    *)
(* with the reported id as its only one.                                   *)
LEMMA SavedPeerInv ==
  ASSUME NEW d, DbInv(d), NEW a \in Address, NEW ih \in Infohash, PeerIdValid(d, a)
  PROVE  LET e   == SavedPeer(d, a, ih)
             old == {t \in d.torrents : t.infohash = ih}
             ids == {t.id : t \in old}
             new == PendingRow(d, a, ih).last
         IN  /\ DbInv(e)
             /\ e.torrents = (d.torrents \ old)
                               \cup {[id |-> new, infohash |-> ih, named |-> FALSE]}
             /\ e.peers = PeerRow(d, a).peers
             /\ e.peers_torrents =
                  {r \in d.peers_torrents : r.torrent_id \notin ids}
                    \cup {[id |-> e.last, peer_id |-> PeerRow(d, a).last, torrent_id |-> new]}
             /\ \A t \in d.torrents : t.id < new
<1> DEFINE f == PeerRow(d, a)
           g == PendingRow(d, a, ih)
           old == {t \in d.torrents : t.infohash = ih}
           ids == {t.id : t \in old}
           row == [id |-> g.last, infohash |-> ih, named |-> FALSE]
<1>1. /\ DbInv(f) /\ DbInv(g)
      /\ g.torrents = (d.torrents \ old) \cup {row}
      /\ g.peers = f.peers
      /\ g.peers_torrents = {r \in d.peers_torrents : r.torrent_id \notin ids}
      /\ \A r \in g.peers_torrents : r.torrent_id # g.last
      /\ \A t \in d.torrents : t.id < g.last
  BY PendingRowInv
<1>2. SavedPeer(d, a, ih) = InsertPeerTorrent(g, f.last, g.last)
  BY DEF SavedPeer
<1>3. f.last \in Ids(g.peers)
  BY <1>1 DEF PeerIdValid, Ids
<1>4. row.id = g.last /\ row.named = FALSE /\ row \in g.torrents
  BY <1>1
<1> HIDE DEF f, g, row, old
<1>5. g.last \in Ids(g.torrents)
  BY <1>4 DEF Ids
<1>6. \A t \in g.torrents : t.id = g.last => ~t.named
  BY <1>1, <1>4 DEF DbInv, PrimaryKeys, Tables
<1> DEFINE e == InsertPeerTorrent(g, f.last, g.last)
<1>7. /\ DbInv(e) /\ e.torrents = g.torrents /\ e.peers = g.peers
      /\ e.peers_torrents = g.peers_torrents
           \cup {[id |-> e.last, peer_id |-> f.last, torrent_id |-> g.last]}
  <2>1. DbInv(g) /\ \A r \in g.peers_torrents : r.torrent_id # g.last
    BY <1>1
  <2> QED BY <1>3, <1>5, <1>6, <2>1, InsertPeerTorrentInv
<1> HIDE DEF e
<1> QED BY <1>1, <1>2, <1>7 DEF e, f, g, row, old

(* SaveTorrent: what it does to the torrents, the peers and their links. *)
LEMMA SavedTorrentInv ==
  ASSUME NEW d, DbInv(d), NEW ih \in Infohash, NEW tags \in Seq(Tag), NEW withFiles
  PROVE  LET e   == SavedTorrent(d, ih, tags, withFiles)
             old == {t \in d.torrents : t.infohash = ih}
             ids == {t.id : t \in old}
             new == InsertTorrent(d, ih, TRUE).last
         IN  /\ DbInv(e)
             /\ e.torrents = (d.torrents \ old)
                               \cup {[id |-> new, infohash |-> ih, named |-> TRUE]}
             /\ e.peers = d.peers
             /\ e.peers_torrents = {r \in d.peers_torrents : r.torrent_id \notin ids}
             /\ \A t \in d.torrents : t.id < new
<1> DEFINE f == InsertTorrent(d, ih, TRUE)
           g == AddTags(f, tags, f.last)
           old == {t \in d.torrents : t.infohash = ih}
           ids == {t.id : t \in old}
           row == [id |-> f.last, infohash |-> ih, named |-> TRUE]
<1>1. /\ DbInv(f)
      /\ f.torrents = (d.torrents \ old) \cup {row}
      /\ f.peers = d.peers
      /\ f.peers_torrents = {r \in d.peers_torrents : r.torrent_id \notin ids}
      /\ \A t \in d.torrents : t.id < f.last
  BY InsertTorrentInv
<1>2. SavedTorrent(d, ih, tags, withFiles) = IF withFiles THEN InsertFile(g, f.last) ELSE g
  BY DEF SavedTorrent
<1>3. row.id = f.last /\ row \in f.torrents
  BY <1>1
<1> HIDE DEF f, row, old
<1>4. f.last \in Ids(f.torrents)
  BY <1>3 DEF Ids
<1>5. /\ DbInv(g) /\ g.torrents = f.torrents /\ g.peers = f.peers
      /\ g.peers_torrents = f.peers_torrents
  BY <1>1, <1>4, AddTagsInv
<1> HIDE DEF g
<1>6. LET e == InsertFile(g, f.last)
      IN  /\ DbInv(e) /\ e.torrents = f.torrents /\ e.peers = f.peers
          /\ e.peers_torrents = f.peers_torrents
  BY <1>4, <1>5, InsertFileInv
<1> QED BY <1>1, <1>2, <1>5, <1>6 DEF f, row, old

(* A rollback to d from a database that some statements have made of it. *)
LEMMA RollbackInv ==
  ASSUME NEW d, DbInv(d), NEW e, DbInv(e)
  PROVE  DbInv(Rollback(d, e)) /\ \A t \in Tables : Rollback(d, e)[t] = d[t]
<1>1. e.last \in Nat
  BY DEF DbInv, DbType
<1> QED BY <1>1, NewLastInv DEF Rollback

(* The databases at which the transactions can fail. *)
LEMMA PeerStepsInv ==
  ASSUME NEW d, DbInv(d), NEW a \in Address, NEW ih \in Infohash, NEW e \in PeerSteps(d, a, ih)
  PROVE  DbInv(e)
<1>1. DbInv(PendingRow(d, a, ih)) /\ DbInv(PeerRow(d, a))
  BY PendingRowInv
<1>2. DbInv(SavedPeer(d, a, ih))
  <2>1. CASE PeerIdValid(d, a)
    BY <2>1, SavedPeerInv
  <2>2. CASE ~PeerIdValid(d, a)
    <3>1. SavedPeer(d, a, ih) = Rollback(d, PendingRow(d, a, ih))
      BY <2>2 DEF SavedPeer
    <3> QED BY <1>1, <3>1, RollbackInv
  <2> QED BY <2>1, <2>2
<1> QED BY <1>1, <1>2, Zenon DEF PeerSteps

LEMMA TorrentStepsInv ==
  ASSUME NEW d, DbInv(d), NEW ih \in Infohash, NEW tags \in Seq(Tag),
         NEW e \in TorrentSteps(d, ih, tags)
  PROVE  DbInv(e)
<1> DEFINE f == InsertTorrent(d, ih, TRUE)
           upTo(i) == AddTags(f, SubSeq(tags, 1, i), f.last)
           old == {t \in d.torrents : t.infohash = ih}
           row == [id |-> f.last, infohash |-> ih, named |-> TRUE]
<1>1. DbInv(f) /\ f.last \in Ids(f.torrents)
  <2>1. DbInv(f) /\ f.torrents = (d.torrents \ old) \cup {row}
    BY InsertTorrentInv
  <2>2. row.id = f.last /\ row \in f.torrents
    BY <2>1
  <2> HIDE DEF f, row
  <2> QED BY <2>1, <2>2 DEF Ids
<1>2. DbInv(SavedTorrent(d, ih, tags, TRUE))
  BY SavedTorrentInv
<1>3. \/ e \in {d, SavedTorrent(d, ih, tags, TRUE)}
      \/ \E i \in 0 .. Len(tags) : e = upTo(i)
      \/ \E i \in 1 .. Len(tags) : e = InsertTag(upTo(i - 1), tags[i])
  BY Zenon DEF TorrentSteps
<1> HIDE DEF f
<1>4. ASSUME NEW i \in 0 .. Len(tags) PROVE DbInv(upTo(i))
  <2>1. SubSeq(tags, 1, i) \in Seq(Tag)
    OBVIOUS
  <2> QED BY <1>1, <2>1, AddTagsInv
<1> HIDE DEF upTo
<1>5. ASSUME NEW i \in 1 .. Len(tags) PROVE DbInv(InsertTag(upTo(i - 1), tags[i]))
  <2>1. i - 1 \in 0 .. Len(tags) /\ tags[i] \in Tag
    OBVIOUS
  <2>2. DbInv(upTo(i - 1))
    BY <1>4, <2>1
  <2> QED BY <2>1, <2>2, InsertTagInv
<1> QED BY <1>2, <1>3, <1>4, <1>5

-----------------------------------------------------------------------------
(***************************************************************************)
(* The invariant of the specification                                      *)
(***************************************************************************)

StoreInv == DbInv(db) /\ Fits(db)

LEMMA StoreInit == Init => StoreInv
<1> SUFFICES ASSUME Init PROVE StoreInv
  OBVIOUS
<1>1. /\ db \in DbType(PosInt) /\ db.torrents = {} /\ db.peers = {} /\ db.peers_torrents = {}
      /\ db.tags = {} /\ db.tags_torrents = {} /\ db.files = {}
  BY DEF Init, EmptyDb, DbType
<1>2. \A t \in Tables : db[t] = {}
  BY <1>1 DEF Tables
<1>3. \A t \in Tables : Bounded(db[t])
  BY <1>2 DEF Bounded
<1> QED BY <1>1, <1>2, <1>3
        DEF StoreInv, DbInv, PrimaryKeys, UniqueKeys, ForeignKeys, OneLink, Fits

(* Tables without new rows still fit. *)
LEMMA FewerRowsFit ==
  ASSUME NEW d, Fits(d), NEW e, \A t \in Tables : e[t] \subseteq d[t]
  PROVE  Fits(e)
BY DEF Fits

(* A method that fails only moves last_insert_rowid. *)
LEMMA RollbackKeeps ==
  ASSUME StoreInv, NEW e, DbInv(e), db' = Rollback(db, e)
  PROVE  StoreInv' /\ \A t \in Tables : db'[t] = db[t]
<1>1. DbInv(db') /\ \A t \in Tables : db'[t] = db[t]
  BY RollbackInv DEF StoreInv
<1>2. Fits(db')
  BY <1>1, FewerRowsFit DEF StoreInv
<1> QED BY <1>1, <1>2 DEF StoreInv

LEMMA StoreStep == StoreInv /\ [Next]_vars => StoreInv'
<1> SUFFICES ASSUME StoreInv, [Next]_vars PROVE StoreInv'
  OBVIOUS
<1> USE DEF StoreInv
<1>1. ASSUME NEW a \in Address, NEW ih \in Infohash, SavePeer(a, ih)
      PROVE  StoreInv'
  <2>1. CASE PeerIdValid(db, a)
    BY <1>1, <2>1, SavedPeerInv DEF SavePeer
  <2>2. CASE ~PeerIdValid(db, a)
    <3>1. db' = Rollback(db, PendingRow(db, a, ih))
      BY <1>1, <2>2 DEF SavePeer, SavedPeer
    <3>2. DbInv(PendingRow(db, a, ih))
      BY PendingRowInv
    <3> QED BY <3>1, <3>2, RollbackKeeps
  <2> QED BY <2>1, <2>2
<1>2. ASSUME NEW a \in Address, NEW ih \in Infohash, SavePeerFails(a, ih)
      PROVE  StoreInv'
  <2>1. PICK e \in PeerSteps(db, a, ih) : db' = Rollback(db, e)
    BY <1>2 DEF SavePeerFails, RolledBack
  <2>2. DbInv(e)
    BY PeerStepsInv
  <2> QED BY <2>1, <2>2, RollbackKeeps
<1>3. ASSUME NEW ih \in Infohash, NEW tags \in TagLists, NEW f \in BOOLEAN,
             SaveTorrent(ih, tags, f)
      PROVE  StoreInv'
  <2>1. tags \in Seq(Tag)
    BY StoreAssumption
  <2> QED BY <1>3, <2>1, SavedTorrentInv DEF SaveTorrent
<1>4. ASSUME NEW ih \in Infohash, NEW tags \in TagLists, SaveTorrentFails(ih, tags)
      PROVE  StoreInv'
  <2>1. tags \in Seq(Tag)
    BY StoreAssumption
  <2>2. PICK e \in TorrentSteps(db, ih, tags) : db' = Rollback(db, e)
    BY <1>4 DEF SaveTorrentFails, RolledBack
  <2>3. DbInv(e)
    BY <2>1, TorrentStepsInv
  <2> QED BY <2>2, <2>3, RollbackKeeps
<1>5. ASSUME NEW ih \in Infohash, RemoveTorrent(ih)
      PROVE  StoreInv'
  <2> DEFINE gone == {t \in db.torrents : t.infohash = ih}
  <2>1. db' = DeleteTorrents(db, gone) /\ DbInv(DeleteTorrents(db, gone))
    BY <1>5, DeleteTorrentsInv DEF RemoveTorrent, RemovedTorrent
  <2>2. \A t \in Tables : DeleteTorrents(db, gone)[t] \subseteq db[t]
    BY DEF DeleteTorrents, DbInv, DbType, Tables
  <2> QED BY <2>1, <2>2, FewerRowsFit
<1>6. ASSUME NEW a \in Address, RemovePeer(a)
      PROVE  StoreInv'
  <2> DEFINE gone == {p \in db.peers : p.address = a}
  <2>1. db' = DeletePeers(db, gone) /\ DbInv(DeletePeers(db, gone))
    BY <1>6, DeletePeersInv DEF RemovePeer, RemovedPeer
  <2>2. \A t \in Tables : DeletePeers(db, gone)[t] \subseteq db[t]
    BY DEF DeletePeers, DbInv, DbType, Tables
  <2> QED BY <2>1, <2>2, FewerRowsFit
<1>7. ASSUME NEW tag \in Tag, SaveTag(tag)
      PROVE  StoreInv'
  BY <1>7, InsertTagInv DEF SaveTag
<1>8. ASSUME UNCHANGED db
      PROVE  StoreInv'
  BY <1>8
<1>9. ASSUME Reopen
      PROVE  StoreInv'
  <2>1. DbInv([db EXCEPT !.last = 0]) /\ \A t \in Tables : [db EXCEPT !.last = 0][t] = db[t]
    BY NewLastInv
  <2> QED BY <1>9, <2>1, FewerRowsFit DEF Reopen
<1> QED BY <1>1, <1>2, <1>3, <1>4, <1>5, <1>6, <1>7, <1>8, <1>9
        DEF Next, vars, TorrentsByTag, TorrentByHash, TorrentsByName

(* The invariant holds in every reachable state. *)
THEOREM StoreInvariant == Spec => []StoreInv
BY StoreInit, StoreStep, PTL DEF Spec

(***************************************************************************)
(* Every row of every table has the columns of its table, ids from 1 to    *)
(* IdBound: the rowids that the statements of db/sqlite.go are given are   *)
(* positive, and the ids that rows refer to are ids of rows.               *)
(***************************************************************************)
THEOREM StoreTyped == Spec => []TypeOK
<1>1. StoreInv => TypeOK
  <2> SUFFICES ASSUME StoreInv PROVE TypeOK
    OBVIOUS
  <2>1. db \in DbType(PosInt) /\ ForeignKeys(db) /\ Fits(db)
    BY DEF StoreInv, DbInv
  <2>2. \A t \in Tables : \A r \in db[t] : r.id <= IdBound
    BY <2>1 DEF Fits
  <2>3. IdBound \in Nat /\ \A i \in PosInt : i <= IdBound => i \in 1 .. IdBound
    BY StoreAssumption DEF PosInt
  <2>4. db.torrents \subseteq [id : 1 .. IdBound, infohash : Infohash, named : BOOLEAN]
    BY <2>1, <2>2, <2>3 DEF DbType, Tables
  <2>5. db.peers \subseteq [id : 1 .. IdBound, address : Address]
    BY <2>1, <2>2, <2>3 DEF DbType, Tables
  <2>6. db.tags \subseteq [id : 1 .. IdBound, name : Tag]
    BY <2>1, <2>2, <2>3 DEF DbType, Tables
  <2>7. /\ Ids(db.torrents) \subseteq 1 .. IdBound
        /\ Ids(db.peers) \subseteq 1 .. IdBound
        /\ Ids(db.tags) \subseteq 1 .. IdBound
    BY <2>4, <2>5, <2>6 DEF Ids
  <2>8. db.peers_torrents \subseteq
          [id : 1 .. IdBound, peer_id : 1 .. IdBound, torrent_id : 1 .. IdBound]
    BY <2>1, <2>2, <2>3, <2>7 DEF DbType, Tables, ForeignKeys
  <2>9. db.tags_torrents \subseteq
          [id : 1 .. IdBound, tag_id : 1 .. IdBound, torrent_id : 1 .. IdBound]
    BY <2>1, <2>2, <2>3, <2>7 DEF DbType, Tables, ForeignKeys
  <2>10. db.files \subseteq [id : 1 .. IdBound, torrent_id : 1 .. IdBound]
    BY <2>1, <2>2, <2>3, <2>7 DEF DbType, Tables, ForeignKeys
  <2> QED BY <2>1, <2>4, <2>5, <2>6, <2>8, <2>9, <2>10 DEF TypeOK, DbType
<1> QED BY <1>1, StoreInvariant, PTL

(***************************************************************************)
(* No row of peers_torrents, tags_torrents or files refers to a row that   *)
(* "insert or replace" or a removal has deleted.                           *)
(***************************************************************************)
THEOREM StoreIntegrity == Spec => []Integrity
<1>1. StoreInv => Integrity
  BY DEF StoreInv, DbInv, Integrity
<1> QED BY <1>1, StoreInvariant, PTL

(***************************************************************************)
(* A SavePeer or SaveTorrent that returns an error leaves the tables as    *)
(* they were: the foreign key failure of SavePeer and the failures of the  *)
(* statements are both rolled back.                                        *)
(***************************************************************************)
THEOREM StoreErrors == Spec => ErrorChangesNothing
<1> DEFINE Kept == \A t \in Tables : db'[t] = db[t]
           Failed == call'.method \in {"SavePeer", "SaveTorrent"} /\ ~call'.ok
<1>1. ASSUME StoreInv, [Next]_vars PROVE [Failed => Kept]_vars
  <2> SUFFICES ASSUME Next, Failed PROVE Kept
    BY <1>1
  <2>1. \A m, x, ok : Call(m, x, ok).method = m /\ Call(m, x, ok).ok = ok
    BY DEF Call
  <2> HIDE DEF Kept
  <2>2. ASSUME NEW a \in Address, NEW ih \in Infohash, SavePeer(a, ih) PROVE Kept
    <3>1. ~PeerIdValid(db, a)
      BY <2>1, <2>2 DEF SavePeer
    <3>2. db' = Rollback(db, PendingRow(db, a, ih))
      BY <2>2, <3>1 DEF SavePeer, SavedPeer
    <3>3. DbInv(PendingRow(db, a, ih))
      BY <1>1, PendingRowInv DEF StoreInv
    <3> QED BY <1>1, <3>2, <3>3, RollbackKeeps DEF Kept
  <2>3. ASSUME NEW a \in Address, NEW ih \in Infohash, SavePeerFails(a, ih) PROVE Kept
    <3>1. PICK e \in PeerSteps(db, a, ih) : db' = Rollback(db, e)
      BY <2>3 DEF SavePeerFails, RolledBack
    <3>2. DbInv(e)
      BY <1>1, PeerStepsInv DEF StoreInv
    <3> QED BY <1>1, <3>1, <3>2, RollbackKeeps DEF Kept
  <2>4. ASSUME NEW ih \in Infohash, NEW tags \in TagLists, NEW f \in BOOLEAN,
               SaveTorrent(ih, tags, f)
        PROVE  Kept
    BY <2>1, <2>4 DEF SaveTorrent
  <2>5. ASSUME NEW ih \in Infohash, NEW tags \in TagLists, SaveTorrentFails(ih, tags)
        PROVE  Kept
    <3>1. tags \in Seq(Tag)
      BY StoreAssumption
    <3>2. PICK e \in TorrentSteps(db, ih, tags) : db' = Rollback(db, e)
      BY <2>5 DEF SaveTorrentFails, RolledBack
    <3>3. DbInv(e)
      BY <1>1, <3>1, TorrentStepsInv DEF StoreInv
    <3> QED BY <1>1, <3>2, <3>3, RollbackKeeps DEF Kept
  <2>6. ASSUME NEW ih \in Infohash, RemoveTorrent(ih) PROVE Kept
    <3>1. call'.method = "RemoveTorrent"
      BY <2>1, <2>6 DEF RemoveTorrent
    <3> QED BY <3>1
  <2>7. ASSUME NEW a \in Address, RemovePeer(a) PROVE Kept
    BY <2>1, <2>7 DEF RemovePeer
  <2>8. ASSUME NEW tag \in Tag, SaveTag(tag) PROVE Kept
    BY <2>1, <2>8 DEF SaveTag
  <2>9. ASSUME UNCHANGED db PROVE Kept
    BY <2>9 DEF Kept
  <2>10. ASSUME Reopen PROVE Kept
    BY <2>1, <2>10 DEF Reopen
  <2> QED BY <2>2, <2>3, <2>4, <2>5, <2>6, <2>7, <2>8, <2>9, <2>10
          DEF Next, TorrentByHash, TorrentsByTag, TorrentsByName
<1> QED BY <1>1, StoreInvariant, PTL DEF Spec, ErrorChangesNothing
-----------------------------------------------------------------------------
(***************************************************************************)
(* What SaveTorrent writes                                                 *)
(***************************************************************************)

(* The torrent with this id has the tag, or a file. *)
TagLinked(d, x, id) ==
  \E g \in d.tags, r \in d.tags_torrents : g.name = x /\ r.tag_id = g.id /\ r.torrent_id = id
FileLinked(d, id) == \E f \in d.files : f.torrent_id = id

LEMMA TagsOfJoin ==
  ASSUME NEW d, NEW ih, NEW x
  PROVE  x \in TagsOf(d, ih) <=> \E t \in d.torrents : t.infohash = ih /\ TagLinked(d, x, t.id)
BY DEF TagsOf, TagLinked

LEMMA HasFilesJoin ==
  ASSUME NEW d, NEW ih
  PROVE  HasFiles(d, ih) <=> \E t \in d.torrents : t.infohash = ih /\ FileLinked(d, t.id)
BY DEF HasFiles, FileLinked

(* insertTorrent: the new row starts without tags and files, although its  *)
(* id may have been another row's once; the other rows keep theirs.        *)
LEMMA InsertTorrentLinks ==
  ASSUME NEW d, DbInv(d), NEW ih \in Infohash, NEW named \in BOOLEAN
  PROVE  LET e == InsertTorrent(d, ih, named)
         IN  /\ ~FileLinked(e, e.last) /\ \A x : ~TagLinked(e, x, e.last)
             /\ \A t \in d.torrents : t.infohash # ih =>
                  /\ FileLinked(e, t.id) <=> FileLinked(d, t.id)
                  /\ \A x : TagLinked(e, x, t.id) => TagLinked(d, x, t.id)
<1> DEFINE e == InsertTorrent(d, ih, named)
           old == {t \in d.torrents : t.infohash = ih}
           ids == {t.id : t \in old}
           id == NextId(d.torrents)
<1>1. d \in DbType(PosInt) /\ ForeignKeys(d) /\ PrimaryKeys(d)
  BY DEF DbInv
<1>2. id \in PosInt /\ \A t \in d.torrents : t.id < id /\ t.id \in PosInt
  BY <1>1, FreshId DEF DbInv, Tables, DbType
<1>3. /\ e.tags = d.tags /\ e.last = id
      /\ e.tags_torrents = {r \in d.tags_torrents : r.torrent_id \notin ids}
      /\ e.files = {r \in d.files : r.torrent_id \notin ids}
  BY <1>1 DEF InsertTorrent, DeleteTorrents, DbType
<1> HIDE DEF e, id
<1>4. \A r \in d.tags_torrents : r.torrent_id # id
  BY <1>1, <1>2 DEF ForeignKeys, Ids, PosInt
<1>5. \A r \in d.files : r.torrent_id # id
  BY <1>1, <1>2 DEF ForeignKeys, Ids, PosInt
<1>6. \A t \in d.torrents : t.infohash # ih => t.id \notin ids
  BY <1>1 DEF PrimaryKeys, Tables
<1> HIDE DEF ids
<1>7. ~FileLinked(e, e.last) /\ \A x : ~TagLinked(e, x, e.last)
  BY <1>3, <1>4, <1>5 DEF FileLinked, TagLinked
<1>8. ASSUME NEW t \in d.torrents, t.infohash # ih
      PROVE  /\ FileLinked(e, t.id) <=> FileLinked(d, t.id)
             /\ \A x : TagLinked(e, x, t.id) => TagLinked(d, x, t.id)
  BY <1>3, <1>6, <1>8 DEF FileLinked, TagLinked
<1> QED BY <1>7, <1>8 DEF e

(* insertTag and insertTagTorrent: the torrent has the tag and, since the  *)
(* row of the tag was replaced, no other torrent has it any more.          *)
LEMMA AddTagLinks ==
  ASSUME NEW d, DbInv(d), NEW tag \in Tag, NEW torrent \in Ids(d.torrents)
  PROVE  LET e == AddTag(d, tag, torrent)
         IN  /\ e.files = d.files
             /\ \A x : TagLinked(e, x, torrent) <=> x = tag \/ TagLinked(d, x, torrent)
             /\ \A x, id : TagLinked(e, x, id) => id = torrent \/ TagLinked(d, x, id)
<1> DEFINE e == AddTag(d, tag, torrent)
           old == {t \in d.tags : t.name = tag}
           ids == {t.id : t \in old}
           id == NextId(d.tags)
           row == [id |-> id, name |-> tag]
           f == InsertTag(d, tag)
           lid == NextId(f.tags_torrents)
           link == [id |-> lid, tag_id |-> id, torrent_id |-> torrent]
<1>1. d \in DbType(PosInt) /\ ForeignKeys(d) /\ UniqueKeys(d)
  BY DEF DbInv
<1>2. id \in PosInt /\ \A t \in d.tags : t.id < id /\ t.id \in PosInt
  BY <1>1, FreshId DEF DbInv, Tables, DbType
<1>3. /\ f.tags = (d.tags \ old) \cup {row}
      /\ f.tags_torrents = {r \in d.tags_torrents : r.tag_id \notin ids}
      /\ f.files = d.files /\ f.last = id /\ f \in DbType(PosInt)
  <2>1. f \in DbType(PosInt)
    BY InsertTagInv DEF DbInv
  <2> QED BY <1>1, <2>1 DEF InsertTag, DeleteTags, DbType
<1>4. /\ e.tags = f.tags /\ e.files = f.files
      /\ e.tags_torrents = f.tags_torrents \cup {link}
  BY <1>3, Zenon DEF AddTag, InsertTagTorrent, DbType
<1>5. row.id = id /\ row.name = tag /\ link.tag_id = id /\ link.torrent_id = torrent
  OBVIOUS
<1> HIDE DEF e, f, id, lid, row, link
<1>6. \A r \in d.tags_torrents : r.tag_id # id
  BY <1>1, <1>2 DEF ForeignKeys, Ids, PosInt
<1>7. ASSUME NEW x, NEW k
      PROVE  TagLinked(e, x, k) <=>
               \/ x = tag /\ k = torrent
               \/ x # tag /\ TagLinked(d, x, k)
  <2>1. ASSUME TagLinked(e, x, k)
        PROVE  (x = tag /\ k = torrent) \/ (x # tag /\ TagLinked(d, x, k))
    <3>1. PICK g \in e.tags, r \in e.tags_torrents :
            g.name = x /\ r.tag_id = g.id /\ r.torrent_id = k
      BY <2>1 DEF TagLinked
    <3>2. CASE r = link
      BY <1>2, <1>3, <1>4, <1>5, <3>1, <3>2 DEF PosInt
    <3>3. CASE r # link
      <4>1. r \in d.tags_torrents /\ r.tag_id # id
        BY <1>3, <1>4, <1>6, <3>3
      <4>2. g \in d.tags /\ g.name # tag
        BY <1>3, <1>4, <1>5, <3>1, <4>1
      <4> QED BY <3>1, <4>1, <4>2 DEF TagLinked
    <3> QED BY <3>2, <3>3
  <2>2. ASSUME x = tag, k = torrent PROVE TagLinked(e, x, k)
    <3>1. row \in e.tags /\ link \in e.tags_torrents
      BY <1>3, <1>4
    <3> QED BY <1>5, <2>2, <3>1 DEF TagLinked
  <2>3. ASSUME x # tag, TagLinked(d, x, k) PROVE TagLinked(e, x, k)
    <3>1. PICK g \in d.tags, r \in d.tags_torrents :
            g.name = x /\ r.tag_id = g.id /\ r.torrent_id = k
      BY <2>3 DEF TagLinked
    <3>2. r.tag_id \notin ids
      BY <2>3, <3>1 DEF DbInv, PrimaryKeys, Tables
    <3> HIDE DEF ids
    <3>3. g \in e.tags /\ r \in e.tags_torrents
      BY <1>3, <1>4, <2>3, <3>1, <3>2
    <3> QED BY <3>1, <3>3 DEF TagLinked
  <2> QED BY <2>1, <2>2, <2>3
<1>8. e.files = d.files
  BY <1>3, <1>4
<1> QED BY <1>7, <1>8, Zenon DEF e

(* The loop over the tags, as a least counterexample. *)
LEMMA AddTagsLinks ==
  ASSUME NEW d, DbInv(d), NEW tags \in Seq(Tag), NEW torrent \in Ids(d.torrents)
  PROVE  LET e == AddTags(d, tags, torrent)
         IN  /\ e.files = d.files
             /\ \A x : TagLinked(e, x, torrent) <=>
                         (\E i \in 1 .. Len(tags) : tags[i] = x) \/ TagLinked(d, x, torrent)
             /\ \A x, id : TagLinked(e, x, id) => id = torrent \/ TagLinked(d, x, id)
<1> DEFINE g == After(d, tags, torrent)
           Has(n, x) == \E i \in 1 .. n : tags[i] = x
           Ok(n) == /\ DbInv(g[n]) /\ g[n].torrents = d.torrents /\ g[n].files = d.files
                    /\ \A x : TagLinked(g[n], x, torrent) <=> Has(n, x) \/ TagLinked(d, x, torrent)
                    /\ \A x, id : TagLinked(g[n], x, id) => id = torrent \/ TagLinked(d, x, id)
           Bad == {n \in 0 .. Len(tags) : ~Ok(n)}
<1>1. /\ AddTags(d, tags, torrent) = g[Len(tags)]
      /\ g[0] = d
      /\ \A i \in 1 .. Len(tags) : g[i] = AddTag(g[i - 1], tags[i], torrent)
  BY AfterDef
<1> HIDE DEF g
<1>2. Len(tags) \in Nat /\ \A i \in 1 .. Len(tags) : tags[i] \in Tag
  OBVIOUS
<1>3. Ok(0)
  <2>1. \A x : ~Has(0, x)
    OBVIOUS
  <2> HIDE DEF Has
  <2> QED BY <1>1, <2>1
<1>4. ASSUME NEW n \in 1 .. Len(tags), Ok(n - 1) PROVE Ok(n)
  <2> DEFINE p == g[n - 1]
  <2>1. g[n] = AddTag(p, tags[n], torrent) /\ tags[n] \in Tag
    BY <1>1, <1>2
  <2>2. DbInv(p) /\ torrent \in Ids(p.torrents)
    BY <1>4
  <2>3. DbInv(g[n]) /\ g[n].torrents = d.torrents
    BY <1>4, <2>1, <2>2, AddTagInv
  <2>4. /\ g[n].files = p.files
        /\ \A x : TagLinked(g[n], x, torrent) <=> x = tags[n] \/ TagLinked(p, x, torrent)
        /\ \A x, id : TagLinked(g[n], x, id) => id = torrent \/ TagLinked(p, x, id)
    BY <2>1, <2>2, AddTagLinks
  <2>5. \A x : Has(n, x) <=> Has(n - 1, x) \/ x = tags[n]
    <3>1. \A i \in 1 .. n : i \in 1 .. n - 1 \/ i = n
      OBVIOUS
    <3>2. n \in 1 .. n /\ \A i \in 1 .. n - 1 : i \in 1 .. n
      OBVIOUS
    <3> QED BY <3>1, <3>2
  <2> HIDE DEF Has
  <2>6. /\ p.files = d.files
        /\ \A x : TagLinked(p, x, torrent) <=> Has(n - 1, x) \/ TagLinked(d, x, torrent)
        /\ \A x, id : TagLinked(p, x, id) => id = torrent \/ TagLinked(d, x, id)
    BY <1>4
  <2> HIDE DEF p
  <2> QED BY <2>3, <2>4, <2>5, <2>6
<1> HIDE DEF Ok
<1>5. Bad = {}
  <2>1. SUFFICES ASSUME Bad # {} PROVE FALSE
    OBVIOUS
  <2>2. PICK n \in Bad : \A m \in Bad : n <= m
    <3>1. Bad \subseteq Nat
      BY <1>2
    <3> HIDE DEF Bad
    <3> QED BY <2>1, <3>1, LeastNat, Zenon
  <2>3. n # 0
    BY <1>3
  <2>4. n \in 1 .. Len(tags) /\ n - 1 \in 0 .. Len(tags) /\ n - 1 \notin Bad
    BY <1>2, <2>2, <2>3
  <2> QED BY <1>4, <2>2, <2>4
<1>6. Ok(Len(tags))
  BY <1>2, <1>5
<1> QED BY <1>1, <1>6 DEF Ok

(* insertFile. *)
LEMMA InsertFileLinks ==
  ASSUME NEW d, DbInv(d), NEW torrent
  PROVE  LET e == InsertFile(d, torrent)
         IN  /\ \A id : FileLinked(e, id) <=> id = torrent \/ FileLinked(d, id)
             /\ \A x, id : TagLinked(e, x, id) <=> TagLinked(d, x, id)
<1> DEFINE e == InsertFile(d, torrent)
           row == [id |-> NextId(d.files), torrent_id |-> torrent]
<1>1. e.tags = d.tags /\ e.tags_torrents = d.tags_torrents /\ e.files = d.files \cup {row}
  BY Zenon DEF InsertFile, DbInv, DbType
<1>2. row.torrent_id = torrent
  OBVIOUS
<1> HIDE DEF e, row
<1> QED BY <1>1, <1>2 DEF FileLinked, TagLinked, e

(* SaveTorrent's statements together, seen by row. *)
LinksSaved(d, e, ih, new, tags, withFiles) ==
  /\ \A x : TagLinked(e, x, new) <=> \E i \in 1 .. Len(tags) : tags[i] = x
  /\ FileLinked(e, new) <=> withFiles
  /\ \A t \in d.torrents : t.infohash # ih =>
       /\ FileLinked(e, t.id) <=> FileLinked(d, t.id)
       /\ \A x : TagLinked(e, x, t.id) => TagLinked(d, x, t.id)

LEMMA SavedTorrentLinks ==
  ASSUME NEW d, DbInv(d), NEW ih \in Infohash, NEW tags \in Seq(Tag), NEW withFiles \in BOOLEAN
  PROVE  LinksSaved(d, SavedTorrent(d, ih, tags, withFiles), ih,
                    InsertTorrent(d, ih, TRUE).last, tags, withFiles)
<1> DEFINE f == InsertTorrent(d, ih, TRUE)
           new == f.last
           g == AddTags(f, tags, new)
           h == InsertFile(g, new)
           e == SavedTorrent(d, ih, tags, withFiles)
           old == {t \in d.torrents : t.infohash = ih}
           row == [id |-> f.last, infohash |-> ih, named |-> TRUE]
<1>1. /\ DbInv(f) /\ new \in Ids(f.torrents)
      /\ \A t \in d.torrents : t.id < new /\ t.id \in PosInt /\ new \in PosInt
  <2>1. /\ DbInv(f) /\ f.last \in PosInt /\ \A t \in d.torrents : t.id < f.last
        /\ f.torrents = (d.torrents \ old) \cup {row}
    BY InsertTorrentInv
  <2>2. row.id = new /\ row \in f.torrents
    BY <2>1
  <2>3. \A t \in d.torrents : t.id \in PosInt
    BY DEF DbInv, DbType
  <2> HIDE DEF f, row
  <2> QED BY <2>1, <2>2, <2>3 DEF Ids
<1>2. /\ ~FileLinked(f, new) /\ \A x : ~TagLinked(f, x, new)
      /\ \A t \in d.torrents : t.infohash # ih =>
           /\ FileLinked(f, t.id) <=> FileLinked(d, t.id)
           /\ \A x : TagLinked(f, x, t.id) => TagLinked(d, x, t.id)
  BY InsertTorrentLinks
<1>3. e = IF withFiles THEN h ELSE g
  BY DEF SavedTorrent
<1> HIDE DEF f, new
<1>4. /\ g.files = f.files
      /\ \A x : TagLinked(g, x, new) <=>
                  (\E i \in 1 .. Len(tags) : tags[i] = x) \/ TagLinked(f, x, new)
      /\ \A x, id : TagLinked(g, x, id) => id = new \/ TagLinked(f, x, id)
  BY <1>1, AddTagsLinks
<1>5. DbInv(g)
  BY <1>1, AddTagsInv
<1>6. \A id : FileLinked(g, id) <=> FileLinked(f, id)
  BY <1>4, Zenon DEF FileLinked
<1> HIDE DEF g
<1>7. /\ \A id : FileLinked(h, id) <=> id = new \/ FileLinked(g, id)
      /\ \A x, id : TagLinked(h, x, id) <=> TagLinked(g, x, id)
  BY <1>5, InsertFileLinks
<1> HIDE DEF h
<1>8. \A t \in d.torrents : t.id # new
  BY <1>1 DEF PosInt
<1>9. /\ \A x, id : TagLinked(e, x, id) <=> TagLinked(g, x, id)
      /\ \A id : FileLinked(e, id) <=> (withFiles /\ id = new) \/ FileLinked(f, id)
  BY <1>3, <1>6, <1>7
<1> HIDE DEF e
<1>10. \A x : TagLinked(e, x, new) <=> \E i \in 1 .. Len(tags) : tags[i] = x
  BY <1>2, <1>4, <1>9
<1>11. FileLinked(e, new) <=> withFiles
  BY <1>2, <1>9
<1>12. ASSUME NEW t \in d.torrents, t.infohash # ih
       PROVE  /\ FileLinked(e, t.id) <=> FileLinked(d, t.id)
              /\ \A x : TagLinked(e, x, t.id) => TagLinked(d, x, t.id)
  BY <1>2, <1>4, <1>8, <1>9, <1>12
<1>13. LinksSaved(d, e, ih, new, tags, withFiles)
  BY <1>10, <1>11, <1>12, Zenon DEF LinksSaved
<1> QED BY <1>13 DEF e, new, f

(***************************************************************************)
(* SaveTorrent puts the tags and files it is given under the infohash it   *)
(* is given, for tag lists of any length and whatever ids the tables have  *)
(* reached: none is left over, none lands at another infohash.             *)
(***************************************************************************)
THEOREM StoreSavesWhole == Spec => SavedWhole
<1> DEFINE Whole(ih, tags, f) ==
             /\ TagsOf(db', ih) = {tags[i] : i \in DOMAIN tags}
             /\ HasFiles(db', ih) <=> f
             /\ \A other \in Infohash \ {ih} :
                  /\ TagsOf(db', other) \subseteq TagsOf(db, other)
                  /\ HasFiles(db', other) <=> HasFiles(db, other)
<1>1. ASSUME StoreInv, NEW ih \in Infohash, NEW tags \in TagLists, NEW f \in BOOLEAN,
             SaveTorrent(ih, tags, f)
      PROVE  Whole(ih, tags, f)
  <2> DEFINE e == SavedTorrent(db, ih, tags, f)
             new == InsertTorrent(db, ih, TRUE).last
             old == {t \in db.torrents : t.infohash = ih}
             ids == {t.id : t \in old}
             row == [id |-> new, infohash |-> ih, named |-> TRUE]
  <2>1. tags \in Seq(Tag) /\ DbInv(db) /\ db' = e
    BY <1>1, StoreAssumption DEF StoreInv, SaveTorrent
  <2>2. db'.torrents = (db.torrents \ old) \cup {row}
    <3>1. /\ DbInv(e)
          /\ e.torrents = (db.torrents \ old) \cup {row}
          /\ e.peers = db.peers
          /\ e.peers_torrents = {r \in db.peers_torrents : r.torrent_id \notin ids}
          /\ \A t \in db.torrents : t.id < new
      BY <2>1, SavedTorrentInv
    <3> HIDE DEF e
    <3> QED BY <2>1, <3>1
  <2>3. /\ \A x : TagLinked(db', x, new) <=> \E i \in 1 .. Len(tags) : tags[i] = x
        /\ FileLinked(db', new) <=> f
        /\ \A t \in db.torrents : t.infohash # ih =>
             /\ FileLinked(db', t.id) <=> FileLinked(db, t.id)
             /\ \A x : TagLinked(db', x, t.id) => TagLinked(db, x, t.id)
    <3>1. /\ \A x : TagLinked(e, x, new) <=> \E i \in 1 .. Len(tags) : tags[i] = x
          /\ FileLinked(e, new) <=> f
          /\ \A t \in db.torrents : t.infohash # ih =>
               /\ FileLinked(e, t.id) <=> FileLinked(db, t.id)
               /\ \A x : TagLinked(e, x, t.id) => TagLinked(db, x, t.id)
      <4>1. tags \in Seq(Tag) /\ DbInv(db)
        BY <2>1
      <4>2. LinksSaved(db, e, ih, new, tags, f)
        BY <4>1, SavedTorrentLinks
      <4> HIDE DEF e, new
      <4> QED BY <4>2, Zenon DEF LinksSaved
    <3> HIDE DEF e, new
    <3> QED BY <2>1, <3>1
  <2>4. row.id = new /\ row.infohash = ih /\ DOMAIN tags = 1 .. Len(tags)
    BY <2>1
  <2> HIDE DEF e, new, row
  <2>5. \A t : t \in db'.torrents /\ t.infohash = ih <=> t = row
    BY <2>2, <2>4
  <2>6. \A other \in Infohash \ {ih} : \A t :
          t \in db'.torrents /\ t.infohash = other <=> t \in db.torrents /\ t.infohash = other
    BY <2>2, <2>4
  <2>7. TagsOf(db', ih) = {tags[i] : i \in DOMAIN tags}
    <3>1. \A x : x \in TagsOf(db', ih) <=> TagLinked(db', x, new)
      BY <2>4, <2>5, TagsOfJoin
    <3> QED BY <2>3, <2>4, <3>1
  <2>8. HasFiles(db', ih) <=> f
    BY <2>3, <2>4, <2>5, HasFilesJoin
  <2>9. ASSUME NEW other \in Infohash \ {ih}
        PROVE  /\ TagsOf(db', other) \subseteq TagsOf(db, other)
               /\ HasFiles(db', other) <=> HasFiles(db, other)
    <3>1. ASSUME NEW x \in TagsOf(db', other) PROVE x \in TagsOf(db, other)
      <4>1. PICK t \in db'.torrents : t.infohash = other /\ TagLinked(db', x, t.id)
        BY <3>1, TagsOfJoin
      <4>2. t \in db.torrents /\ t.infohash # ih
        BY <2>6, <4>1
      <4> QED BY <2>3, <4>1, <4>2, TagsOfJoin
    <3>2. HasFiles(db', other) => HasFiles(db, other)
      BY <2>3, <2>6, HasFilesJoin
    <3>3. HasFiles(db, other) => HasFiles(db', other)
      BY <2>3, <2>6, HasFilesJoin
    <3> QED BY <3>1, <3>2, <3>3
  <2> QED BY <2>7, <2>8, <2>9
<1>2. ASSUME Next, call'.method = "SaveTorrent", call'.ok
      PROVE  call'.arg \in Infohash
  <2>1. \A m, x, ok : Call(m, x, ok).method = m /\ Call(m, x, ok).arg = x /\ Call(m, x, ok).ok = ok
    BY DEF Call
  <2> DEFINE Goal == call'.arg \in Infohash
  <2>2. ASSUME NEW ih \in Infohash, NEW ts \in TagLists, NEW b \in BOOLEAN, SaveTorrent(ih, ts, b)
        PROVE  Goal
    <3>1. call' = Call("SaveTorrent", ih, TRUE)
      BY <2>2 DEF SaveTorrent
    <3>2. call'.arg = ih
      BY <3>1 DEF Call
    <3> QED BY <3>2
  <2> HIDE DEF Goal
  <2>3. ASSUME NEW x, NEW ok, call' = Call("SaveTorrent", x, ok), ok = FALSE PROVE Goal
    BY <1>2, <2>1, <2>3
  <2>4. ASSUME NEW m, NEW x, NEW ok, call' = Call(m, x, ok), m # "SaveTorrent" PROVE Goal
    BY <1>2, <2>1, <2>4
  <2>5. ASSUME NEW ih \in Infohash, NEW ts \in TagLists, SaveTorrentFails(ih, ts) PROVE Goal
    BY <2>3, <2>5 DEF SaveTorrentFails
  <2>6. ASSUME NEW a \in Address, NEW ih \in Infohash, SavePeer(a, ih) PROVE Goal
    BY <2>4, <2>6 DEF SavePeer
  <2>7. ASSUME NEW a \in Address, NEW ih \in Infohash, SavePeerFails(a, ih) PROVE Goal
    BY <2>4, <2>7 DEF SavePeerFails
  <2>8. ASSUME NEW ih \in Infohash, RemoveTorrent(ih) PROVE Goal
    BY <2>4, <2>8 DEF RemoveTorrent
  <2>9. ASSUME NEW ih \in Infohash, TorrentByHash(ih) PROVE Goal
    BY <2>4, <2>9 DEF TorrentByHash
  <2>10. ASSUME NEW a \in Address, RemovePeer(a) PROVE Goal
    BY <2>4, <2>10 DEF RemovePeer
  <2>11. ASSUME NEW tag \in Tag, SaveTag(tag) PROVE Goal
    BY <2>4, <2>11 DEF SaveTag
  <2>12. ASSUME NEW tag \in Tag, TorrentsByTag(tag) PROVE Goal
    BY <2>4, <2>12 DEF TorrentsByTag
  <2>13. ASSUME TorrentsByName PROVE Goal
    BY <2>4, <2>13 DEF TorrentsByName
  <2>14. ASSUME Reopen PROVE Goal
    BY <2>4, <2>14 DEF Reopen
  <2>15. Goal
    BY <1>2, <2>2, <2>5, <2>6, <2>7, <2>8, <2>9, <2>10, <2>11, <2>12, <2>13, <2>14, Zenon DEF Next
  <2> QED BY <2>15 DEF Goal
<1>3. ASSUME StoreInv, [Next]_vars
      PROVE  [call'.method = "SaveTorrent" /\ call'.ok =>
                \A tags \in TagLists, f \in BOOLEAN :
                  SaveTorrent(call'.arg, tags, f) => Whole(call'.arg, tags, f)]_vars
  <2> HIDE DEF Whole
  <2> SUFFICES ASSUME Next, call'.method = "SaveTorrent", call'.ok,
                      NEW tags \in TagLists, NEW f \in BOOLEAN, SaveTorrent(call'.arg, tags, f)
               PROVE  Whole(call'.arg, tags, f)
    BY <1>3
  <2> QED BY <1>1, <1>2, <1>3
<1> QED BY <1>3, StoreInvariant, PTL DEF Spec, SavedWhole
=============================================================================
