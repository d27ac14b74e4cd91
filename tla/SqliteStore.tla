---------------------------- MODULE SqliteStore ----------------------------
(***************************************************************************)
(* db/sqlite.go: the store that is built into dhtsearch.  Every method     *)
(* holds the store's RWMutex and has finished its transaction when it      *)
(* releases it, so each is one step; they share one pooled connection, and *)
(* with it SQLite's last_insert_rowid, which no rollback restores.         *)
(*                                                                         *)
(* Tables are sets of rows.  What matters of SQL here is its conflict      *)
(* handling: "insert or replace" DELETES the row it conflicts with, the    *)
(* deletion cascades over the foreign keys, and the new row has a new id;  *)
(* "insert or ignore" of a known row leaves last_insert_rowid alone.       *)
(***************************************************************************)
EXTENDS Integers, Sequences, FiniteSetsExt

CONSTANTS
  Infohash,  \* numbers: group by sorts them
  Address,   \* numbers: max(p.address) compares them
  Tag,
  TagLists,  \* what tagTorrent may return: sequences of different tags
  IdBound    \* bound of the model: no id grows past it (2^63 - 1 in SQLite)

ASSUME StoreAssumption ==
  /\ Infohash \subseteq Nat /\ IsFiniteSet(Infohash) /\ Address \subseteq Nat
  /\ TagLists \subseteq Seq(Tag)
  /\ IdBound \in Nat

VARIABLES
  db,    \* the tables and last_insert_rowid
  call   \* history: the method that returned last, what it saved, its success

vars == <<db, call>>

Tables == {"torrents", "peers", "peers_torrents", "tags", "tags_torrents", "files"}

(* sqliteSchema, created by migrate when user_version is 0. *)
EmptyDb ==
  [torrents |-> {},        \* [id, infohash, named]: named is "name is not null"
   peers |-> {},           \* [id, address]
   peers_torrents |-> {},  \* [id, peer_id, torrent_id]: id is the rowid
   tags |-> {},            \* [id, name]
   tags_torrents |-> {},   \* [id, tag_id, torrent_id]
   files |-> {},           \* [id, torrent_id]
   last |-> 0]             \* last_insert_rowid

Call(m, a, ok) == [method |-> m, arg |-> a, ok |-> ok]

Init == db = EmptyDb /\ call = Call("none", 0, TRUE)

-----------------------------------------------------------------------------
(***************************************************************************)
(* SQL statements: functions from a database to a database                 *)
(***************************************************************************)

(* The rowid that SQLite gives a new row: the largest in use and one. *)
NextId(rows) == Max({r.id : r \in rows} \cup {0}) + 1

\* Mutant of DeleteTorrents: foreign_keys is off and nothing cascades.
DeleteTorrentsOnly(d, gone) == [d EXCEPT !.torrents = @ \ gone]

(* "references torrents on delete cascade" *)
DeleteTorrents(d, gone) ==
  LET ids == {t.id : t \in gone}
  IN  [d EXCEPT !.torrents = @ \ gone,
                !.peers_torrents = {r \in @ : r.torrent_id \notin ids},
                !.tags_torrents = {r \in @ : r.torrent_id \notin ids},
                !.files = {r \in @ : r.torrent_id \notin ids}]

DeletePeers(d, gone) ==
  LET ids == {p.id : p \in gone}
  IN  [d EXCEPT !.peers = @ \ gone,
                !.peers_torrents = {r \in @ : r.peer_id \notin ids}]

DeleteTags(d, gone) ==
  LET ids == {t.id : t \in gone}
  IN  [d EXCEPT !.tags = @ \ gone,
                !.tags_torrents = {r \in @ : r.tag_id \notin ids}]

(* insert or replace into torrents: the new id is taken before the old row *)
(* goes, so it differs from the old one.                                   *)
InsertTorrent(d, ih, named) ==
  LET id   == NextId(d.torrents)
      rest == DeleteTorrents(d, {t \in d.torrents : t.infohash = ih})
  IN  [rest EXCEPT !.torrents = @ \cup {[id |-> id, infohash |-> ih, named |-> named]},
                   !.last = id]

(* insert or ignore into peers *)
InsertPeer(d, a) ==
  LET id == NextId(d.peers)
  IN  IF \E p \in d.peers : p.address = a
        THEN d
        ELSE [d EXCEPT !.peers = @ \cup {[id |-> id, address |-> a]}, !.last = id]

(* insert or replace into tags *)
InsertTag(d, tag) ==
  LET id   == NextId(d.tags)
      rest == DeleteTags(d, {t \in d.tags : t.name = tag})
  IN  [rest EXCEPT !.tags = @ \cup {[id |-> id, name |-> tag]}, !.last = id]

(* insert or ignore into tags_torrents, peers_torrents: the torrent id is  *)
(* new, so nothing is ignored.                                             *)
InsertTagTorrent(d, tag, torrent) ==
  LET id == NextId(d.tags_torrents)
  IN  [d EXCEPT !.tags_torrents = @ \cup {[id |-> id, tag_id |-> tag, torrent_id |-> torrent]},
                !.last = id]

InsertPeerTorrent(d, peer, torrent) ==
  LET id == NextId(d.peers_torrents)
  IN  [d EXCEPT !.peers_torrents = @ \cup {[id |-> id, peer_id |-> peer, torrent_id |-> torrent]},
                !.last = id]

InsertFile(d, torrent) ==
  LET id == NextId(d.files)
  IN  [d EXCEPT !.files = @ \cup {[id |-> id, torrent_id |-> torrent]}, !.last = id]

(* A rollback restores the tables and not last_insert_rowid. *)
Rollback(d, e) == [d EXCEPT !.last = e.last]
RolledBack(d, steps) == {Rollback(d, e) : e \in steps}

-----------------------------------------------------------------------------
(***************************************************************************)
(* What the methods do to the database                                     *)
(***************************************************************************)

(* SavePeer's statements: the peer, its LastInsertId, the torrent with a   *)
(* null name, its LastInsertId.                                            *)
PeerRow(d, a) == InsertPeer(d, a)
PendingRow(d, a, ih) == InsertTorrent(PeerRow(d, a), ih, FALSE)

\* Mutant of PeerIdValid: foreign_keys is off.
PeerIdValidOff(d, a) == TRUE

(* The foreign key check of peers_torrents: is there a peer with the id    *)
(* that LastInsertId reported?                                             *)
PeerIdValid(d, a) == \E p \in PeerRow(d, a).peers : p.id = PeerRow(d, a).last

\* Mutant of SavedPeer: no transaction, the statements before the error stay.
SavedPeerNoTx(d, a, ih) ==
  LET e == PendingRow(d, a, ih)
  IN  IF PeerIdValid(d, a)
        THEN InsertPeerTorrent(e, PeerRow(d, a).last, e.last)
        ELSE e

SavedPeer(d, a, ih) ==
  LET e == PendingRow(d, a, ih)
  IN  IF PeerIdValid(d, a)
        THEN InsertPeerTorrent(e, PeerRow(d, a).last, e.last)
        ELSE Rollback(d, e)

(* SaveTorrent: the torrent, then every tag with its link, then a file. *)
AddTag(d, tag, torrent) ==
  LET e == InsertTag(d, tag) IN InsertTagTorrent(e, e.last, torrent)

AddTags(d, tags, torrent) ==
  LET after[i \in 0 .. Len(tags)] ==
        IF i = 0 THEN d ELSE AddTag(after[i - 1], tags[i], torrent)
  IN  after[Len(tags)]

\* Mutant of SavedTorrent: the file's torrent is the last id, of any table.
SavedTorrentLastId(d, ih, tags, withFiles) ==
  LET e      == InsertTorrent(d, ih, TRUE)
      tagged == AddTags(e, tags, e.last)
  IN  IF withFiles THEN InsertFile(tagged, tagged.last) ELSE tagged

SavedTorrent(d, ih, tags, withFiles) ==
  LET e      == InsertTorrent(d, ih, TRUE)
      tagged == AddTags(e, tags, e.last)
  IN  IF withFiles THEN InsertFile(tagged, e.last) ELSE tagged

(* The databases at which an error can end the transactions: before and    *)
(* after each statement, the commit included.                              *)
PeerSteps(d, a, ih) ==
  {d, PeerRow(d, a), PendingRow(d, a, ih), SavedPeer(d, a, ih)}

TorrentSteps(d, ih, tags) ==
  LET e       == InsertTorrent(d, ih, TRUE)
      upTo(i) == AddTags(e, SubSeq(tags, 1, i), e.last)
  IN  {d, SavedTorrent(d, ih, tags, TRUE)}
        \cup {upTo(i) : i \in 0 .. Len(tags)}
        \cup {InsertTag(upTo(i - 1), tags[i]) : i \in 1 .. Len(tags)}

(* The join of peers_torrents and peers. *)
PeersOf(d, t) ==
  {p.address : p \in {q \in d.peers :
     \E r \in d.peers_torrents : r.peer_id = q.id /\ r.torrent_id = t.id}}

RemovedTorrent(d, ih) == DeleteTorrents(d, {t \in d.torrents : t.infohash = ih})

\* Mutant of RemovedPeer: the torrents of the peer go with it.
RemovedPeerAndTorrents(d, a) ==
  DeletePeers(DeleteTorrents(d, {t \in d.torrents : a \in PeersOf(d, t)}),
              {p \in d.peers : p.address = a})

RemovedPeer(d, a) == DeletePeers(d, {p \in d.peers : p.address = a})

(* selectPendingInfohashes: one row per infohash without a name and with a *)
(* peer, in the order of the infohashes, at most n.                        *)
Pending(d) == {t \in d.torrents : ~t.named /\ PeersOf(d, t) # {}}

\* Mutant of PendingInfohashes: the limit counts links, not infohashes.
PendingInfohashesOfLinks(d, n) ==
  {[addr |-> Max(PeersOf(d, t)), ih |-> t.infohash] :
     t \in {u \in Pending(d) :
              Cardinality({r \in d.peers_torrents : r.torrent_id < u.id}) < n}}

PendingInfohashes(d, n) ==
  {[addr |-> Max(PeersOf(d, t)), ih |-> t.infohash] :
     t \in {u \in Pending(d) :
              Cardinality({v \in Pending(d) : v.infohash < u.infohash}) < n}}

-----------------------------------------------------------------------------
(***************************************************************************)
(* The methods                                                             *)
(***************************************************************************)

(* The bound of the model. *)
Fits(d) == \A t \in Tables : \A r \in d[t] : r.id <= IdBound

SavePeer(a, ih) ==
  /\ db' = SavedPeer(db, a, ih) /\ Fits(db')
  /\ call' = Call("SavePeer", IF PeerIdValid(db, a) THEN <<a, ih>> ELSE 0, PeerIdValid(db, a))

(* A statement of the transaction fails (locked, disk): rollback. *)
SavePeerFails(a, ih) ==
  /\ db' \in RolledBack(db, PeerSteps(db, a, ih))
  /\ call' = Call("SavePeer", 0, FALSE)

SaveTorrent(ih, tags, withFiles) ==
  /\ db' = SavedTorrent(db, ih, tags, withFiles) /\ Fits(db')
  /\ call' = Call("SaveTorrent", ih, TRUE)

SaveTorrentFails(ih, tags) ==
  /\ db' \in RolledBack(db, TorrentSteps(db, ih, tags))
  /\ call' = Call("SaveTorrent", 0, FALSE)

(* RemoveTorrent returns an error whatever happens. *)
RemoveTorrent(ih) ==
  /\ db' = RemovedTorrent(db, ih)
  /\ call' = Call("RemoveTorrent", 0, FALSE)

RemovePeer(a) ==
  /\ db' = RemovedPeer(db, a)
  /\ call' = Call("RemovePeer", 0, TRUE)

SaveTag(tag) ==
  /\ db' = InsertTag(db, tag) /\ Fits(db')
  /\ call' = Call("SaveTag", 0, TRUE)

(* fetchTorrents gives up on the first row: Scan wants the six columns of  *)
(* its arguments, and times for the last two; go-sqlite3 makes no time of  *)
(* a column that is declared "timestamp with time zone".                   *)
ScanColumns == 6
TimesScan == FALSE
FetchTorrents(rows, columns) == rows = {} \/ (columns = ScanColumns /\ TimesScan)

(* select * has the tsv column too; torrents[0] panics without a row, and  *)
(* the deferred RUnlock gives the lock back.                               *)
TorrentByHash(ih) ==
  /\ LET rows == {t \in db.torrents : t.infohash = ih}
     IN  call' = Call("search", 0, rows # {} /\ FetchTorrents(rows, 7))
  /\ UNCHANGED db

(* FTS5 has no % in a query: match '%...%' is a syntax error. *)
TorrentsByName ==
  /\ call' = Call("search", 0, FALSE)
  /\ UNCHANGED db

TorrentsByTag(tag) ==
  /\ LET rows == {t \in db.torrents : \E r \in db.tags_torrents, g \in db.tags :
                    r.torrent_id = t.id /\ r.tag_id = g.id /\ g.name = tag}
     IN  call' = Call("search", 0, FetchTorrents(rows, 6))
  /\ UNCHANGED db

(* The process restarts on a database file: NewStore finds user_version 1. *)
Reopen ==
  /\ db' = [db EXCEPT !.last = 0]
  /\ call' = Call("NewStore", 0, TRUE)

Next ==
  \/ \E a \in Address, ih \in Infohash : SavePeer(a, ih) \/ SavePeerFails(a, ih)
  \/ \E ih \in Infohash, tags \in TagLists :
       (\E f \in BOOLEAN : SaveTorrent(ih, tags, f)) \/ SaveTorrentFails(ih, tags)
  \/ \E ih \in Infohash : RemoveTorrent(ih)
  \/ \E a \in Address : RemovePeer(a)
  \/ \E tag \in Tag : SaveTag(tag) \/ TorrentsByTag(tag)
  \/ \E ih \in Infohash : TorrentByHash(ih)
  \/ TorrentsByName
  \/ Reopen

Spec == Init /\ [][Next]_vars

-----------------------------------------------------------------------------
(***************************************************************************)
(* Properties                                                              *)
(***************************************************************************)

(* The tables' columns, with ids from the set I. *)
DbType(I) ==
  [torrents : SUBSET [id : I, infohash : Infohash, named : BOOLEAN],
   peers : SUBSET [id : I, address : Address],
   peers_torrents : SUBSET [id : I, peer_id : I, torrent_id : I],
   tags : SUBSET [id : I, name : Tag],
   tags_torrents : SUBSET [id : I, tag_id : I, torrent_id : I],
   files : SUBSET [id : I, torrent_id : I],
   last : Nat]

TypeOK == db \in DbType(1 .. IdBound)

Ids(rows) == {r.id : r \in rows}

ForeignKeys(d) ==
  /\ \A r \in d.peers_torrents : r.peer_id \in Ids(d.peers) /\ r.torrent_id \in Ids(d.torrents)
  /\ \A r \in d.tags_torrents : r.tag_id \in Ids(d.tags) /\ r.torrent_id \in Ids(d.torrents)
  /\ \A r \in d.files : r.torrent_id \in Ids(d.torrents)

(***************************************************************************)
(* No row refers to a row that is gone, although REPLACE deletes behind    *)
(* the methods' back and SavePeer links ids it did not look up.            *)
(***************************************************************************)
Integrity == ForeignKeys(db)

(***************************************************************************)
(* A SavePeer or SaveTorrent that reports an error has changed no table.   *)
(***************************************************************************)
ErrorChangesNothing ==
  [][call'.method \in {"SavePeer", "SaveTorrent"} /\ ~call'.ok =>
       \A t \in Tables : db'[t] = db[t]]_vars

NoPeer == -1
StatusOf(d, ih) ==
  LET rows == {t \in d.torrents : t.infohash = ih}
  IN  IF rows = {} THEN "absent" ELSE IF \E t \in rows : t.named THEN "indexed" ELSE "pending"
LinkedTo(d, ih) == UNION {PeersOf(d, t) : t \in {u \in d.torrents : u.infohash = ih}}
PeerOf(d, ih) == Max({NoPeer} \cup LinkedTo(d, ih))

Abstract == INSTANCE TorrentStore WITH
  torrents <- [ih \in Infohash |-> StatusOf(db, ih)],
  peers <- {p.address : p \in db.peers},
  peerOf <- [ih \in Infohash |-> PeerOf(db, ih)]

(***************************************************************************)
(* The tables, the transactions and the stale last_insert_rowid together   *)
(* are the store that the crawler is built on.                             *)
(***************************************************************************)
ImplementsStore == Abstract!StoreSpec

(***************************************************************************)
(* selectPendingInfohashes, a join with group by, max and limit, returns   *)
(* what the crawler expects of PendingInfohashes, for every limit.         *)
(***************************************************************************)
QueryAgrees ==
  \A n \in 1 .. Cardinality(Infohash) :
    \E s \in Abstract!PendingInfohashes(n) : PendingInfohashes(db, n) = {s[i] : i \in DOMAIN s}

TagsOf(d, ih) ==
  {g.name : g \in {u \in d.tags : \E r \in d.tags_torrents, t \in d.torrents :
     r.tag_id = u.id /\ r.torrent_id = t.id /\ t.infohash = ih}}
HasFiles(d, ih) ==
  \E f \in d.files, t \in d.torrents : f.torrent_id = t.id /\ t.infohash = ih

(***************************************************************************)
(* SaveTorrent carries three ids of last_insert_rowid from statement to    *)
(* statement, of tables that count alike: the tags and the files it writes *)
(* are found under the infohash that was saved, none that an earlier save  *)
(* left there, and under no other.                                         *)
(***************************************************************************)
SavedWhole ==
  [][call'.method = "SaveTorrent" /\ call'.ok =>
       LET ih == call'.arg
       IN  \A tags \in TagLists, f \in BOOLEAN : SaveTorrent(ih, tags, f) =>
             /\ TagsOf(db', ih) = {tags[i] : i \in DOMAIN tags}
             /\ HasFiles(db', ih) <=> f
             /\ \A other \in Infohash \ {ih} :
                  /\ TagsOf(db', other) \subseteq TagsOf(db, other)
                  /\ HasFiles(db', other) <=> HasFiles(db, other)]_vars

(***************************************************************************)
(* "enabling indexing and later searching" (README.md): a torrent that was *)
(* indexed stays so until it is removed.                                   *)
(***************************************************************************)
Named(d) == {t.infohash : t \in {u \in d.torrents : u.named}}
IndexedStaysIndexed ==
  [][call'.method # "RemoveTorrent" => Named(db) \subseteq Named(db')]_vars

(***************************************************************************)
(* "Filtering can be done by tags" (README.md): saving a torrent takes no  *)
(* tag away from another one.                                              *)
(***************************************************************************)
TagsKept ==
  [][call'.method = "SaveTorrent" =>
       \A ih \in Infohash \ {call'.arg} : TagsOf(db, ih) \subseteq TagsOf(db', ih)]_vars

(***************************************************************************)
(* "keeping track of interesting packets.  The most interesting packets    *)
(* are those where another node announces they have a torrent available"   *)
(* (README.md): once SavePeer has returned no error, the store links the   *)
(* peer to the infohash it announced.                                      *)
(***************************************************************************)
AnnouncementStored ==
  [][call'.method = "SavePeer" /\ call'.ok =>
       \E t \in db'.torrents : /\ t.infohash = call'.arg[2]
                               /\ call'.arg[1] \in PeersOf(db', t)]_vars
=============================================================================
