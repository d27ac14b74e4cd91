--------------------------- MODULE CrawlerProofs ---------------------------
(***************************************************************************)
(* Proofs about Crawler, for any number of workers, announcements,         *)
(* infohashes and addresses.  The inductive invariant is the conjunction   *)
(* of TypeOK, HandOver, PeersKnown and SkippedOut, cut in two along the variables they *)
(* speak of: StoreInv (the tables) and ControlInv (caches, goroutines and  *)
(* channels).  A step of a goroutine changes the store by one method or    *)
(* not at all, so the lemmas about the methods settle StoreInv.            *)
(***************************************************************************)
EXTENDS Crawler, FiniteSetTheorems, SequenceTheorems, TLAPS

(* onNewTorrent saves no torrent with a tag of skipTags. *)
SkippedOut == \A ih \in Skipped : torrents[ih] # "indexed"

StoreInv ==
  /\ torrents \in [Infohash -> {"absent", "pending", "indexed"}]
  /\ peers \subseteq Address
  /\ peerOf \in [Infohash -> Address \cup {NoPeer}]
  /\ PeersKnown
  /\ SkippedOut

ControlInv ==
  /\ ihBlacklist \subseteq Infohash /\ peerBlacklist \subseteq Address
  /\ callback \in [Callback -> {Idle} \cup [pc : {"check", "save"}, peer : Peer]]
  /\ badPeer \subseteq Address
  /\ pool \in {"nil", "made"}
  /\ dpc \in {"query", "select", "receive", "send", "nil"}
  /\ todo \in Seq(Peer)
  /\ chosen \in Worker \cup {NoWorker}
  /\ wpc \in [Worker -> {"unborn", "ready", "await", "fetch", "bad", "ban", "new", "drop"}]
  /\ job \in [Worker -> Peer \cup {Nothing}]
  /\ HandOver

-----------------------------------------------------------------------------
(***************************************************************************)
(* The store's methods preserve StoreInv.                                  *)
(***************************************************************************)
LEMMA SavePeerInv ==
  ASSUME StoreInv, NEW a \in Address, NEW ih \in Infohash, SavePeer(a, ih)
  PROVE  StoreInv'
<1>1. PICK b \in (IF a \in peers THEN peers ELSE {a}) : peerOf' = [peerOf EXCEPT ![ih] = b]
  BY DEF SavePeer
<1>2. b \in Address /\ b \in peers'
  BY DEF SavePeer, StoreInv
<1> QED
  BY <1>1, <1>2 DEF SavePeer, StoreInv, PeersKnown, SkippedOut

LEMMA SaveTorrentInv ==
  ASSUME StoreInv, NEW ih \in Infohash \ Skipped, SaveTorrent(ih)
  PROVE  StoreInv'
BY CrawlerAssumption DEF SaveTorrent, StoreInv, PeersKnown, SkippedOut

LEMMA RemoveTorrentInv ==
  ASSUME StoreInv, NEW ih \in Infohash, RemoveTorrent(ih)
  PROVE  StoreInv'
BY CrawlerAssumption DEF RemoveTorrent, StoreInv, PeersKnown, SkippedOut

LEMMA RemovePeerInv ==
  ASSUME StoreInv, NEW a \in Address, RemovePeer(a)
  PROVE  StoreInv'
BY DEF RemovePeer, StoreInv, PeersKnown, SkippedOut

LEMMA StoreUnchanged ==
  ASSUME StoreInv, UNCHANGED store
  PROVE  StoreInv'
BY DEF store, StoreInv, PeersKnown, SkippedOut

-----------------------------------------------------------------------------
(***************************************************************************)
(* Adding to an ARC cache.                                                 *)
(***************************************************************************)
LEMMA CachedSubset ==
  ASSUME NEW S, NEW cache \in SUBSET S, NEW x \in S, NEW c \in Cached(cache, x)
  PROVE  c \subseteq S
BY DEF Cached

(***************************************************************************)
(* What PendingInfohashes returns is a sequence of peers.                  *)
(***************************************************************************)
LEMMA PendingTyped ==
  ASSUME NEW s \in PendingInfohashes(Limit)
  PROVE  s \in Seq(Peer)
<1> DEFINE k == IF Cardinality(Pending) < Limit THEN Cardinality(Pending) ELSE Limit
<1>1. Cardinality(Pending) \in Nat
  <2>1. Pending \subseteq Infohash
    BY DEF Pending
  <2> QED
    BY <2>1, TorrentStoreAssumption, FS_Subset, FS_CardinalityType
<1>2. k \in Nat
  BY <1>1, CrawlerAssumption
<1>3. s \in [1 .. k -> [addr : Address, ih : Pending]]
  BY DEF PendingInfohashes
<1>4. s \in [1 .. k -> Peer]
  BY <1>3 DEF Peer, Pending
<1> QED
  BY <1>2, <1>4

(***************************************************************************)
(* A worker that is busy has a peer.                                       *)
(***************************************************************************)
LEMMA BusyHasPeer ==
  ASSUME ControlInv, NEW w \in Worker, wpc[w] \in {"fetch", "bad", "ban", "new", "drop"}
  PROVE  job[w] \in Peer /\ job[w].addr \in Address /\ job[w].ih \in Infohash
BY DEF ControlInv, HandOver, Peer

LEMMA NothingIsNoPeer == Nothing \notin Peer
BY TorrentStoreAssumption DEF Nothing, Peer

-----------------------------------------------------------------------------
(***************************************************************************)
(* The steps and ControlInv                                                *)
(***************************************************************************)
LEMMA ControlDHT ==
  ASSUME ControlInv, DHT
  PROVE  ControlInv'
<1>1. ASSUME NEW c \in Callback, NEW src \in Address, NEW p \in Peer, Announce(c, src, p)
      PROVE  ControlInv'
  BY <1>1 DEF Announce, ControlInv, HandOver, dispatcherVars, workerVars
<1>2. ASSUME NEW c \in Callback, CheckBlacklist(c) \/ SaveAnnounced(c)
      PROVE  ControlInv'
  <2>1. callback' \in [Callback -> {Idle} \cup [pc : {"check", "save"}, peer : Peer]]
    <3>1. callback[c] \in [pc : {"check", "save"}, peer : Peer]
      BY <1>2 DEF CheckBlacklist, SaveAnnounced, ControlInv, Idle
    <3>2. [callback[c] EXCEPT !.pc = "save"] \in [pc : {"check", "save"}, peer : Peer]
      BY <3>1
    <3> QED
      BY <1>2, <3>2 DEF CheckBlacklist, SaveAnnounced, ControlInv
  <2> QED
    BY <1>2, <2>1 DEF CheckBlacklist, SaveAnnounced, ControlInv, HandOver, dispatcherVars, workerVars
<1>3. ASSUME NEW a \in Address, WriteFailed(a)
      PROVE  ControlInv'
  <2>1. peerBlacklist' \subseteq Address
    BY <1>3, CachedSubset DEF WriteFailed, ControlInv
  <2> QED
    BY <1>3, <2>1 DEF WriteFailed, ControlInv, HandOver, dispatcherVars, workerVars
<1>4. ASSUME NEW a \in Address, RemoveBad(a)
      PROVE  ControlInv'
  BY <1>4 DEF RemoveBad, ControlInv, HandOver, dispatcherVars, workerVars
<1> QED
  BY <1>1, <1>2, <1>3, <1>4 DEF DHT

LEMMA ControlDispatcher ==
  ASSUME ControlInv, Dispatcher
  PROVE  ControlInv'
<1>1. CASE Query
  <2>1. todo' \in Seq(Peer)
    BY <1>1, PendingTyped DEF Query
  <2> QED
    BY <1>1, <2>1 DEF Query, ControlInv, HandOver, dhtVars, workerVars
<1>2. CASE Select
  BY <1>2 DEF Select, ControlInv, HandOver, dhtVars, workerVars
<1>3. ASSUME NEW w \in Worker, Receive(w)
      PROVE  ControlInv'
  BY <1>3 DEF Receive, ControlInv, HandOver, dhtVars
<1>4. ASSUME NEW w \in Worker, Send(w)
      PROVE  ControlInv'
  <2>1. todo \in Seq(Peer) /\ todo # << >> /\ wpc[w] = "await"
    BY <1>4 DEF Send, ControlInv, HandOver
  <2>2. Head(todo) \in Peer /\ Tail(todo) \in Seq(Peer)
    BY <2>1
  <2>3. Len(todo) # 1 => Tail(todo) # << >>
    <3>1. Len(todo) \in Nat /\ Len(todo) # 0
      BY <2>1, EmptySeq
    <3>2. Len(Tail(todo)) = Len(todo) - 1
      BY <2>1, HeadTailProperties
    <3>3. Tail(todo) = << >> => Len(Tail(todo)) = 0
      BY EmptySeq, Zenon
    <3>4. \A n \in Nat : n - 1 = 0 => n = 1
      OBVIOUS
    <3> QED
      BY <3>1, <3>2, <3>3, <3>4, Zenon
  <2>4. /\ wpc' \in [Worker -> {"unborn", "ready", "await", "fetch", "bad", "ban", "new", "drop"}]
        /\ job' \in [Worker -> Peer \cup {Nothing}]
    BY <1>4, <2>2 DEF Send, ControlInv
  <2>5. HandOver'
    <3>1. \A v \in Worker : wpc'[v] = "await" <=> (dpc' = "send" /\ chosen' = v)
      BY <1>4 DEF Send, ControlInv, HandOver
    <3>2. dpc' \in {"select", "receive", "send", "nil"} => todo' # << >>
      BY <1>4, <2>3 DEF Send
    <3>3. \A v \in Worker : job'[v] = Nothing <=> wpc'[v] \in {"unborn", "ready", "await"}
      BY <1>4, <2>1, <2>2, NothingIsNoPeer DEF Send, ControlInv, HandOver
    <3> QED
      BY <3>1, <3>2, <3>3 DEF HandOver
  <2> QED
    BY <1>4, <2>2, <2>4, <2>5 DEF Send, ControlInv, dhtVars
<1> QED
  BY <1>1, <1>2, <1>3, <1>4 DEF Dispatcher

LEMMA ControlWorker ==
  ASSUME ControlInv, NEW w \in Worker, StartWorker(w) \/ Fetched(w) \/ Handled(w)
  PROVE  ControlInv'
<1>1. CASE StartWorker(w)
  BY <1>1, NothingIsNoPeer DEF StartWorker, ControlInv, HandOver, dhtVars, dispatcherVars
<1>2. CASE FetchFails(w) \/ Loaded(w)
  BY <1>2 DEF FetchFails, Loaded, ControlInv, HandOver, dhtVars, dispatcherVars
<1>3. CASE NotLoaded(w)
  BY <1>3 DEF NotLoaded, BackToPool, ControlInv, HandOver, dhtVars, dispatcherVars
<1>4. CASE RemoveJobPeer(w)
  BY <1>4 DEF RemoveJobPeer, ControlInv, HandOver, dhtVars, dispatcherVars
<1>5. CASE BanPeer(w)
  <2>1. peerBlacklist' \subseteq Address
    BY <1>5, CachedSubset, BusyHasPeer DEF BanPeer, ControlInv
  <2> QED
    BY <1>5, <2>1 DEF BanPeer, BackToPool, ControlInv, HandOver, dhtVars, dispatcherVars
<1>6. CASE Index(w)
  BY <1>6 DEF Index, BackToPool, ControlInv, HandOver, dhtVars, dispatcherVars
<1>7. CASE Reject(w)
  <2>1. ihBlacklist' \subseteq Infohash
    BY <1>7, CachedSubset, BusyHasPeer DEF Reject, ControlInv
  <2> QED
    BY <1>7, <2>1 DEF Reject, ControlInv, HandOver, dhtVars, dispatcherVars
<1>8. CASE Drop(w)
  BY <1>8 DEF Drop, BackToPool, ControlInv, HandOver, dhtVars, dispatcherVars
<1> QED
  BY <1>1, <1>2, <1>3, <1>4, <1>5, <1>6, <1>7, <1>8 DEF Fetched, Handled

-----------------------------------------------------------------------------
(***************************************************************************)
(* The steps and StoreInv                                                  *)
(***************************************************************************)
LEMMA StoreStep ==
  ASSUME StoreInv, ControlInv, [Next]_vars
  PROVE  StoreInv'
<1>1. ASSUME NEW c \in Callback, SaveAnnounced(c)
      PROVE  StoreInv'
  <2>1. callback[c].peer.addr \in Address /\ callback[c].peer.ih \in Infohash
    BY <1>1 DEF SaveAnnounced, ControlInv, Idle, Peer
  <2> QED
    BY <1>1, <2>1, SavePeerInv, StoreUnchanged DEF SaveAnnounced, StoreError
<1>2. ASSUME NEW a \in Address, RemoveBad(a)
      PROVE  StoreInv'
  BY <1>2, RemovePeerInv, StoreUnchanged DEF RemoveBad, StoreError
<1>3. ASSUME NEW w \in Worker, RemoveJobPeer(w)
      PROVE  StoreInv'
  <2>1. job[w].addr \in Address
    BY <1>3, BusyHasPeer DEF RemoveJobPeer
  <2> QED
    BY <1>3, <2>1, RemovePeerInv, StoreUnchanged DEF RemoveJobPeer, StoreError
<1>4. ASSUME NEW w \in Worker, Index(w)
      PROVE  StoreInv'
  <2>1. job[w].ih \in Infohash \ Skipped
    BY <1>4, BusyHasPeer DEF Index
  <2> QED
    BY <1>4, <2>1, SaveTorrentInv DEF Index
<1>5. ASSUME NEW w \in Worker, Drop(w)
      PROVE  StoreInv'
  <2>1. job[w].ih \in Infohash
    BY <1>5, BusyHasPeer DEF Drop
  <2> QED
    BY <1>5, <2>1, RemoveTorrentInv, StoreUnchanged DEF Drop, StoreError
<1>6. CASE UNCHANGED store
  BY <1>6, StoreUnchanged
<1> QED
  BY <1>1, <1>2, <1>3, <1>4, <1>5, <1>6
  DEF Next, DHT, Dispatcher, Fetched, Handled, vars, Announce, CheckBlacklist, WriteFailed,
      Query, Select, Receive, Send, MakePool, StartWorker, FetchFails, NotLoaded, Loaded,
      BanPeer, Reject, Restart

-----------------------------------------------------------------------------
(***************************************************************************)
(* The inductive invariant                                                 *)
(***************************************************************************)
LEMMA InitInv ==
  ASSUME Init
  PROVE  StoreInv /\ ControlInv
<1>1. StoreInv
  BY DEF Init, StoreInit, StoreInv, PeersKnown, SkippedOut, Skipped
<1>2. ControlInv
  BY CrawlerAssumption DEF Init, ControlInv, HandOver
<1> QED
  BY <1>1, <1>2

LEMMA NextInv ==
  ASSUME StoreInv, ControlInv, [Next]_vars
  PROVE  StoreInv' /\ ControlInv'
<1>1. ASSUME MakePool
      PROVE  ControlInv'
  BY <1>1 DEF MakePool, ControlInv, HandOver, dhtVars, dispatcherVars, workerVars
<1>2. ASSUME UNCHANGED vars
      PROVE  ControlInv'
  BY <1>2 DEF vars, ControlInv, HandOver, dhtVars, dispatcherVars, workerVars
<1>3. ASSUME Restart
      PROVE  ControlInv'
  <2>1. << >> \in Seq(Peer)
    OBVIOUS
  <2> QED
    BY <1>3, <2>1, CrawlerAssumption DEF Restart, ControlInv, HandOver
<1>4. ControlInv'
  BY <1>1, <1>2, <1>3, ControlDHT, ControlDispatcher, ControlWorker DEF Next
<1> QED
  BY <1>4, StoreStep

(***************************************************************************)
(* The invariant holds in every reachable state of the crawler.            *)
(***************************************************************************)
THEOREM Invariance == Spec => [](StoreInv /\ ControlInv)
BY InitInv, NextInv, PTL DEF Spec

(***************************************************************************)
(* Type correctness of the state of main.go.                               *)
(***************************************************************************)
THEOREM TypeCorrect == Spec => []TypeOK
<1>1. StoreInv /\ ControlInv => TypeOK
  BY DEF StoreInv, ControlInv, TypeOK
<1> QED
  BY <1>1, Invariance, PTL

(***************************************************************************)
(* processPendingPeers and any number of workers never lose each other     *)
(* between the two rendezvous.                                             *)
(***************************************************************************)
THEOREM HandOverKept == Spec => []HandOver
<1>1. ControlInv => HandOver
  BY DEF ControlInv
<1> QED
  BY <1>1, Invariance, PTL

(***************************************************************************)
(* PendingInfohashes never hands out a peer that the store has removed.    *)
(***************************************************************************)
THEOREM PeersStayKnown == Spec => []PeersKnown
<1>1. StoreInv => PeersKnown
  BY DEF StoreInv
<1> QED
  BY <1>1, Invariance, PTL

-----------------------------------------------------------------------------
(***************************************************************************)
(* A worker removes a torrent only if it has to skip it or could not save  *)
(* it: the fact that LeavesIndexOnly needs besides the invariant.          *)
(***************************************************************************)
DropInv == \A w \in Worker : wpc[w] = "drop" => job[w].ih \in Skipped \/ StoreFails

LEMMA DropStep ==
  ASSUME ControlInv, DropInv, [Next]_vars
  PROVE  DropInv'
<1>1. ASSUME NEW w \in Worker, Reject(w)
      PROVE  DropInv'
  BY <1>1 DEF Reject, DropInv, ControlInv
<1>2. ASSUME NEW w \in Worker, StartWorker(w) \/ FetchFails(w) \/ Loaded(w) \/ RemoveJobPeer(w)
      PROVE  DropInv'
  BY <1>2 DEF StartWorker, FetchFails, Loaded, RemoveJobPeer, DropInv, ControlInv
<1>3. ASSUME NEW w \in Worker, NotLoaded(w) \/ BanPeer(w) \/ Index(w) \/ Drop(w)
      PROVE  DropInv'
  BY <1>3 DEF NotLoaded, BanPeer, Index, Drop, BackToPool, DropInv, ControlInv
<1>4. ASSUME NEW w \in Worker, Receive(w) \/ Send(w)
      PROVE  DropInv'
  BY <1>4 DEF Receive, Send, DropInv, ControlInv
<1>5. CASE Restart
  BY <1>5 DEF Restart, DropInv
<1>6. CASE UNCHANGED workerVars
  BY <1>6 DEF workerVars, DropInv
<1> QED
  BY <1>1, <1>2, <1>3, <1>4, <1>5, <1>6
  DEF Next, DHT, Dispatcher, Fetched, Handled, vars, Announce, CheckBlacklist, SaveAnnounced,
      WriteFailed, RemoveBad, Query, Select, MakePool

(***************************************************************************)
(* One step takes an infohash out of the index only where LeavesIndexOnly  *)
(* says.                                                                   *)
(***************************************************************************)
LEMMA IndexStep ==
  ASSUME StoreInv, ControlInv, DropInv, [Next]_vars, NEW ih \in Infohash,
         torrents[ih] = "indexed", torrents'[ih] # "indexed"
  PROVE  AnnouncedAgain(ih) \/ RemovedByLater(ih)
<1>1. ASSUME NEW c \in Callback, SaveAnnounced(c)
      PROVE  AnnouncedAgain(ih)
  <2>1. callback[c].peer.ih = ih /\ torrents'[ih] = "pending"
    BY <1>1 DEF SaveAnnounced, SavePeer, StoreError, store, StoreInv
  <2> QED
    BY <1>1, <2>1 DEF SaveAnnounced, AnnouncedAgain, ControlInv
<1>2. ASSUME NEW w \in Worker, Drop(w)
      PROVE  RemovedByLater(ih)
  <2>1. wpc[w] = "drop" /\ job[w].ih = ih /\ torrents'[ih] = "absent"
    BY <1>2 DEF Drop, RemoveTorrent, StoreError, store, StoreInv
  <2>2. ih \notin Skipped
    BY DEF StoreInv, SkippedOut
  <2>3. wpc'[w] = "ready"
    BY <1>2 DEF Drop, BackToPool, ControlInv
  <2> QED
    BY <2>1, <2>2, <2>3 DEF DropInv, RemovedByLater
<1>3. ASSUME NEW w \in Worker, Index(w)
      PROVE  FALSE
  BY <1>3 DEF Index, SaveTorrent, StoreInv
<1>4. ASSUME NEW a \in Address, RemoveBad(a)
      PROVE  FALSE
  BY <1>4 DEF RemoveBad, RemovePeer, StoreError, store
<1>5. ASSUME NEW w \in Worker, RemoveJobPeer(w)
      PROVE  FALSE
  BY <1>5 DEF RemoveJobPeer, RemovePeer, StoreError, store
<1>6. CASE UNCHANGED store
  BY <1>6 DEF store
<1> QED
  BY <1>1, <1>2, <1>3, <1>4, <1>5, <1>6
  DEF Next, DHT, Dispatcher, Fetched, Handled, vars, Announce, CheckBlacklist, WriteFailed,
      Query, Select, Receive, Send, MakePool, StartWorker, FetchFails, NotLoaded, Loaded,
      BanPeer, Reject, Restart

(***************************************************************************)
(* An indexed torrent is lost through a new announcement or a failed save  *)
(* of a second worker, and in no other way, however many there are.        *)
(***************************************************************************)
THEOREM IndexKept == Spec => LeavesIndexOnly
<1>1. Init => DropInv
  BY DEF Init, DropInv
<1>2. StoreInv /\ ControlInv /\ DropInv /\ [Next]_vars => DropInv'
  BY DropStep
<1>3. StoreInv /\ ControlInv /\ DropInv /\ [Next]_vars =>
        [\A ih \in Infohash : torrents[ih] = "indexed" /\ torrents'[ih] # "indexed" =>
           AnnouncedAgain(ih) \/ RemovedByLater(ih)]_vars
  BY IndexStep
<1> QED
  BY <1>1, <1>2, <1>3, Invariance, PTL DEF Spec, LeavesIndexOnly

-----------------------------------------------------------------------------
(***************************************************************************)
(* One step does not bring a rejected infohash back while the blacklist    *)
(* keeps it.                                                               *)
(***************************************************************************)
LEMMA RejectedStep ==
  ASSUME StoreInv, ControlInv, [Next]_vars, NEW ih \in Infohash, KeptOut(ih),
         ih \in ihBlacklist'
  PROVE  KeptOut(ih)'
<1> DEFINE Quiet == \A c \in Callback : callback'[c].pc = "save" => callback'[c].peer.ih # ih
           Out   == torrents'[ih] # "pending"
<1>1. Quiet
  <2>1. ASSUME NEW c \in Callback, NEW src \in Address, NEW p \in Peer, Announce(c, src, p)
        PROVE  Quiet
    BY <2>1 DEF Announce, KeptOut, ControlInv
  <2>2. ASSUME NEW c \in Callback, CheckBlacklist(c)
        PROVE  Quiet
    <3>1. ASSUME NEW b \in Callback, callback'[b].pc = "save"
          PROVE  callback'[b].peer.ih # ih
      <4>1. CASE b = c
        <5>1. callback[c].peer.ih \notin ihBlacklist
              /\ callback'[c] = [callback[c] EXCEPT !.pc = "save"]
          BY <2>2, <3>1, <4>1 DEF CheckBlacklist, ControlInv, Idle
        <5>2. callback[c] \in [pc : {"check", "save"}, peer : Peer]
          BY <2>2 DEF CheckBlacklist, ControlInv, Idle
        <5>3. callback'[c].peer = callback[c].peer
          BY <5>1, <5>2
        <5> QED
          BY <4>1, <5>1, <5>3 DEF KeptOut
      <4>2. CASE b # c
        BY <2>2, <3>1, <4>2 DEF CheckBlacklist, ControlInv, KeptOut
      <4> QED
        BY <4>1, <4>2
    <3> QED
      BY <3>1
  <2>3. ASSUME NEW c \in Callback, SaveAnnounced(c)
        PROVE  Quiet
    BY <2>3 DEF SaveAnnounced, KeptOut, ControlInv, Idle
  <2>4. CASE Restart
    BY <2>4 DEF Restart, Idle
  <2>5. CASE UNCHANGED callback
    BY <2>5 DEF KeptOut
  <2> HIDE DEF Quiet
  <2> QED
    BY <2>1, <2>2, <2>3, <2>4, <2>5
    DEF Next, DHT, Dispatcher, Fetched, Handled, vars, dhtVars, WriteFailed, RemoveBad,
        Query, Select, Receive, Send, MakePool, StartWorker, FetchFails, NotLoaded, Loaded,
        RemoveJobPeer, BanPeer, Index, Reject, Drop
<1>2. Out
  <2>1. ASSUME NEW c \in Callback, SaveAnnounced(c)
        PROVE  Out
    <3>1. callback[c].peer.ih # ih
      BY <2>1 DEF SaveAnnounced, KeptOut
    <3> QED
      BY <2>1, <3>1 DEF SaveAnnounced, SavePeer, StoreError, store, StoreInv, KeptOut
  <2>2. ASSUME NEW w \in Worker, Index(w)
        PROVE  Out
    BY <2>2 DEF Index, SaveTorrent, StoreInv, KeptOut
  <2>3. ASSUME NEW w \in Worker, Drop(w)
        PROVE  Out
    BY <2>3 DEF Drop, RemoveTorrent, StoreError, store, StoreInv, KeptOut
  <2>4. ASSUME NEW a \in Address, RemoveBad(a)
        PROVE  Out
    BY <2>4 DEF RemoveBad, RemovePeer, StoreError, store, KeptOut
  <2>5. ASSUME NEW w \in Worker, RemoveJobPeer(w)
        PROVE  Out
    BY <2>5 DEF RemoveJobPeer, RemovePeer, StoreError, store, KeptOut
  <2>6. CASE UNCHANGED store
    BY <2>6 DEF store, KeptOut
  <2> HIDE DEF Out
  <2> QED
    BY <2>1, <2>2, <2>3, <2>4, <2>5, <2>6
    DEF Next, DHT, Dispatcher, Fetched, Handled, vars, Announce, CheckBlacklist, WriteFailed,
        Query, Select, Receive, Send, MakePool, StartWorker, FetchFails, NotLoaded, Loaded,
        BanPeer, Reject, Restart
<1> QED
  BY <1>1, <1>2 DEF KeptOut

(***************************************************************************)
(* What onNewTorrent rejected and removed is not fetched again while the   *)
(* blacklist has it, for any number of callbacks and workers.              *)
(***************************************************************************)
THEOREM RejectedKeptOut == Spec => RejectedStaysOut
<1>1. StoreInv /\ ControlInv /\ [Next]_vars =>
        [\A ih \in Infohash : KeptOut(ih) => KeptOut(ih)' \/ ih \notin ihBlacklist']_vars
  BY RejectedStep
<1> QED
  BY <1>1, Invariance, PTL DEF Spec, RejectedStaysOut
=============================================================================
