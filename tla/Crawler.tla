------------------------------ MODULE Crawler ------------------------------
(***************************************************************************)
(* cmd/dhtsearch/main.go with the loop of bt/worker.go: how announcements  *)
(* become indexed torrents.  The goroutines are                            *)
(*   - one per announcement (SetOnAnnouncePeer's callback) and one per     *)
(*     failed write (SetOnBadPeer's), started by the DHT nodes;            *)
(*   - startBTWorkers, which makes the channel pool and starts the workers;*)
(*   - processPendingPeers, the dispatcher;                                *)
(*   - the BitTorrent workers (Worker.Run with onNewTorrent, onBadPeer).   *)
(* They share the store, two ARC caches and the variable pool, which the   *)
(* dispatcher reads without synchronisation: a nil channel blocks forever. *)
(*                                                                         *)
(* A store method is one step (it holds the store's lock), a cache         *)
(* operation is one step, and a rendezvous on an unbuffered channel is one *)
(* step of both goroutines.  Fetching is what MetadataFetch shows it to    *)
(* be: it ends, with metadata, with nothing or with an error.              *)
(***************************************************************************)
EXTENDS TorrentStore, Sequences

CONSTANTS
  Worker,    \* btNodes of them
  NoWorker,
  Callback,  \* bound of the model: announcement goroutines at a time
  Tag,       \* the keys of tagREs
  Match,     \* the texts that each tag's regular expression matches
  Texts,     \* the name and the file paths of each infohash's torrent
  SkipTags,  \* the parts of the flag skip-tags, which need not be tags
  Limit,     \* the 10 of PendingInfohashes(10)
  CacheCap,  \* entries of either ARC cache: 1000
  StoreFails \* whether the store's methods may return an error

ASSUME CrawlerAssumption ==
  /\ Limit \in Nat \ {0} /\ CacheCap \in Nat \ {0}
  /\ Worker # {} /\ NoWorker \notin Worker
  /\ StoreFails \in BOOLEAN

VARIABLES
  ihBlacklist, peerBlacklist,
  callback,   \* [Callback -> the announcement, and how far its goroutine is]
  badPeer,    \* addresses whose OnBadPeer goroutine has not run yet
  pool,       \* "nil" or "made"
  dpc,        \* dispatcher: "query", "select", "receive", "send", "nil"
  todo,       \* the rest of the peers that PendingInfohashes returned
  chosen,     \* the worker whose channel the dispatcher received
  wpc,        \* worker: "unborn", "ready" (sending on pool), "await",
              \* "fetch", "bad", "ban", "new", "drop"
  job         \* the peer that each worker has

dhtVars == <<callback, badPeer>>
dispatcherVars == <<dpc, todo, chosen>>
workerVars == <<wpc, job>>
vars == <<store, ihBlacklist, peerBlacklist, dhtVars, pool, dispatcherVars, workerVars>>

(* tagTorrent depends on the metadata only, and so on the infohash. *)
TagTorrent(ih) == {tag \in Tag : \E x \in Texts[ih] : x \in Match[tag]}
Skipped == {ih \in Infohash : TagTorrent(ih) \cap SkipTags # {}}

Nothing == [addr |-> NoPeer, ih |-> -1]
Peer == [addr : Address, ih : Infohash]
Idle == [pc |-> "idle", peer |-> Nothing]

Init ==
  /\ StoreInit
  /\ ihBlacklist = {} /\ peerBlacklist = {}
  /\ callback = [c \in Callback |-> Idle] /\ badPeer = {}
  /\ pool = "nil"
  /\ dpc = "query" /\ todo = << >> /\ chosen = NoWorker
  /\ wpc = [w \in Worker |-> "unborn"] /\ job = [w \in Worker |-> Nothing]

(* A store method returns an error that is at most logged. *)
StoreError == StoreFails /\ UNCHANGED store

(* lru.ARCCache.Add: a full cache gives up some other entry. *)
Cached(cache, x) ==
  IF x \in cache \/ Cardinality(cache) < CacheCap
    THEN {cache \cup {x}}
    ELSE {(cache \ {v}) \cup {x} : v \in cache}

-----------------------------------------------------------------------------
(***************************************************************************)
(* The callbacks of the DHT nodes                                          *)
(***************************************************************************)

(* onAnnouncePeerQuery of a node, for a packet from an address that        *)
(* processPacket did not find in the blacklist.  The peer's port may       *)
(* differ from the packet's (implied_port).                                *)
Announce(c, src, p) ==
  /\ callback[c] = Idle
  /\ src \notin peerBlacklist
  /\ callback' = [callback EXCEPT ![c] = [pc |-> "check", peer |-> p]]
  /\ UNCHANGED <<store, ihBlacklist, peerBlacklist, badPeer, pool, dispatcherVars, workerVars>>

\* Mutant of CheckBlacklist: the callback does not look for the infohash.
CheckNothing(c) ==
  /\ callback[c].pc = "check"
  /\ callback' = [callback EXCEPT ![c].pc = "save"]
  /\ UNCHANGED <<store, ihBlacklist, peerBlacklist, badPeer, pool, dispatcherVars, workerVars>>

CheckBlacklist(c) ==
  /\ callback[c].pc = "check"
  /\ callback' = [callback EXCEPT ![c] = IF @.peer.ih \in ihBlacklist
                                           THEN Idle ELSE [@ EXCEPT !.pc = "save"]]
  /\ UNCHANGED <<store, ihBlacklist, peerBlacklist, badPeer, pool, dispatcherVars, workerVars>>

(* SavePeer *)
SaveAnnounced(c) ==
  /\ callback[c].pc = "save"
  /\ SavePeer(callback[c].peer.addr, callback[c].peer.ih) \/ StoreError
  /\ callback' = [callback EXCEPT ![c] = Idle]
  /\ UNCHANGED <<ihBlacklist, peerBlacklist, badPeer, pool, dispatcherVars, workerVars>>

(* packetWriter could not write to an address. *)
WriteFailed(a) ==
  /\ peerBlacklist' \in Cached(peerBlacklist, a)
  /\ badPeer' = badPeer \cup {a}
  /\ UNCHANGED <<store, ihBlacklist, callback, pool, dispatcherVars, workerVars>>

RemoveBad(a) ==
  /\ a \in badPeer
  /\ RemovePeer(a) \/ StoreError
  /\ badPeer' = badPeer \ {a}
  /\ UNCHANGED <<ihBlacklist, peerBlacklist, callback, pool, dispatcherVars, workerVars>>

-----------------------------------------------------------------------------
(***************************************************************************)
(* startBTWorkers                                                          *)
(***************************************************************************)
MakePool ==
  /\ pool = "nil" /\ pool' = "made"
  /\ UNCHANGED <<store, ihBlacklist, peerBlacklist, dhtVars, dispatcherVars, workerVars>>

StartWorker(w) ==
  /\ pool = "made" /\ wpc[w] = "unborn"
  /\ wpc' = [wpc EXCEPT ![w] = "ready"]
  /\ UNCHANGED <<store, ihBlacklist, peerBlacklist, dhtVars, pool, dispatcherVars, job>>

-----------------------------------------------------------------------------
(***************************************************************************)
(* processPendingPeers                                                     *)
(***************************************************************************)
Query ==
  /\ dpc = "query"
  /\ todo' \in PendingInfohashes(Limit)
  /\ dpc' = IF todo' = << >> THEN "query" ELSE "select"
  /\ UNCHANGED <<store, ihBlacklist, peerBlacklist, dhtVars, pool, chosen, workerVars>>

(* The select statement evaluates pool once. *)
Select ==
  /\ dpc = "select"
  /\ dpc' = IF pool = "nil" THEN "nil" ELSE "receive"
  /\ UNCHANGED <<store, ihBlacklist, peerBlacklist, dhtVars, pool, todo, chosen, workerVars>>

Receive(w) ==
  /\ dpc = "receive" /\ wpc[w] = "ready"
  /\ dpc' = "send" /\ chosen' = w
  /\ wpc' = [wpc EXCEPT ![w] = "await"]
  /\ UNCHANGED <<store, ihBlacklist, peerBlacklist, dhtVars, pool, todo, job>>

\* Mutant of Send: the last peer is kept for the next round.
SendNotLast(w) ==
  /\ dpc = "send" /\ chosen = w
  /\ IF Len(todo) > 1
       THEN wpc' = [wpc EXCEPT ![w] = "fetch"] /\ job' = [job EXCEPT ![w] = Head(todo)]
       ELSE UNCHANGED workerVars
  /\ todo' = Tail(todo)
  /\ chosen' = NoWorker
  /\ dpc' = IF Len(todo) = 1 THEN "query" ELSE "select"
  /\ UNCHANGED <<store, ihBlacklist, peerBlacklist, dhtVars, pool>>

\* Mutant of Send: the dispatcher asks the store again after every peer.
SendFirstOnly(w) ==
  /\ dpc = "send" /\ chosen = w
  /\ wpc' = [wpc EXCEPT ![w] = "fetch"] /\ job' = [job EXCEPT ![w] = Head(todo)]
  /\ todo' = << >>
  /\ chosen' = NoWorker
  /\ dpc' = "query"
  /\ UNCHANGED <<store, ihBlacklist, peerBlacklist, dhtVars, pool>>

(* w <- *p *)
Send(w) ==
  /\ dpc = "send" /\ chosen = w
  /\ wpc' = [wpc EXCEPT ![w] = "fetch"] /\ job' = [job EXCEPT ![w] = Head(todo)]
  /\ todo' = Tail(todo)
  /\ chosen' = NoWorker
  /\ dpc' = IF Len(todo) = 1 THEN "query" ELSE "select"
  /\ UNCHANGED <<store, ihBlacklist, peerBlacklist, dhtVars, pool>>

-----------------------------------------------------------------------------
(***************************************************************************)
(* The workers                                                             *)
(***************************************************************************)
BackToPool(w) == wpc' = [wpc EXCEPT ![w] = "ready"] /\ job' = [job EXCEPT ![w] = Nothing]

(* fetchMetadata returned: an error, metadata that TorrentFromMetadata     *)
(* refuses (or nothing, after a panic that was recovered), or a torrent.   *)
FetchFails(w) ==
  /\ wpc[w] = "fetch" /\ wpc' = [wpc EXCEPT ![w] = "bad"]
  /\ UNCHANGED <<store, ihBlacklist, peerBlacklist, dhtVars, pool, dispatcherVars, job>>

\* Mutant of NotLoaded: the worker returns instead of going on.
NotLoadedReturns(w) ==
  /\ wpc[w] = "fetch" /\ wpc' = [wpc EXCEPT ![w] = "gone"]
  /\ UNCHANGED <<store, ihBlacklist, peerBlacklist, dhtVars, pool, dispatcherVars, job>>

NotLoaded(w) ==
  /\ wpc[w] = "fetch" /\ BackToPool(w)
  /\ UNCHANGED <<store, ihBlacklist, peerBlacklist, dhtVars, pool, dispatcherVars>>

Loaded(w) ==
  /\ wpc[w] = "fetch" /\ wpc' = [wpc EXCEPT ![w] = "new"]
  /\ UNCHANGED <<store, ihBlacklist, peerBlacklist, dhtVars, pool, dispatcherVars, job>>

\* Mutant of RemoveJobPeer: the torrent is removed with the peer.
RemoveJobTorrent(w) ==
  /\ wpc[w] = "bad" /\ wpc' = [wpc EXCEPT ![w] = "ban"]
  /\ RemoveTorrent(job[w].ih) \/ StoreError
  /\ UNCHANGED <<ihBlacklist, peerBlacklist, dhtVars, pool, dispatcherVars, job>>

(* onBadPeer *)
RemoveJobPeer(w) ==
  /\ wpc[w] = "bad" /\ wpc' = [wpc EXCEPT ![w] = "ban"]
  /\ RemovePeer(job[w].addr) \/ StoreError
  /\ UNCHANGED <<ihBlacklist, peerBlacklist, dhtVars, pool, dispatcherVars, job>>

BanPeer(w) ==
  /\ wpc[w] = "ban" /\ BackToPool(w)
  /\ peerBlacklist' \in Cached(peerBlacklist, job[w].addr)
  /\ UNCHANGED <<store, ihBlacklist, dhtVars, pool, dispatcherVars>>

(* onNewTorrent *)
Index(w) ==
  /\ wpc[w] = "new" /\ job[w].ih \notin Skipped /\ BackToPool(w)
  /\ SaveTorrent(job[w].ih)
  /\ UNCHANGED <<ihBlacklist, peerBlacklist, dhtVars, pool, dispatcherVars>>

(* ... of a torrent with a tag to skip, or whose SaveTorrent fails *)
Reject(w) ==
  /\ wpc[w] = "new" /\ (job[w].ih \in Skipped \/ StoreFails)
  /\ wpc' = [wpc EXCEPT ![w] = "drop"]
  /\ ihBlacklist' \in Cached(ihBlacklist, job[w].ih)
  /\ UNCHANGED <<store, peerBlacklist, dhtVars, pool, dispatcherVars, job>>

(* RemoveTorrent; its error is not looked at. *)
Drop(w) ==
  /\ wpc[w] = "drop" /\ BackToPool(w)
  /\ RemoveTorrent(job[w].ih) \/ StoreError
  /\ UNCHANGED <<ihBlacklist, peerBlacklist, dhtVars, pool, dispatcherVars>>

-----------------------------------------------------------------------------
(* The process ends, of a panic in a goroutine or otherwise, and is started*)
(* again on the same database file: only the store survives.               *)
Restart ==
  /\ ihBlacklist' = {} /\ peerBlacklist' = {}
  /\ callback' = [c \in Callback |-> Idle] /\ badPeer' = {}
  /\ pool' = "nil"
  /\ dpc' = "query" /\ todo' = << >> /\ chosen' = NoWorker
  /\ wpc' = [w \in Worker |-> "unborn"] /\ job' = [w \in Worker |-> Nothing]
  /\ UNCHANGED store

DHT ==
  \/ \E c \in Callback : \/ \E src \in Address, p \in Peer : Announce(c, src, p)
                         \/ CheckBlacklist(c) \/ SaveAnnounced(c)
  \/ \E a \in Address : WriteFailed(a) \/ RemoveBad(a)

Dispatcher == Query \/ Select \/ \E w \in Worker : Receive(w) \/ Send(w)

Fetched(w) == FetchFails(w) \/ NotLoaded(w) \/ Loaded(w)
Handled(w) == RemoveJobPeer(w) \/ BanPeer(w) \/ Index(w) \/ Reject(w) \/ Drop(w)

Next ==
  \/ DHT \/ Dispatcher \/ MakePool \/ Restart
  \/ \E w \in Worker : StartWorker(w) \/ Fetched(w) \/ Handled(w)

Spec == Init /\ [][Next]_vars

(***************************************************************************)
(* The goroutines run, and the process does not end again and again.       *)
(* Nothing is announced unless the network does so, no fetch has to        *)
(* succeed, and none has to end: HeldOnlyByTalk of MetadataFetch allows    *)
(* a peer to hold a worker.                                                *)
(***************************************************************************)
Fairness ==
  /\ WF_vars(MakePool) /\ WF_vars(Query) /\ WF_vars(Select)
  /\ \A c \in Callback : WF_vars(CheckBlacklist(c) \/ SaveAnnounced(c))
  /\ \A a \in Address : WF_vars(RemoveBad(a))
  /\ \A w \in Worker : /\ WF_vars(StartWorker(w)) /\ WF_vars(Receive(w)) /\ WF_vars(Send(w))
                       /\ WF_vars(Handled(w))

LiveSpec == Spec /\ Fairness /\ <>[][~Restart]_vars

(* ... with peers that hold no worker. *)
FetchesEndSpec == LiveSpec /\ \A w \in Worker : WF_vars(Fetched(w))

-----------------------------------------------------------------------------
(***************************************************************************)
(* Properties                                                              *)
(***************************************************************************)

TypeOK ==
  /\ torrents \in [Infohash -> {"absent", "pending", "indexed"}]
  /\ peers \subseteq Address
  /\ peerOf \in [Infohash -> Address \cup {NoPeer}]
  /\ ihBlacklist \subseteq Infohash /\ peerBlacklist \subseteq Address
  /\ callback \in [Callback -> {Idle} \cup [pc : {"check", "save"}, peer : Peer]]
  /\ badPeer \subseteq Address
  /\ pool \in {"nil", "made"}
  /\ dpc \in {"query", "select", "receive", "send", "nil"}
  /\ todo \in Seq(Peer)
  /\ chosen \in Worker \cup {NoWorker}
  /\ wpc \in [Worker -> {"unborn", "ready", "await", "fetch", "bad", "ban", "new", "drop"}]
  /\ job \in [Worker -> Peer \cup {Nothing}]

(***************************************************************************)
(* The two rendezvous of processPendingPeers and Worker.Run never come     *)
(* apart: a worker waits for a peer exactly while the dispatcher holds its *)
(* channel, the dispatcher then has a peer to send, and a worker is busy   *)
(* with a peer exactly when it has been sent one.                          *)
(***************************************************************************)
HandOver ==
  /\ \A w \in Worker : wpc[w] = "await" <=> (dpc = "send" /\ chosen = w)
  /\ dpc \in {"select", "receive", "send", "nil"} => todo # << >>
  /\ \A w \in Worker : job[w] = Nothing <=> wpc[w] \in {"unborn", "ready", "await"}

(***************************************************************************)
(* A torrent that onNewTorrent rejected and removed does not come back to  *)
(* be fetched a second time while ihBlacklist has it, whoever announces it *)
(* and whatever other worker has it: the ways back are a callback that     *)
(* looked before the rejection, a RemoveTorrent that failed, a full cache  *)
(* that gave the entry up, and a restart.                                  *)
(***************************************************************************)
KeptOut(ih) ==
  /\ ih \in ihBlacklist /\ torrents[ih] # "pending"
  /\ \A c \in Callback : callback[c].pc = "save" => callback[c].peer.ih # ih
RejectedStaysOut ==
  [][\A ih \in Infohash : KeptOut(ih) => KeptOut(ih)' \/ ih \notin ihBlacklist']_vars

(***************************************************************************)
(* The peer of an infohash in the store is one the store still knows, and  *)
(* an indexed or absent torrent keeps none: PendingInfohashes never hands  *)
(* out a peer that was removed.                                            *)
(***************************************************************************)
PeersKnown ==
  \A ih \in Infohash : peerOf[ih] # NoPeer => peerOf[ih] \in peers /\ torrents[ih] = "pending"

(***************************************************************************)
(* The dispatcher comes back to the store again and again, whatever the    *)
(* fetches and the store's errors, unless it read pool before              *)
(* startBTWorkers had made it, or every single worker is held by a peer.   *)
(***************************************************************************)
AllHeld == \A w \in Worker : wpc[w] = "fetch"
DispatcherGoesOn == []<>(dpc = "query") \/ <>[](dpc = "nil") \/ <>[]AllHeld

(***************************************************************************)
(* With no more pending infohashes than Limit, each is handed to a worker  *)
(* or stops being pending, with the same two exceptions.                   *)
(***************************************************************************)
BeingFetched(ih) == \E w \in Worker : job[w].ih = ih
PendingIsFetched ==
  \/ <>[](dpc = "nil") \/ <>[]AllHeld
  \/ \A ih \in Infohash : ih \in Pending ~> (ih \notin Pending \/ BeingFetched(ih))

(***************************************************************************)
(* "Signal we are ready for work" (bt/worker.go:75): while there is work,  *)
(* the signal of a worker that is ready is received.                       *)
(***************************************************************************)
ReadySignalSeen ==
  \A w \in Worker : wpc[w] = "ready" /\ Pending # {} ~> (Pending = {} \/ \E v \in Worker : job[v] # Nothing)

(***************************************************************************)
(* "PendingInfohashes gets the next pending infohash from the store"       *)
(* (db/sqlite.go:46): the next one is not always the same one.             *)
(***************************************************************************)
NextIsReached == <>[](dpc = "nil") \/ \A ih \in Infohash : ih \in Pending ~> (ih \notin Pending \/ BeingFetched(ih))

(***************************************************************************)
(* A torrent leaves the index ("indexing and later searching", README.md)  *)
(* in two ways only: the callback of a new announcement stores it again as *)
(* pending, or two workers fetched it at the same time and the later one   *)
(* could not save it and removes it.  No bad peer, no skipped tag, no full *)
(* cache and no restart takes it out.                                      *)
(***************************************************************************)
AnnouncedAgain(ih) ==
  /\ torrents'[ih] = "pending"
  /\ \E c \in Callback :
       callback[c].pc = "save" /\ callback'[c] = Idle /\ callback[c].peer.ih = ih
RemovedByLater(ih) ==
  /\ torrents'[ih] = "absent" /\ StoreFails
  /\ \E w \in Worker : wpc[w] = "drop" /\ wpc'[w] = "ready" /\ job[w].ih = ih
LeavesIndexOnly ==
  [][\A ih \in Infohash : torrents[ih] = "indexed" /\ torrents'[ih] # "indexed" =>
       AnnouncedAgain(ih) \/ RemovedByLater(ih)]_vars
=============================================================================
