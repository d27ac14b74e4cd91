# A TLA+ model of dhtsearch

dhtsearch crawls the Mainline DHT: its nodes make themselves known to as many
others as they can, hear which peers announce which torrents, fetch the metadata
of those torrents from the peers over TCP, tag and store it. This directory holds
TLA+ modules for its parts, TLC configurations that check them on small
instances, and theorems checked by TLAPS.

## 1. The system

| Component | Source | State | Operations | Runs as |
|---|---|---|---|---|
| Routing table | `dht/routing_table.go` | heap of nodes ordered by closeness, map of addresses, mutex | `add`, `get`, `flush`, `isEmpty` | called by the reader and by `makeNeighbours` |
| DHT node | `dht/node.go`, `messages.go`, `slab.go` | routing table, channel `packetsOut` (1024), slab of 10 blocks, blacklist | `Run`, `makeNeighbours`, `packetWriter` and the handlers | three goroutines per node |
| BitTorrent worker | `bt/worker.go`, `models/torrent.go` | the fetch in progress: size, pieces | `Run`, `fetchMetadata`, `requestPieces`, `TorrentFromMetadata` | one goroutine per worker and one per fetch |
| SQLite store | `db/sqlite.go` | six tables, `last_insert_rowid` | `SavePeer`, `SaveTorrent`, `RemoveTorrent`, `RemovePeer`, `SaveTag`, `PendingInfohashes`, searches | called by all; a lock per method |
| Crawler | `cmd/dhtsearch/main.go` | the caches `ihBlacklist` and `peerBlacklist`, the channel `pool` | callbacks, `startBTWorkers`, `processPendingPeers` | one goroutine each, one per callback |
| Tagging | `cmd/dhtsearch/tag.go` | table of regular expressions | `tagTorrent` | part of `onNewTorrent` |
| Infohash | `models/infohash.go` | - | `InfohashFromString`, `String`, `Equal`, `Distance`, `GenerateNeighbour` | pure, but see aliasing below |
| KRPC codec | `krpc/krpc.go` | - | typed lookups, compact addresses | pure |
| PostgreSQL store | `db/pgsql.go` | tables | as SQLite | never: not built, see section 5 |

How they interact: the reader of a node decodes a packet, answers it through
`packetsOut`, adds the sender to the routing table, and starts a goroutine for an
announcement, whose callback checks `ihBlacklist` and calls `SavePeer`.
`makeNeighbours` copies the table every five seconds, queries every node of the
copy and flushes the table. The writer empties `packetsOut`; an address it cannot
write to is blacklisted and removed from the store. `processPendingPeers` asks the
store for pending infohashes, receives a worker's channel from `pool` and sends it
the peer. The worker fetches; `onNewTorrent` saves the torrent or blacklists and
removes it, `onBadPeer` removes and blacklists the peer.

What is hard: `get` takes no lock; bounded channels on which several goroutines block;
memory shared by `append`; a remote peer that orders, repeats and withholds messages as
it likes; byte offsets and optional keys in what strangers send; SQL conflict clauses
that delete and cascade; a store method that fails between two others; a channel
variable used before it is made; a query that returns what is already being worked on.
`PROJECT.json` lists these hazards at their lines with the properties that cover them.

## 2. Modules

| Module | Models | Built on |
|---|---|---|
| `NodeTable` | what the routing table promises | |
| `RoutingTable` | the heap, the map and the racing `get` | refines `NodeTable` |
| `RoutingTableProofs` | theorems about it, and its refinement of `NodeTable` | |
| `Infohash` | ids: parsing, printing, distance, neighbours | |
| `InfohashProofs` | lemmas on ids, for `CodecProofs` and `DHTNodeProofs` | |
| `Krpc` | lookups in decoded dictionaries, compact addresses | extends `Infohash` |
| `Handlers` | what the handlers make of a message | extends `Krpc` |
| `DHTNode` | one node's three goroutines | extends `Handlers`; uses the table that `NodeTable` specifies |
| `DHTNodeProofs` | theorems about it | extends `InfohashProofs` |
| `Metainfo` | `TorrentFromMetadata` | extends `Krpc` |
| `Codec` | calls of these functions, one at a time, and what they should compute | extends `Handlers`, `Metainfo` |
| `CodecProofs` | theorems about it | extends `InfohashProofs` |
| `MetadataFetch` | a worker and its peer | |
| `MetadataFetchProofs` | theorems about it | |
| `TorrentStore` | what the store promises to the crawler | |
| `SqliteStore` | tables, statements and transactions | refines `TorrentStore` |
| `SqliteStoreProofs` | theorems about the tables | |
| `SqliteStoreRefinement` | `SqliteStore` implements `TorrentStore` | extends `SqliteStoreProofs` |
| `Crawler` | `main.go` and the workers' loop | extends `TorrentStore`; a fetch is abstracted as `MetadataFetch` shows |
| `CrawlerProofs` | theorems about it | |
| `MC...` | values of the constants for TLC | |

Operators named `XyzSomething` under a comment "Mutant of Xyz" are deliberate bugs;
no specification uses them. Each shows that some property notices that bug.

### RoutingTable
`slots` and `len` are the backing array of `items`, `addresses` the keys of the map. An
`add` is a series of steps: `AddBegin` (the checks and the append of `heap.Push`), `Up`
(one iteration of container/heap's `up`), then `AddEnd` or `EvictBegin` and `EvictEnd`
(`heap.Remove` of index `max - 1`). They hold the mutex, so `NotEmpty` and `Flush` wait
for them, but `GetBegin`, `GetRead` and `GetEnd` do not. The data race is explicit:
`stale` is the one location whose latest store the racing reader may not see yet. Go's
`append` publishes the new length before it stores the element, so a `get` in that
window finds nil and panics.

### Infohash, Krpc, Handlers, Metainfo and Codec
The functions keep their structure and lose their sizes: the length of an id, the bits
of a byte, the hex alphabet and the lengths of IP addresses are constants, so that TLC
can take every input of a small format. A decoded dictionary is a function from keys to
`<<type, content>>`, which is what the typed lookups of `krpc.go` and the unchecked type
assertions tell apart. The text of an address is what Go's parsers find in it: the bytes
of the IP and the number of the port. `Kind` names the path of a message through
`processPacket`, early return by early return; a path is refused, ignored, answered,
added to the table, or it panics. `Codec` has one action per function; its state is the
last call and its result. A node hears only from addresses of its own family, as its
sockets are of one family. The reference definitions next to its properties (`Xor`,
`Conforms`, `FileConforms`, the node list as another node writes it) are written from
the protocols: `Conforms` has rules of its own for ids and for the lengths of lists.
They share with the model what is no rule of this code: the lookup of a typed key in a
dictionary, the equality and the length of ids. `IdsParse` agrees with one half of
`TestInfohashImport` and contradicts the other, see the observations.

### DHTNode
`rpc`, `wpc` and `mpc` are the program counters of reader, writer and `makeNeighbours`.
A packet is its source and its message; `Parsed` is what `Handlers` finds in it: its
kind, the sender's id and the nodes it lists. An id is a sequence of bytes, and
`GenerateNeighbour` replaces its second half in place, so that the entry in the table
changes and keeps its old distance. Channel contents are destinations only. For each
bootstrap router `Boot` resolves the name, which may fail and goes on to the next, and
`BootSend` sends, which blocks while the channel is full: a bootstrap, like a round,
ends only if the writer makes room.

### MetadataFetch
A peer is honest (it announces its size, sends the pieces it is asked for, in any order,
and does not repeat its extended handshake: BEP 10 would allow that, but worker.go:190
refuses it and the peer would be reported) or arbitrary (any size, also zero and
negative, any piece, any length, any order, silence). Pieces are their length and
whether their bytes are right. Go's truncating division is kept (`Quo`, `Rem`), and a
panic that `recover` hides ends the job as "dropped", which is neither success nor a bad
peer. Loading the metadata succeeds, fails or crashes the process; `Metainfo` says when.

### TorrentStore and SqliteStore
`SqliteStore` has one operator per SQL statement, from database to database: `insert or
replace` deletes the conflicting row with everything that refers to it and takes a new
id, `insert or ignore` of a known row leaves `last_insert_rowid` alone, a rollback
restores the tables and not `last_insert_rowid`. A method is one step because it holds
the store's lock and ends its transaction before releasing it; a failing method fails
before or after any of its statements, the commit included, and each leaves its own
`last_insert_rowid`. The store has one pooled connection: methods that write are
serialised by the lock and only one goroutine queries. The searches are actions too,
with the outcome their statements and `rows.Scan` leave them (see the observations
below). `TorrentStore` is what is left for the crawler: an infohash is absent, pending
or indexed, and a pending one has at most one peer, which is *some* known peer if the
announcing one was known already.

### Crawler
One step per store method, cache operation or rendezvous. `callback` holds the
announcement goroutines (between the check of the blacklist and the save anything may
happen), `dpc` the dispatcher, `wpc` the workers. `Select` is the evaluation of `pool`
by the select statement: if it is nil then, the dispatcher stays in "nil". A failing
query only makes the dispatcher sleep and ask again, which is a stuttering step.
`TagTorrent` gives the tags of an infohash, as they depend on the metadata and the
infohash is its hash; what a regular expression matches is the constant `Match`.
`Restart` is a new process on the same database file: the store stays, blacklists, jobs,
callbacks and the pool are gone.

## 3. Runs

Passing runs:

| Run | Bounds | Shows |
|---|---|---|
| `table` | 8 nodes (ties, a shared address, our own id), 6 addresses, `max` 5 | heap and map agree, heap order and closest node survive eviction, which never takes the newcomer, `get` returns members only and is exact when undisturbed, the panic needs `heap.Push`, refinement of `NodeTable` |
| `codec` | ids of three bytes of two bits, hex digits of one bit (two for the same value), IPs of one and two bytes; all strings up to 7 bytes, all pairs of ids, lists of up to 3 nodes, some 7,000 messages with each key present, missing or of another type, up to 2 files | ids survive printing; `Distance` is the xor metric, reversed; overwriting an id keeps its cached distance; addresses and lists survive the wire; nothing that keeps to the protocol is refused or panics; its announcements are reported at the right host; metadata loads whole or not at all |
| `node` | 2 senders, 10 packets, table 2, channel 1, slab 2, blacklist 1 | reader and `makeNeighbours` never block for ever; a node that hears nothing goes back to its bootstrap routers; distances stay right while ids are overwritten; every distant node is queried before it is dropped |
| `fetch` | block size 2, sizes 1, 3 and 5, claims and pieces beyond the ends | completeness of what is returned, honest peers served; only a peer that goes on talking holds a worker |
| `store` | 2 infohashes, 2 addresses, 1 tag, ids up to 3 | referential integrity, atomic failure at every statement, tags and files under the infohash that was saved, the query against its promise, refinement of `TorrentStore` |
| `crawler` | 2 workers, 2 infohashes (one to skip), 1 address, 1 announcement at a time, caches of 1, limit 2, restarts at any time | rendezvous; no removed peer handed out by the store; what was rejected stays out while the blacklist has it; the two ways out of the index; the dispatcher goes on unless it read a nil `pool` or all workers are held; within the limit every pending infohash is fetched |

Bounds and why they are enough. Capacities are set so low that the limits matter: the
table evicts, the channel fills, the blacklist of `node` and `ihBlacklist` of `crawler`
forget. The slab never runs empty in `node`: the reader, its only user, has one block at
a time and gives it back, which is what `ReaderReturns` shows; only its mutant, which
keeps them, empties it. `crawler` has one address, so `peerBlacklist` never forgets
there; `WriteFailed` and `BanPeer` with more addresses do to it what `Reject` does to
`ihBlacklist`. The table's `max` is 5 because only in a heap of six items can the
element that fills the evicted one's place come from the other half and rise. Two of
what can be confused is the least that shows a mix-up: two infohashes and addresses in
`store`, two infohashes and workers in `crawler`, two senders in `node`. `IdBound` cuts
histories of `SqliteStore` off when an id would exceed it; three allows each row to be
replaced and deleted and its id reused. `Callback` bounds the announcements in flight,
not their number. The functions of `codec` treat all bytes of an id alike and look at
lengths only, so three bytes (one before, one in and one after the half) and one bit
above another reach every branch; the ports need both bytes, and have them.

Violations: runs that check what a comment or the documentation says and find that
the code does something else. Each has a finding in `PROJECT.json`.

| Run | Statement | What happens |
|---|---|---|
| `fetch_block` | worker.go:239 "Last piece needs to equal remainder" | metadata of exactly n blocks can never be fetched; the honest peer is reported as bad |
| `store_unindexed` | README.md:9 "indexing and later searching" | another announcement erases an indexed torrent |
| `store_tags_lost` | README.md:24 "Filtering can be done by tags" | a tag belongs to the torrent saved last |
| `store_misplaced` | README.md:11 "keeping track of interesting packets", the announcements | a known peer's announcement is stored for another peer or not at all |
| `crawler_nil_pool` | worker.go:75 "Signal we are ready for work" | the dispatcher waits on a nil channel for ever |
| `crawler_starved` | sqlite.go:46 "the next pending infohash" | torrents whose metadata does not load keep the front of the query for ever |

### Observations
Behaviours that contradict no statement of the repository, or that the models show
without a run of their own.

- No search of the SQLite store ever returns a torrent. `TorrentByHash` selects seven
  columns and scans six, and indexes an empty slice if there is no row;
  `TorrentsByName` puts `%` into an FTS5 expression, which is a syntax error;
  `TorrentsByTag` scans a column declared `timestamp with time zone`, which the driver
  hands over as text, into a `time.Time`.
- `insert or replace` does not fire the delete trigger, so the full text index keeps
  entries of rows that are gone. Nothing reads it successfully.
- An announcement over IPv6 that gives its port (`implied_port` 0) is an error and is not
  reported, although node.go:42 says that the callback "is called for each peer that
  announces itself": messages.go:105 prints the host without brackets, and
  `ResolveUDPAddr` refuses the result. `AnnouncersReported` leaves out this case and no
  other.
- `TestInfohashImport` cannot pass: infohash_test.go:25-34 wants an id that was read from
  40 digits to be the decoded bytes and to print as the digits, which is `IdsParse`;
  lines 36-41 want its `Bytes()` to be the digits themselves ("expected ih.Bytes() to
  equal"), while infohash.go:41 returns the decoded bytes.
- Each announcement of an infohash replaces its row, and the cascade takes the links of
  the peers that announced it before: the store knows at most one of them (`OneLink` of
  `SqliteStoreProofs`), where the unused pgsql.go keeps them all.
- The port of an announcement is used only if `implied_port` is present and 0; without
  the key it is the packet's source port, where BEP 5 has the one of the message. Port 0
  in the message is reported, while source port 0 is refused.
- README.md says that torrents tagged 'adult' are skipped; the tag is called `xxx`.
- A torrent that was rejected can be stored again while the blacklist has it, by a
  callback that had looked before; `RejectedStaysOut` shows that there is no other way
  but a failed `RemoveTorrent`, a full cache and a restart.
- A peer that was removed from the store may still be fetched from: it may be in the
  batch that the dispatcher has read, or with a worker.
- A list of files with an entry that is no dictionary, or whose path is missing, panics
  in the worker's goroutine, outside the `recover` of `fetchMetadata`.
- When two workers fetch the same infohash, the failed save of the second removes what
  the first has indexed; `LeavesIndexOnly` has it as one of the two ways out.
- A node that the reader adds between `get` and `flush` is dropped without a query.
- `GenerateNeighbour` appends to `second[:10]`, which has room for twenty bytes, so it
  overwrites the id that the table's entry shares. `CachedDistanceHolds` shows that
  the cached distance stays right all the same, but for a node with our first ten
  bytes: it then has our id, `sendQuery` takes it for ourselves, and it is dropped
  unqueried. `DistantNodesQueried` therefore speaks of nodes that were copied and whose
  first half differs from ours.

### Fairness
- `DHTNode`: goroutines run and the ticker ticks (weak fairness); no packet has to
  arrive. Blocked senders of a Go channel are served first in, first out, so a
  sender that finds room again and again gets it: strong fairness of the sends.
- `MetadataFetch`: the goroutines run, deadlines expire, an honest peer sends what it
  has to. Nothing is assumed of other peers.
- `Crawler`: goroutines run and the store's query does not fail for ever. The process
  is restarted any number of times, but not for ever (`<>[][~Restart]_vars`: with a
  restart before every step nothing can be promised). No fetch has to end, since
  `HeldOnlyByTalk` leaves it open: a peer that sends ignored messages (keep-alives)
  holds a worker as long as it likes, and as many such peers as workers hold the
  dispatcher (`AllHeld`). Only the two violation runs assume that fetches end
  (`FetchesEndSpec`), so that their counterexamples do not rest on such a peer.
  Nothing has to be announced, no fetch has to succeed.

## 4. Theorems

Every invariant and action property that a passing run checks is a theorem, and so
are both refinements: TLC shows them on the small instance, TLAPS for every value of
the constants that the named assumptions allow. All are by induction over the steps.

**`RoutingTableProofs`** (`max >= 2`, distances in 0..160): `TypeOK`, `InSync`,
`HeapOrdered`, `ClosestKept`, `GetMembers`, `GetExact`, `PanicNeedsRace`,
`NewcomerKept`, `ImplementsTable`. None of the invariants is inductive, as they speak of
the table between two calls only. The inductive invariant adds what holds inside `add`
(`HeapInv`: the order is broken only at `j`, whose children are no closer than its
parent; `TopInv`: the closest node is the root or the element being sifted up;
`AddrInv`: the map holds the addresses of the array less the evicted element; `Shape`:
length and position for each value of the program counter), what a racing reader can see
(`SeenInv`, `StaleInv`: nothing from before the last flush, and nil only in the slot
just appended), and what an undisturbed `get` has copied (`GetInv`). `max >= 2` is
needed: with `max` 1 the evicted item is the root. The refinement lets the newcomer be
refused, as that would be a stuttering step; that it never is, is `NewcomerKept`. Both
need `AddingInv` besides: the node being added is in the array, and as it rises from the
last index it jumps over `max - 1`, so it is never the one evicted.

**`MetadataFetchProofs`** (`BlockSize > 0`): `TypeOK`, `ReturnsWholeMetadata` and
`HonestNotRejected`. The invariant says that a stored piece has the length its number
asks for (`PiecesInv`: a full block, the remainder for the last one, or nothing) and
that "ok" is reached with all of them stored (`OkInv`). `HonestAccepted` rests on
`HonestInv` (the size an honest peer announced is the real one) and has a hypothesis
on the sizes of honest peers' metadata: within the limit, and no multiple of
`BlockSize`. The run `fetch` chooses its sizes so; without the second condition the
statement is false, which is the finding of `fetch_block`.

**`CrawlerProofs`** (finitely many infohashes, any sets of workers and callbacks):
`TypeOK`, `HandOver`, `PeersKnown`, `LeavesIndexOnly` and `RejectedStaysOut`. The
conjunction of the first three and `SkippedOut` (what has a tag to skip is not indexed) is
inductive; it is split into `StoreInv`, which the
lemmas about the store's methods preserve, and `ControlInv`, which needs one step per
action. `TypeOK` alone is not: that a busy worker has a peer comes from `HandOver`.
`LeavesIndexOnly` needs `DropInv` besides: a worker removes a torrent only if it is to
be skipped, and so was never indexed, or if a method of the store has failed.

**`SqliteStoreProofs`** (finitely many infohashes; any addresses, tags, tag lists and
bound of the ids): `TypeOK`, `Integrity`, `ErrorChangesNothing`, `SavedWhole`.
`Integrity` is inductive only together with the primary and unique keys and with
`OneLink` (a pending torrent has at most one link). Their conjunction `DbInv`
is stated of any database, not of the variable, because a method is a composition of
statements: there is one lemma per SQL statement, and a method's step follows by
composing them. `AddTags`, a loop, is a recursive function; its values are the lemma's
by a least counterexample. `FreshId` is the fact they rest on: as the ids of a table
are bounded, `max(rowid) + 1` is in no row, although a deleted id is used again. The
ids between two statements may exceed `IdBound`, so `DbInv` has all positive numbers
and `Fits` the bound of the model. `SavedWhole` follows the tags and files of an id
through the same statements (`TagLinked`, `FileLinked`): a fresh id has none, and each
statement adds the one it is meant to.

**`SqliteStoreRefinement`**: `ImplementsStore` and `QueryAgrees`. The mapping takes the
peer of an infohash from a join of three tables; `DbInv` makes it well defined (one row
per infohash, one link per torrent, one peer per id). Each method has a lemma that says
how it changes this view, of which `SavePeerView` is the hard one: its `insert or
ignore` may link the torrent to another peer, and a replaced row takes its links along.
The query keeps the rows with fewer than `limit` rows before them, while
`TorrentStore` promises a sequence of the first pending infohashes. `Ranks` joins the two:
counting the smaller members is an injection of a finite set of n numbers into
0 .. n - 1, hence onto, so that ranks order the set without gaps.

**`DHTNodeProofs`** (all capacities positive; the nodes of a response are bytes):
`TypeOK`, `DistancesRight`, `DistantNodesQueried`. `NodeInv` has a part per goroutine
and shared structure. `TableInv` and `ReaderInv` say that an entry's distance is right
or its id has become our own, and that what the reader is still to add is right;
`GenerateNeighbour` keeps this by the lemmas of `InfohashProofs` on the first place
where two ids differ. `RoundInv` has each distant node of a round asked, being asked
or still to come, whatever the reader does meanwhile and however long the channel is
full.

**`CodecProofs`** (any length of ids, bits of a byte, hex alphabet and lengths of
addresses; arguments of the types that bencode and Go's parsers return): `IdsParse`,
`DistanceIsXorPrefix`, `CachedDistanceHolds`, `AddressesSurvive`, `ConformingAccepted`,
`AnnouncersReported`, `MetadataLoads`. The inductive invariant `Computed` says that
the recorded result is the function's value on the recorded arguments; the theorems are
then about the functions. `CodecXorPrefix` reads the xor as a number and compares it
with powers of two; `CodecAddresses` shows that the i-th piece cut from a list is the
i-th node, where the offsets are products and `DivisionUnique` is the arithmetic they
need; `CodecMetadata` compares the loop that adds up the sizes with the sum over the set
of files, which does not depend on the order. Sizes are integers of any size here: that a
total exceeds Go's 64 bits is not considered.

Recursive definitions. The library's induction rules take an operator as parameter,
which the provers cannot instantiate. Where a loop's result matters the proofs use a
set in place of the predicate (`Climb`: a set that holds 0 and the successors of its
members holds 0 .. n, from the least counterexample) and build the recursive function
explicitly (`Loop`), so nothing about recursion is assumed.

Only model-checked: liveness, as the prover does not do fairness (`ReaderReturns`,
`RoundsEnd`, `DeafNodeBootstraps`, `HonestFetched`, `HeldOnlyByTalk`,
`DispatcherGoesOn`, `PendingIsFetched`). The violation runs are counterexamples and
need no proof.

## 5. Not modelled
- `db/pgsql.go`. It has no reachable state: the constraint `+build ignore postgres`
  excludes it, it defines `db.Store` a second time and does not compile beside
  `sqlite.go`, and `NewStore` could not succeed (`migrate` executes "baseSchema" before
  it is prepared, scans `schema_version` into a value instead of a pointer, and never
  commits).
- The full text index of `sqlite.go`: written by triggers, never read with success.
- The HTTP interface, which README.md mentions and this commit does not contain.
- Functions without a caller: `ping`, `onHandshake`, `checkKey`, `checkKeys`, `int2bytes`,
  `mergeCharacterTagREs`, `mergeTagRegexps`, `hasTag`. `EncodeCompactNodeAddr` has
  none but its test; it is modelled all the same, as the other direction of what a node decodes.
- What the regular expressions of tagging match; bencode itself; flags and logging;
  the random ids of `GenInfohash` and `NewTransactionID`.
- Memory use (deferred calls in `packetWriter`, the length a message claims).

## 6. Plan
1. The composition that `Crawler` takes from `MetadataFetch` (a fetch returns, is
   refused or is dropped) as a refinement instead of a comment.
2. That `Distance` is symmetric and satisfies the ultrametric inequality, from
   `DistanceIsXorPrefix`.
3. The step from `DHTNode`'s table to `NodeTable`, so that the heap stands for it.
4. Lemmas shared by several proof modules (least elements, loops) in one place.
