------------------------------ MODULE DHTNode ------------------------------
(***************************************************************************)
(* dht/node.go, messages.go, slab.go: one node of the DHT and its three    *)
(* goroutines, the packet reader (Run), makeNeighbours and packetWriter.   *)
(* The reader and makeNeighbours block on the bounded channel packetsOut,  *)
(* which only the writer empties; all three share the blacklist; the       *)
(* reader fills the routing table and makeNeighbours empties it.           *)
(*                                                                         *)
(* A packet is a message and its sender.  Handlers says which path through *)
(* processPacket a message takes (kind), which id it carries and which     *)
(* nodes it lists.  The table is the abstract one that RoutingTable        *)
(* implements, with the distance kept beside the id as rItem keeps it, and *)
(* get a single read of it.  OnAnnouncePeer and OnBadPeer are started as   *)
(* goroutines and touch only the store: they are actions of Crawler.       *)
(***************************************************************************)
EXTENDS Handlers, FiniteSets

CONSTANTS
  self,        \* Node.id
  family,      \* "udp4" or "udp6"
  local,       \* LocalAddr: the unspecified address the socket is bound to
  Routers,     \* addresses of the bootstrap routers
  Packets,     \* [src, msg]: what may arrive
  max,         \* routing table size: 2000
  QueueCap,    \* capacity of packetsOut: 1024
  NumBlocks,   \* blocks of the slab: 10
  BlackCap     \* entries of the ARC cache: 1000

ASSUME NodeAssumption ==
  /\ self \in Id /\ family \in {"udp4", "udp6"}
  /\ {max, QueueCap, NumBlocks, BlackCap} \subseteq Nat \ {0}
  /\ \A p \in Packets :
       Kind([id |-> self, family |-> family], p.src, p.msg) = "nodes" =>
         Get(Get(p.msg, "r"), "nodes") \in Seq(Byte)

VARIABLES
  rpc,        \* reader: "alloc", "read", "reply" (blocked on packetsOut),
              \* "work" (adding to the table), "stopped", "panic"
  slab,       \* free blocks
  pkt,        \* the packet being processed
  todo,       \* the reader's calls of rTable.add that are still to come
  table,      \* routing table: [addr, id, d]
  blacklist,
  packetsOut, \* channel of destinations
  wpc, cur,   \* writer: "take" or "write", and the packet it holds
  mpc,        \* makeNeighbours: "boot", "bootsend", "wait", "round", "queue"
  left,       \* destinations it has still to deal with
  target,     \* the node or router whose query it is sending
  asked,      \* history: nodes of the round whose query was queued
  round       \* history: what get returned

readerVars == <<rpc, slab, pkt, todo>>
writerVars == <<wpc, cur>>
neighbourVars == <<mpc, left, target, asked, round>>
vars == <<readerVars, table, blacklist, packetsOut, writerVars, neighbourVars>>

Nobody == [addr |-> local, id |-> self, d |-> 0]
NoPacket == [src |-> local, kind |-> "none", id |-> self, nodes |-> << >>]

Init ==
  /\ rpc = "alloc" /\ slab = NumBlocks /\ pkt = NoPacket /\ todo = << >>
  /\ table = {} /\ blacklist = {} /\ packetsOut = << >>
  /\ wpc = "take" /\ cur = local
  /\ mpc = "boot" /\ left = Routers /\ target = Nobody /\ asked = {} /\ round = {}

Alive == rpc # "panic"

\* Mutant of HasRoom: the channel's capacity is not looked at.
HasRoomAlways == TRUE

HasRoom == Len(packetsOut) < QueueCap
Enqueue(a) == HasRoom /\ packetsOut' = Append(packetsOut, a)

(* lru.ARCCache.Add: a full cache gives up some other entry. *)
Blacklist(a) ==
  IF a \in blacklist \/ Cardinality(blacklist) < BlackCap
    THEN blacklist' = blacklist \cup {a}
    ELSE \E v \in blacklist : blacklist' = (blacklist \ {v}) \cup {a}

-----------------------------------------------------------------------------
(***************************************************************************)
(* The reader                                                              *)
(***************************************************************************)
Entry(a, id) == [addr |-> a, id |-> id, d |-> Distance(self, id)]

Alloc ==
  /\ rpc = "alloc" /\ slab > 0
  /\ slab' = slab - 1 /\ rpc' = "read"
  /\ UNCHANGED <<pkt, todo, table, blacklist, packetsOut, writerVars, neighbourVars>>

(* ReadFrom fails: Run returns, the other goroutines go on. *)
ReadError ==
  /\ rpc = "read" /\ rpc' = "stopped"
  /\ UNCHANGED <<slab, pkt, todo, table, blacklist, packetsOut, writerVars, neighbourVars>>

(* The packets, as the handlers read them. *)
Parsed ==
  LET n == [id |-> self, family |-> family]
  IN  {[src |-> p.src, kind |-> Kind(n, p.src, p.msg), id |-> SenderId(n, p.src, p.msg),
        nodes |-> NodesIn(n, p.src, p.msg)] : p \in Packets}

(* What the reader adds to the table, in order.  A find_node response is   *)
(* processed twice: onFindNodeResponse, then processFindNodeResults.       *)
Listed(p) == [i \in DOMAIN p.nodes |-> Entry(p.nodes[i].addr, p.nodes[i].id)]
Adds(p) ==
  LET sender == Entry(p.src, p.id)
  IN  CASE p.kind = "nodes" -> Listed(p) \o Listed(p) \o <<sender>>
        [] p.kind \in Added \ {"nodes"} -> <<sender>>
        [] OTHER -> << >>

Black(p) == p.src \in blacklist

ReadPacket(p) ==
  /\ rpc = "read"
  /\ LET quiet == p.kind \in Undecoded \/ Black(p)
     IN  /\ rpc' = CASE quiet -> "work"
                     [] ~quiet /\ p.kind \in Crashing -> "panic"
                     [] ~quiet /\ p.kind \in Answered -> "reply"
                     [] OTHER -> "work"
         /\ todo' = IF quiet THEN << >> ELSE Adds(p)
         /\ pkt' = IF quiet THEN NoPacket ELSE p
         /\ IF ~quiet /\ p.kind \in Rejected \cup {"bad_nodes"}
              THEN Blacklist(p.src)
              ELSE UNCHANGED blacklist
  /\ UNCHANGED <<slab, table, packetsOut, writerVars, neighbourVars>>

(* queueMsg *)
Reply ==
  /\ rpc = "reply"
  /\ Enqueue(pkt.src)
  /\ rpc' = "work"
  /\ UNCHANGED <<slab, pkt, todo, table, blacklist, writerVars, neighbourVars>>

(* rTable.add: NodeTable's AddFree and AddFull, with the cached distance. *)
Refused(n) == Equal(n.id, self) \/ \E m \in table : m.addr = n.addr
Add(n) ==
  CASE Refused(n) -> UNCHANGED table
    [] ~Refused(n) /\ Cardinality(table) < max -> table' = table \cup {n}
    [] ~Refused(n) /\ Cardinality(table) >= max ->
         \E victim \in table :
           /\ \E m \in (table \cup {n}) \ {victim} : m.d >= victim.d
           /\ table' = (table \cup {n}) \ {victim}

Work ==
  /\ rpc = "work" /\ todo # << >>
  /\ Add(Head(todo))
  /\ todo' = Tail(todo)
  /\ UNCHANGED <<rpc, slab, pkt, blacklist, packetsOut, writerVars, neighbourVars>>

\* Mutant of Done: a packet without effect does not give its block back.
DoneLeaks ==
  /\ rpc = "work" /\ todo = << >>
  /\ IF pkt.kind \in AddedThenRejected THEN Blacklist(pkt.src) ELSE UNCHANGED blacklist
  /\ rpc' = "alloc" /\ pkt' = NoPacket
  /\ slab' = IF pkt.kind = "none" THEN slab ELSE slab + 1
  /\ UNCHANGED <<todo, table, packetsOut, writerVars, neighbourVars>>

(* The handler's error reaches processPacket; the block is freed. *)
Done ==
  /\ rpc = "work" /\ todo = << >>
  /\ IF pkt.kind \in AddedThenRejected THEN Blacklist(pkt.src) ELSE UNCHANGED blacklist
  /\ rpc' = "alloc" /\ pkt' = NoPacket
  /\ slab' = slab + 1
  /\ UNCHANGED <<todo, table, packetsOut, writerVars, neighbourVars>>

-----------------------------------------------------------------------------
(***************************************************************************)
(* The writer                                                              *)
(***************************************************************************)
Take ==
  /\ Alive /\ wpc = "take" /\ packetsOut # << >>
  /\ packetsOut' = Tail(packetsOut)
  /\ cur' = Head(packetsOut)
  /\ wpc' = IF cur' = local THEN "take" ELSE "write"
  /\ UNCHANGED <<readerVars, table, blacklist, neighbourVars>>

Write ==
  /\ Alive /\ wpc = "write"
  /\ wpc' = "take" /\ cur' = local
  /\ UNCHANGED <<readerVars, table, blacklist, packetsOut, neighbourVars>>

WriteFails ==
  /\ Alive /\ wpc = "write"
  /\ Blacklist(cur)
  /\ wpc' = "take" /\ cur' = local
  /\ UNCHANGED <<readerVars, table, packetsOut, neighbourVars>>

-----------------------------------------------------------------------------
(***************************************************************************)
(* makeNeighbours                                                          *)
(***************************************************************************)

(* bootstrap: the next router's address is resolved.  One that does not    *)
(* resolve is skipped; the query to one that does has still to be sent.    *)
Boot ==
  /\ Alive /\ mpc = "boot" /\ left # {}
  /\ \E r \in left :
       /\ left' = left \ {r}
       /\ \/ UNCHANGED <<mpc, target>>
          \/ mpc' = "bootsend" /\ target' = [Nobody EXCEPT !.addr = r]
  /\ UNCHANGED <<readerVars, table, blacklist, packetsOut, writerVars, asked, round>>

(* findNode's send: blocks while packetsOut is full.  The router's id is   *)
(* nil and equals nobody's.                                                *)
BootSend ==
  /\ Alive /\ mpc = "bootsend"
  /\ Enqueue(target.addr)
  /\ mpc' = "boot" /\ target' = Nobody
  /\ UNCHANGED <<readerVars, table, blacklist, writerVars, left, asked, round>>

\* Mutant of Booted: bootstrap until somebody has answered.
BootedInsists ==
  /\ Alive /\ mpc = "boot" /\ left = {}
  /\ mpc' = IF table = {} THEN "boot" ELSE "wait"
  /\ left' = IF table = {} THEN Routers ELSE left
  /\ UNCHANGED <<readerVars, table, blacklist, packetsOut, writerVars, target, asked, round>>

Booted ==
  /\ Alive /\ mpc = "boot" /\ left = {}
  /\ mpc' = "wait"
  /\ UNCHANGED <<readerVars, table, blacklist, packetsOut, writerVars, left, target, asked, round>>

(* The ticker: isEmpty, then bootstrap or get. *)
Tick ==
  /\ Alive /\ mpc = "wait"
  /\ mpc' = IF table = {} THEN "boot" ELSE "round"
  /\ left' = IF table = {} THEN Routers ELSE table
  /\ round' = table /\ asked' = {}
  /\ UNCHANGED <<readerVars, table, blacklist, packetsOut, writerVars, target>>

(* The next node of the round: GenerateNeighbour rewrites its id, in the   *)
(* table too, and sendQuery stops if that makes it equal to the node's own.*)
NextTarget ==
  /\ Alive /\ mpc = "round" /\ left # {}
  /\ \E rn \in left :
       LET id == GenerateNeighbour(self, rn.id)
       IN  /\ left' = left \ {rn}
           /\ table' = {IF n = rn THEN [rn EXCEPT !.id = id] ELSE n : n \in table}
           /\ IF Equal(id, self)
                THEN UNCHANGED <<mpc, target>>
                ELSE mpc' = "queue" /\ target' = rn
  /\ UNCHANGED <<readerVars, blacklist, packetsOut, writerVars, asked, round>>

\* Mutant of SendQuery: a full queue drops the query.
SendQueryDrops ==
  /\ Alive /\ mpc = "queue"
  /\ IF HasRoom
       THEN Enqueue(target.addr) /\ asked' = asked \cup {target}
       ELSE UNCHANGED <<packetsOut, asked>>
  /\ mpc' = "round"
  /\ UNCHANGED <<readerVars, table, blacklist, writerVars, left, target, round>>

(* sendQuery's send *)
SendQuery ==
  /\ Alive /\ mpc = "queue"
  /\ Enqueue(target.addr)
  /\ asked' = asked \cup {target}
  /\ mpc' = "round"
  /\ UNCHANGED <<readerVars, table, blacklist, writerVars, left, target, round>>

\* Mutant of Flush: the nodes that were asked stay in the table.
FlushKeeps ==
  /\ Alive /\ mpc = "round" /\ left = {}
  /\ mpc' = "wait" /\ target' = Nobody /\ asked' = {} /\ round' = {}
  /\ UNCHANGED <<readerVars, table, blacklist, packetsOut, writerVars, left>>

Flush ==
  /\ Alive /\ mpc = "round" /\ left = {}
  /\ table' = {}
  /\ mpc' = "wait" /\ target' = Nobody /\ asked' = {} /\ round' = {}
  /\ UNCHANGED <<readerVars, blacklist, packetsOut, writerVars, left>>

Panicked == rpc = "panic" /\ UNCHANGED vars

Reader == Alloc \/ ReadError \/ (\E p \in Parsed : ReadPacket(p)) \/ Reply \/ Work \/ Done
Writer == Take \/ Write \/ WriteFails
Neighbours == Boot \/ BootSend \/ Booted \/ Tick \/ NextTarget \/ SendQuery \/ Flush

Next == Reader \/ Writer \/ Neighbours \/ Panicked

Spec == Init /\ [][Next]_vars

(***************************************************************************)
(* The goroutines run; the ticker ticks.  Blocked senders of a Go channel  *)
(* queue first in, first out, so a sender that finds room again and again  *)
(* gets it: strong fairness of the sends.  No packet has to arrive.        *)
(***************************************************************************)
Fairness ==
  /\ WF_vars(Alloc) /\ WF_vars(Work) /\ WF_vars(Done) /\ SF_vars(Reply)
  /\ WF_vars(Take) /\ WF_vars(Write \/ WriteFails)
  /\ WF_vars(Boot) /\ WF_vars(Booted) /\ WF_vars(Tick) /\ WF_vars(NextTarget) /\ WF_vars(Flush)
  /\ SF_vars(BootSend) /\ SF_vars(SendQuery)

LiveSpec == Spec /\ Fairness

-----------------------------------------------------------------------------
(***************************************************************************)
(* Properties                                                              *)
(***************************************************************************)

TypeOK ==
  /\ rpc \in {"alloc", "read", "reply", "work", "stopped", "panic"}
  /\ slab \in 0 .. NumBlocks
  /\ Cardinality(table) <= max
  /\ Cardinality(blacklist) <= BlackCap
  /\ Len(packetsOut) <= QueueCap
  /\ wpc \in {"take", "write"} /\ mpc \in {"boot", "bootsend", "wait", "round", "queue"}
  /\ asked \subseteq round

(***************************************************************************)
(* The reader always comes back to the socket, although it blocks on a     *)
(* full packetsOut, needs a block of the slab, and competes with           *)
(* makeNeighbours for the channel.                                         *)
(***************************************************************************)
ReaderReturns == []<>(rpc \in {"read", "stopped", "panic"})

(***************************************************************************)
(* makeNeighbours never hangs: every bootstrap and every round ends, with  *)
(* or without the reader, although each of its queries waits for room in   *)
(* packetsOut.                                                             *)
(***************************************************************************)
RoundsEnd == []<>(mpc = "wait" \/ rpc = "panic")

(***************************************************************************)
(* A node whose reader hears nothing any more, or has stopped, keeps on    *)
(* bootstrapping: the nodes it knew do not keep it from it.                *)
(***************************************************************************)
DeafNodeBootstraps ==
  []<>(rpc = "work") \/ <>(rpc = "panic") \/ []<>(mpc = "boot")

(***************************************************************************)
(* The distances that the table is ordered by stay those of the ids in it, *)
(* although makeNeighbours rewrites the ids while the reader adds others,  *)
(* but for an id that has become our own.                                  *)
(***************************************************************************)
DistancesRight == \A n \in table : n.d = Distance(self, n.id) \/ n.id = self

(***************************************************************************)
(* When flush empties the table, every node that get returned has been     *)
(* sent a query, however long the channel was full meanwhile, unless it    *)
(* shares the first half of our own id.                                    *)
(***************************************************************************)
DistantNodesQueried ==
  [][mpc = "round" /\ mpc' = "wait" =>
       \A rn \in round : (\E i \in 1 .. Half : rn.id[i] # self[i]) => rn \in asked]_vars
=============================================================================
