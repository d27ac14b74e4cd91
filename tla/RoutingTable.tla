---------------------------- MODULE RoutingTable ----------------------------
(***************************************************************************)
(* dht/routing_table.go: the bounded table of remote nodes, a              *)
(* container/heap ordered by Infohash.Distance together with a map of the  *)
(* addresses it holds.  Two goroutines use it:                             *)
(*                                                                         *)
(*  - the packet reader calls add, which works under the table's mutex;    *)
(*  - makeNeighbours calls isEmpty and flush under the mutex and get       *)
(*    WITHOUT it, so that get's reads race with every store of add.        *)
(*                                                                         *)
(* The heap is its backing array.  A store of add takes effect in slots at *)
(* once for add itself; stale is the one location whose store has not      *)
(* reached the racing reader yet (append publishes the new length before   *)
(* it stores the element; a swap is two stores).  Each step of             *)
(* container/heap's sift loop is a step here.                              *)
(***************************************************************************)
EXTENDS Integers, Sequences

CONSTANTS
  Node,   \* remoteNode: records with fields addr and id
  self,   \* routingTable.id
  max,    \* routingTable.max: 2000 in NewNode
  dist,   \* Infohash.Distance from self to an id (common prefix length)
  Nil     \* a slot of the backing array that was never stored to

ASSUME MaxAssumption == max \in Nat /\ max >= 2
ASSUME DistAssumption == \A n \in Node : dist[n.id] \in 0 .. 160
ASSUME NilAssumption == Nil \notin Node

VARIABLES
  slots,     \* the backing array of items; rItem is its node (distance is
             \* dist[id], index is never read)
  len,       \* len(items)
  addresses, \* the keys of the addresses map
  stale,     \* [at, val]: what a racing reader still sees at index at
  apc,       \* the add call: "idle", "up" (heap.Push), "fix" (heap.Remove)
  adding,    \* the node being added
  j,         \* the position container/heap's up has reached
  gpc,       \* makeNeighbours: "idle", "get", "reading", "flush", "panic"
  gn, gi,    \* n and i of get
  out,       \* the result of get
  seen,      \* history: nodes accepted since the last flush
  overlap    \* history: did add take a step during the current get

addVars == <<apc, adding, j>>
getVars == <<gpc, gn, gi, out>>
vars == <<slots, len, addresses, stale, addVars, getVars, seen, overlap>>

NoStore == [at |-> -1, val |-> Nil]

Index == 0 .. max

(* The items of the heap, and the nodes it holds. *)
Used == 0 .. len - 1
Entries == {slots[k] : k \in Used}

(* What an unsynchronised read of items[k] returns. *)
Mem(k) == IF k = stale.at THEN stale.val ELSE slots[k]

Init ==
  /\ slots = [k \in Index |-> Nil]
  /\ len = 0
  /\ addresses = {}
  /\ stale = NoStore
  /\ apc = "idle" /\ adding = Nil /\ j = 0
  /\ gpc = "idle" /\ gn = 0 /\ gi = 0 /\ out = << >>
  /\ seen = {}
  /\ overlap = FALSE

Alive == gpc # "panic"

-----------------------------------------------------------------------------
(***************************************************************************)
(* add                                                                     *)
(***************************************************************************)

(* container/heap: up leaves its loop at the root or below a parent that   *)
(* is at least as close.  Less(j, i) is distance[j] > distance[i].         *)
Parent(k) == (k - 1) \div 2
\* Mutant of Rises: Less the other way round, a heap with the farthest first.
RisesFarthest == j > 0 /\ dist[slots[j].id] < dist[slots[Parent(j)].id]
Rises == j > 0 /\ dist[slots[j].id] > dist[slots[Parent(j)].id]

(* priorityQueue.Swap: both elements move, one store later than the other. *)
Swap(a, b) ==
  /\ slots' = [slots EXCEPT ![a] = slots[b], ![b] = slots[a]]
  /\ \/ stale' = [at |-> a, val |-> slots[a]]
     \/ stale' = [at |-> b, val |-> slots[b]]

(* A step of add: its earlier stores have landed. *)
Overlaps == overlap' = (overlap \/ gpc = "reading")
AddStep == Alive /\ stale = NoStore /\ Overlaps /\ UNCHANGED getVars
Unlock == apc' = "idle" /\ adding' = Nil /\ j' = 0

\* Mutant of AddBegin: the node's own id is not refused.
AddBeginSelf(rn) ==
  /\ AddStep
  /\ apc = "idle"
  /\ rn.addr \notin addresses
  /\ addresses' = addresses \cup {rn.addr}
  /\ slots' = [slots EXCEPT ![len] = rn]
  /\ stale' = [at |-> len, val |-> slots[len]]
  /\ len' = len + 1
  /\ apc' = "up" /\ adding' = rn /\ j' = len
  /\ seen' = seen \cup {rn}

(* The checks, the address, and heap.Push up to the append.  A node with   *)
(* the table's own id or a known address is dropped: no step.              *)
AddBegin(rn) ==
  /\ AddStep
  /\ apc = "idle"
  /\ rn.id # self
  /\ rn.addr \notin addresses
  /\ addresses' = addresses \cup {rn.addr}
  /\ slots' = [slots EXCEPT ![len] = rn]
  /\ stale' = [at |-> len, val |-> slots[len]]
  /\ len' = len + 1
  /\ apc' = "up" /\ adding' = rn /\ j' = len
  /\ seen' = seen \cup {rn}

(* The last store of the append or of a swap becomes visible. *)
Settle ==
  /\ Alive
  /\ stale # NoStore
  /\ stale' = NoStore
  /\ Overlaps
  /\ UNCHANGED <<slots, len, addresses, addVars, getVars, seen>>

(* One iteration of container/heap's up, in Push and in Remove. *)
Up ==
  /\ AddStep
  /\ apc \in {"up", "fix"}
  /\ Rises
  /\ Swap(Parent(j), j)
  /\ j' = Parent(j)
  /\ UNCHANGED <<len, addresses, apc, adding, seen>>

(* The table has room: unlock. *)
AddEnd ==
  /\ AddStep
  /\ apc = "up" /\ ~Rises
  /\ len <= max
  /\ Unlock
  /\ UNCHANGED <<slots, len, addresses, stale, seen>>

\* Mutant of EvictBegin: the address removed is the last item's.
EvictBeginWrongAddress ==
  /\ AddStep
  /\ apc = "up" /\ ~Rises
  /\ len > max
  /\ addresses' = addresses \ {slots[len - 1].addr}
  /\ Swap(max - 1, len - 1)
  /\ apc' = "fix" /\ j' = max - 1
  /\ UNCHANGED <<len, adding, seen>>

\* Mutant of EvictBegin: the moved element is not sifted again.
EvictBeginNoFix ==
  /\ AddStep
  /\ apc = "up" /\ ~Rises
  /\ len > max
  /\ addresses' = addresses \ {slots[max - 1].addr}
  /\ Swap(max - 1, len - 1)
  /\ apc' = "fix" /\ j' = 0
  /\ UNCHANGED <<len, adding, seen>>

\* Mutant of EvictBegin: the slot is cleared before it is filled again.
EvictBeginClears ==
  /\ AddStep
  /\ apc = "up" /\ ~Rises
  /\ len > max
  /\ addresses' = addresses \ {slots[max - 1].addr}
  /\ slots' = [slots EXCEPT ![max - 1] = slots[len - 1], ![len - 1] = slots[max - 1]]
  /\ stale' = [at |-> max - 1, val |-> Nil]
  /\ apc' = "fix" /\ j' = max - 1
  /\ UNCHANGED <<len, adding, seen>>

\* Mutant of EvictBegin: off by one, the loop starts at i = max, the newcomer
\* of a full table that did not rise.
EvictBeginLast ==
  /\ AddStep
  /\ apc = "up" /\ ~Rises
  /\ len > max
  /\ addresses' = addresses \ {slots[max].addr}
  /\ apc' = "fix" /\ j' = 0
  /\ UNCHANGED <<slots, stale, len, adding, seen>>

(* The table is over its bound: the loop starts at i = max - 1, removes    *)
(* the address of items[i] and calls heap.Remove(i), which swaps items[i]  *)
(* with the last element.  down(i, n) has no child to look at there        *)
(* (2i+1 >= n), so up(i) follows.                                          *)
EvictBegin ==
  /\ AddStep
  /\ apc = "up" /\ ~Rises
  /\ len > max
  /\ addresses' = addresses \ {slots[max - 1].addr}
  /\ Swap(max - 1, len - 1)
  /\ apc' = "fix" /\ j' = max - 1
  /\ UNCHANGED <<len, adding, seen>>

(* priorityQueue.Pop; now i = max = len(items) ends the loop: unlock. *)
EvictEnd ==
  /\ AddStep
  /\ apc = "fix" /\ ~Rises
  /\ len' = len - 1
  /\ Unlock
  /\ UNCHANGED <<slots, addresses, stale, seen>>

-----------------------------------------------------------------------------
(***************************************************************************)
(* makeNeighbours' use of the table: isEmpty, get(0), flush                *)
(***************************************************************************)

(* isEmpty, under the mutex.  An empty table is left alone (bootstrap). *)
NotEmpty ==
  /\ gpc = "idle"
  /\ apc = "idle" /\ stale = NoStore
  /\ len > 0
  /\ gpc' = "get"
  /\ UNCHANGED <<slots, len, addresses, stale, addVars, gn, gi, out, seen, overlap>>

(* get: n = len(items), read without the mutex. *)
GetBegin ==
  /\ gpc = "get"
  /\ gpc' = "reading"
  /\ gn' = len /\ gi' = 0 /\ out' = << >>
  /\ overlap' = (apc # "idle")
  /\ UNCHANGED <<slots, len, addresses, stale, addVars, seen>>

\* Mutant of GetMore: the last item is left out.
GetMoreShort == gi + 1 < gn /\ gi < len

GetMore == gi < gn /\ gi < len

\* Mutant of GetRead: the item is copied without a look at its value.
GetReadItem ==
  /\ gpc = "reading"
  /\ GetMore
  /\ out' = Append(out, Mem(gi)) /\ gi' = gi + 1
  /\ UNCHANGED <<slots, len, addresses, stale, addVars, gpc, gn, seen, overlap>>

(* One iteration: items[i].value.  A nil item panics the process. *)
GetRead ==
  /\ gpc = "reading"
  /\ GetMore
  /\ IF Mem(gi) = Nil
       THEN gpc' = "panic" /\ UNCHANGED <<gi, out>>
       ELSE gpc' = gpc /\ out' = Append(out, Mem(gi)) /\ gi' = gi + 1
  /\ UNCHANGED <<slots, len, addresses, stale, addVars, gn, seen, overlap>>

GetEnd ==
  /\ gpc = "reading"
  /\ ~GetMore
  /\ gpc' = "flush"
  /\ UNCHANGED <<slots, len, addresses, stale, addVars, gn, gi, out, seen, overlap>>

\* Mutant of Flush: items[:0] instead of a new array.
FlushReslice ==
  /\ gpc = "flush"
  /\ apc = "idle" /\ stale = NoStore
  /\ len' = 0
  /\ addresses' = {}
  /\ seen' = {}
  /\ gpc' = "idle" /\ gn' = 0 /\ gi' = 0 /\ out' = << >>
  /\ overlap' = FALSE
  /\ UNCHANGED <<slots, stale, addVars>>

(* flush, under the mutex, after the find_node queries are queued: a new   *)
(* backing array and a new map.                                            *)
Flush ==
  /\ gpc = "flush"
  /\ apc = "idle" /\ stale = NoStore
  /\ slots' = [k \in Index |-> Nil]
  /\ len' = 0
  /\ addresses' = {}
  /\ seen' = {}
  /\ gpc' = "idle" /\ gn' = 0 /\ gi' = 0 /\ out' = << >>
  /\ overlap' = FALSE
  /\ UNCHANGED <<stale, addVars>>

(* The process is gone. *)
Panicked == gpc = "panic" /\ UNCHANGED vars

AddNext ==
  \/ \E rn \in Node : AddBegin(rn)
  \/ Settle \/ Up \/ AddEnd \/ EvictBegin \/ EvictEnd

Next ==
  \/ AddNext
  \/ NotEmpty \/ GetBegin \/ GetRead \/ GetEnd \/ Flush
  \/ Panicked

Spec == Init /\ [][Next]_vars

-----------------------------------------------------------------------------
(***************************************************************************)
(* Properties                                                              *)
(***************************************************************************)

TypeOK ==
  /\ slots \in [Index -> Node \cup {Nil}]
  /\ len \in 0 .. max + 1
  /\ addresses \subseteq {n.addr : n \in Node}
  /\ stale \in [at : Index \cup {-1}, val : Node \cup {Nil}]
  /\ apc \in {"idle", "up", "fix"}
  /\ adding \in Node \cup {Nil}
  /\ j \in Index
  /\ gpc \in {"idle", "get", "reading", "flush", "panic"}
  /\ gn \in 0 .. max + 1 /\ gi \in 0 .. max + 1
  /\ out \in Seq(Node)
  /\ seen \subseteq Node
  /\ overlap \in BOOLEAN

(***************************************************************************)
(* "items and addresses out of sync" never happens: outside add's critical *)
(* section the heap holds at most max nodes, no two with the same address, *)
(* and the map holds exactly their addresses, whatever eviction removed    *)
(* from the middle of the array.                                           *)
(***************************************************************************)
InSync ==
  apc = "idle" =>
    /\ len <= max
    /\ addresses = {slots[k].addr : k \in Used}
    /\ \A k, m \in Used : slots[k].addr = slots[m].addr => k = m

(***************************************************************************)
(* The array is a heap again when add returns: evicting items[max-1],      *)
(* an inner index, and re-sifting the element that takes its place keeps   *)
(* every node below a parent that is at least as close.                    *)
(***************************************************************************)
HeapOrdered ==
  apc = "idle" =>
    \A k \in Used \ {0} : dist[slots[k].id] <= dist[slots[Parent(k)].id]

(***************************************************************************)
(* Eviction never loses the closest node: between two flushes the first    *)
(* item is at least as close as every node accepted since, evicted ones    *)
(* included.                                                               *)
(***************************************************************************)
ClosestKept ==
  apc = "idle" /\ len > 0 =>
    \A n \in seen : dist[n.id] <= dist[slots[0].id]

(***************************************************************************)
(* get, although it takes no lock, returns only nodes that were accepted   *)
(* since the last flush: never one of an earlier round.                    *)
(***************************************************************************)
GetMembers == \A k \in 1 .. Len(out) : out[k] \in seen

(***************************************************************************)
(* A get during which add took no step returns the table, in heap order.   *)
(***************************************************************************)
GetExact ==
  [][(gpc = "reading" /\ gpc' = "flush" /\ ~overlap) =>
       /\ Len(out) = len
       /\ \A k \in 1 .. Len(out) : out[k] = slots[k - 1]]_vars

(***************************************************************************)
(* The racing read of get finds no item only in the middle of heap.Push,   *)
(* between the append's new length and its element: holding the mutex in   *)
(* get would be enough to rule the panic out.                              *)
(***************************************************************************)
PanicNeedsRace ==
  [][(gpc # "panic" /\ gpc' = "panic") => apc = "up" /\ stale.at = len - 1]_vars

(***************************************************************************)
(* The node that an add has accepted is in the table when the add unlocks, *)
(* however far it is and wherever it rose to: a full table gives up an     *)
(* older node, never the newcomer.                                         *)
(***************************************************************************)
NewcomerKept ==
  [][apc # "idle" /\ apc' = "idle" => adding \in Entries']_vars

(***************************************************************************)
(* The heap implements the abstract table.  An add takes effect when it    *)
(* unlocks; until then the node being added does not count.                *)
(***************************************************************************)
Table == INSTANCE NodeTable
           WITH table <- IF apc = "idle" THEN Entries ELSE Entries \ {adding}

(* Every heap operation is, seen from outside the mutex, an operation of   *)
(* NodeTable or no change: a node enters alone and only under an address   *)
(* that is not known, the table never exceeds max, and it gives up nothing *)
(* between two flushes but, when full, one node that another is at least   *)
(* as close as.                                                            *)
ImplementsTable == Table!Spec
=============================================================================
