------------------------------ MODULE NodeTable ------------------------------
(***************************************************************************)
(* What the routing table of a DHT node promises to the goroutines that    *)
(* use it, without the heap, the address map or the mutex: a set of at     *)
(* most max remote nodes, one per address, that takes in one newcomer at a *)
(* time and, when it is full, gives up an older node for it which is not   *)
(* closer than all others.  RoutingTable is shown to implement it; that an *)
(* add it began is never dropped is RoutingTable's NewcomerKept.           *)
(***************************************************************************)
EXTENDS Integers, FiniteSets

CONSTANTS
  Node,   \* the remote nodes that may be offered: records with addr and id
  self,   \* the id of the node that owns the table
  max,    \* routingTable.max
  dist    \* Infohash.Distance from self: the length of the common prefix,
          \* so that a GREATER number is a CLOSER node

VARIABLE table

Init == table = {}

(***************************************************************************)
(* add: the newcomer's own id and address are checked, then it is taken.   *)
(***************************************************************************)
Accepts(rn) ==
  /\ rn.id # self
  /\ \A n \in table : n.addr # rn.addr

AddFree(rn) ==
  /\ Accepts(rn)
  /\ Cardinality(table) < max
  /\ table' = table \cup {rn}

(* When full, some node that another one is at least as close as goes. *)
AddFull(rn) ==
  /\ Accepts(rn)
  /\ Cardinality(table) = max
  /\ \E victim \in table :
       /\ \E n \in (table \cup {rn}) \ {victim} : dist[n.id] >= dist[victim.id]
       /\ table' = (table \cup {rn}) \ {victim}

Flush == table' = {}

Next ==
  \/ \E rn \in Node : AddFree(rn) \/ AddFull(rn)
  \/ Flush

Spec == Init /\ [][Next]_table
=============================================================================
