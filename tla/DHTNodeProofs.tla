--------------------------- MODULE DHTNodeProofs ---------------------------
(***************************************************************************)
(* Proofs about DHTNode, for tables, channels, slabs and blacklists of any *)
(* size, ids of any length and any packets.                                *)
(***************************************************************************)
EXTENDS DHTNode, InfohashProofs, FiniteSetTheorems

-----------------------------------------------------------------------------
(***************************************************************************)
(* Lemmas: bounded sets, the nodes of a response                           *)
(***************************************************************************)

(* The limits, one by one. *)
LEMMA Limits ==
  /\ max \in Nat /\ QueueCap \in Nat /\ NumBlocks \in Nat /\ BlackCap \in Nat
  /\ max > 0 /\ QueueCap > 0 /\ NumBlocks > 0 /\ BlackCap > 0
BY NodeAssumption

AtMost(S, n) == IsFiniteSet(S) /\ Cardinality(S) <= n

(* A set with room for one more takes one more. *)
LEMMA AddKeepsBound ==
  ASSUME NEW S, NEW n \in Nat, IsFiniteSet(S), Cardinality(S) < n, NEW x
  PROVE  AtMost(S \cup {x}, n)
<1>1. Cardinality(S) \in Nat
  BY FS_CardinalityType
<1> QED BY <1>1, FS_AddElement DEF AtMost

(* A full one exchanges a member for another. *)
LEMMA ExchangeKeepsBound ==
  ASSUME NEW S, NEW n \in Nat, AtMost(S, n), NEW v \in S, NEW x
  PROVE  AtMost((S \ {v}) \cup {x}, n)
<1>1. Cardinality(S) \in Nat
  BY FS_CardinalityType DEF AtMost
<1>2. IsFiniteSet(S \ {v}) /\ Cardinality(S \ {v}) = Cardinality(S) - 1
  BY FS_RemoveElement DEF AtMost
<1>3. Cardinality(S \ {v}) < n
  BY <1>1, <1>2 DEF AtMost
<1> QED BY <1>2, <1>3, AddKeepsBound

(* ARCCache.Add keeps the blacklist within its capacity. *)
LEMMA BlacklistBounded ==
  ASSUME AtMost(blacklist, BlackCap), NEW a, Blacklist(a)
  PROVE  AtMost(blacklist', BlackCap)
<1>1. CASE a \in blacklist
  <2>1. blacklist' = blacklist
    BY <1>1, Zenon DEF Blacklist
  <2> QED BY <2>1
<1>2. CASE a \notin blacklist /\ Cardinality(blacklist) < BlackCap
  <2>1. blacklist' = blacklist \cup {a}
    BY <1>2, Zenon DEF Blacklist
  <2> QED BY <1>2, <2>1, AddKeepsBound, Limits DEF AtMost
<1>3. CASE a \notin blacklist /\ ~(Cardinality(blacklist) < BlackCap)
  <2>1. PICK v \in blacklist : blacklist' = (blacklist \ {v}) \cup {a}
    BY <1>3, Zenon DEF Blacklist
  <2> QED BY <2>1, ExchangeKeepsBound, Limits
<1> QED BY <1>1, <1>2, <1>3

(* A sequence of members of some set. *)
IsSeq(s) == \E S : s \in Seq(S)

(* The loop of processFindNodeResults builds a sequence. *)
LEMMA ListedNodesIsSeq ==
  ASSUME NEW n, NEW nodeList \in Seq(Byte)
  PROVE  IsSeq(ListedNodes(n, nodeList))
<1> DEFINE count == Len(nodeList) \div NodeLength(n)
           Node(i) == NodeAt(n, nodeList, i - 1)
           Taken(i) == Resolves(n, Node(i).addr) /\ Node(i).addr.port # 0
           Sol(g, k) == g = [i \in 0 .. k |->
                              IF i = 0 THEN << >>
                              ELSE IF Taken(i) THEN Append(g[i - 1], Node(i)) ELSE g[i - 1]]
           S == {Node(i) : i \in Nat}
           Good(k) == \E g : Sol(g, k) /\ \A i \in 0 .. k : g[i] \in Seq(S)
           Bad == {k \in Nat : ~Good(k)}
<1>1. count \in Nat
  <2>1. NodeLength(n) \in Nat /\ NodeLength(n) > 0
    BY Lengths, KrpcAssumption DEF NodeLength, AddrLen
  <2>2. \A x, y \in Nat : y > 0 => x \div y \in Nat
    OBVIOUS
  <2> QED BY <2>1, <2>2
<1> HIDE DEF count, Node, Taken
<1>2. Bad = {}
  <2>1. SUFFICES ASSUME Bad # {} PROVE FALSE
    OBVIOUS
  <2>2. PICK k \in Bad : \A l \in Bad : k <= l
    <3>1. Bad \subseteq Nat
      OBVIOUS
    <3> HIDE DEF Bad
    <3> QED BY <2>1, <3>1, FirstIsLeast
  <2>3. k # 0
    <3> DEFINE h == [i \in 0 .. 0 |-> << >>]
    <3>1. Sol(h, 0)
      OBVIOUS
    <3>2. \A i \in 0 .. 0 : h[i] \in Seq(S)
      OBVIOUS
    <3>3. Good(0)
      BY <3>1, <3>2
    <3> HIDE DEF Good
    <3> QED BY <3>3
  <2>4. k - 1 \in Nat /\ k - 1 \notin Bad /\ k \in Nat
    <3>1. k \in Nat
      OBVIOUS
    <3> HIDE DEF Bad
    <3> QED BY <2>2, <2>3, <3>1
  <2>5. PICK g : Sol(g, k - 1) /\ \A i \in 0 .. k - 1 : g[i] \in Seq(S)
    <3>1. Good(k - 1)
      BY <2>4
    <3> QED BY <3>1
  <2> DEFINE last == IF Taken(k) THEN Append(g[k - 1], Node(k)) ELSE g[k - 1]
             h == [i \in 0 .. k |-> IF i = k THEN last ELSE g[i]]
  <2>6. \A i \in 0 .. k - 1 : h[i] = g[i]
    BY <2>4
  <2>7. last \in Seq(S)
    <3>1. Node(k) \in S
      BY <2>4
    <3> HIDE DEF S
    <3>2. k - 1 \in 0 .. k - 1
      BY <2>4
    <3>3. g[k - 1] \in Seq(S)
      BY <2>5, <3>2
    <3> HIDE DEF Node
    <3> QED BY <3>1, <3>3
  <2>8. h[k] = last
    BY <2>4
  <2>9. \A i \in 0 .. k : h[i] \in Seq(S)
    <3> HIDE DEF h, last, S
    <3>1. TAKE i \in 0 .. k
    <3>2. CASE i = k
      BY <2>7, <2>8, <3>2
    <3>3. CASE i # k
      <4>1. i \in 0 .. k - 1
        BY <2>4, <3>3
      <4> QED BY <2>5, <2>6, <4>1
    <3> QED BY <3>2, <3>3
  <2>10. \A i \in 0 .. k : h[i] = IF i = 0 THEN << >>
                                  ELSE IF Taken(i) THEN Append(h[i - 1], Node(i)) ELSE h[i - 1]
    <3>1. TAKE i \in 0 .. k
    <3>2. CASE i = k
      <4>1. h[k - 1] = g[k - 1]
        BY <2>4, <2>6
      <4> HIDE DEF h
      <4> QED BY <2>3, <2>8, <3>2, <4>1
    <3>3. CASE i # k
      <4>1. i \in 0 .. k - 1 /\ h[i] = g[i]
        BY <2>4, <2>6, <3>3
      <4>2. g[i] = IF i = 0 THEN << >>
                   ELSE IF Taken(i) THEN Append(g[i - 1], Node(i)) ELSE g[i - 1]
        BY <2>5, <4>1
      <4>3. i # 0 => g[i - 1] = h[i - 1]
        BY <2>4, <2>6, <4>1
      <4> HIDE DEF h
      <4> QED BY <4>1, <4>2, <4>3, Zenon
    <3> QED BY <3>2, <3>3
  <2>11. Sol(h, k)
    <3>1. h = [i \in 0 .. k |-> h[i]]
      OBVIOUS
    <3> HIDE DEF h
    <3> QED BY <2>10, <3>1
  <2>12. Good(k)
    <3> HIDE DEF h, S
    <3> QED BY <2>9, <2>11
  <2> QED BY <2>12
<1>3. Good(count)
  BY <1>1, <1>2
<1> DEFINE upTo == CHOOSE g : Sol(g, count)
<1>4. ListedNodes(n, nodeList) = upTo[count]
  BY DEF ListedNodes, count, Node, Taken
<1>5. Sol(upTo, count)
  BY <1>3
<1> HIDE DEF upTo
<1>6. \A i \in 0 .. count : upTo[i] = IF i = 0 THEN << >>
                                      ELSE IF Taken(i) THEN Append(upTo[i - 1], Node(i))
                                      ELSE upTo[i - 1]
  BY <1>5
<1> HIDE DEF Sol
<1> DEFINE Odd == {i \in 0 .. count : upTo[i] \notin Seq(S)}
<1>7. Odd = {}
  <2>1. SUFFICES ASSUME Odd # {} PROVE FALSE
    OBVIOUS
  <2>2. PICK k \in Odd : \A l \in Odd : k <= l
    <3>1. Odd \subseteq Nat
      BY <1>1
    <3> HIDE DEF Odd
    <3> QED BY <2>1, <3>1, FirstIsLeast
  <2>3. k \in 0 .. count /\ upTo[k] \notin Seq(S)
    OBVIOUS
  <2>4. k # 0
    <3>1. SUFFICES ASSUME k = 0 PROVE FALSE
      OBVIOUS
    <3>2. upTo[k] = << >>
      BY <1>6, <2>3, <3>1
    <3>3. << >> \in Seq(S)
      OBVIOUS
    <3> QED BY <2>3, <3>2, <3>3, Zenon
  <2>5. k - 1 \in 0 .. count /\ ~(k <= k - 1)
    BY <1>1, <2>3, <2>4
  <2>6. upTo[k - 1] \in Seq(S)
    BY <2>2, <2>5
  <2>7. Node(k) \in S
    BY <1>1, <2>3
  <2>8. upTo[k] = Append(upTo[k - 1], Node(k)) \/ upTo[k] = upTo[k - 1]
    BY <1>6, <2>3, <2>4
  <2> HIDE DEF S, Odd
  <2>9. Append(upTo[k - 1], Node(k)) \in Seq(S)
    BY <2>6, <2>7
  <2> QED BY <2>3, <2>6, <2>8, <2>9, Zenon
<1>8. upTo[count] \in Seq(S)
  BY <1>1, <1>7
<1> QED BY <1>4, <1>8 DEF IsSeq


-----------------------------------------------------------------------------
(***************************************************************************)
(* The invariant, part by part                                             *)
(***************************************************************************)

(* An entry as rTable.add gets it: its distance is that of its id. *)
Right(e) == e = Entry(e.addr, e.id)

(* An entry as the table keeps it: makeNeighbours may have rewritten the   *)
(* id, and the distance is still right or the id has become our own.       *)
Kept(e) ==
  /\ e = [addr |-> e.addr, id |-> e.id, d |-> e.d]
  /\ e.d = Distance(self, e.id) \/ e.id = self

(* The reader holds one block, or none while it allocates one, and all it  *)
(* is going to add is right.                                               *)
ReaderInv ==
  /\ rpc \in {"alloc", "read", "reply", "work", "stopped", "panic"}
  /\ slab = IF rpc = "alloc" THEN NumBlocks ELSE NumBlocks - 1
  /\ \E S : todo \in Seq(S) /\ \A e \in S : Right(e)

TableInv == AtMost(table, max) /\ \A e \in table : Kept(e)

BlacklistInv == AtMost(blacklist, BlackCap)

QueueInv == IsSeq(packetsOut) /\ Len(packetsOut) <= QueueCap

Distant(rn) == \E i \in 1 .. Half : rn.id[i] # self[i]

(* A distant node of the round has been asked, is being asked or is still  *)
(* to come.                                                                *)
RoundInv ==
  /\ mpc \in {"boot", "bootsend", "wait", "round", "queue"}
  /\ asked \subseteq round
  /\ mpc = "queue" => target \in round
  /\ mpc \in {"round", "queue"} =>
       /\ left \subseteq round
       /\ \A rn \in round :
            Distant(rn) => rn \in asked \/ rn \in left \/ (mpc = "queue" /\ rn = target)

NodeInv ==
  /\ ReaderInv /\ TableInv /\ BlacklistInv /\ QueueInv /\ RoundInv
  /\ wpc \in {"take", "write"}

-----------------------------------------------------------------------------
(***************************************************************************)
(* The steps' parts                                                        *)
(***************************************************************************)

(* A send into packetsOut. *)
LEMMA EnqueueInv ==
  ASSUME QueueInv, NEW a, Enqueue(a)
  PROVE  QueueInv'
<1>1. PICK S : packetsOut \in Seq(S)
  BY DEF QueueInv, IsSeq
<1> DEFINE T == S \cup {a}
<1>2. packetsOut \in Seq(T) /\ a \in T
  BY <1>1
<1> HIDE DEF T
<1>3. packetsOut' = Append(packetsOut, a) /\ Len(packetsOut) < QueueCap
  BY DEF Enqueue, HasRoom
<1>4. packetsOut' \in Seq(T) /\ Len(packetsOut') = Len(packetsOut) + 1
  BY <1>2, <1>3
<1>5. Len(packetsOut) \in Nat
  BY <1>2
<1>6. Len(packetsOut') <= QueueCap
  BY <1>3, <1>4, <1>5, Limits
<1> QED BY <1>4, <1>6 DEF QueueInv, IsSeq

(* rTable.add of an entry that is right. *)
LEMMA AddInv ==
  ASSUME TableInv, NEW n, Right(n), Add(n)
  PROVE  TableInv'
<1>1. Kept(n)
  BY DEF Right, Kept, Entry
<1>2. CASE Refused(n)
  <2>1. table' = table
    BY <1>2 DEF Add
  <2> QED BY <2>1 DEF TableInv, Kept
<1>3. CASE ~Refused(n) /\ Cardinality(table) < max
  <2>0. Cardinality(table) \in Nat
    BY FS_CardinalityType DEF TableInv, AtMost
  <2>1. table' = table \cup {n}
    <3>1. ~(Cardinality(table) >= max)
      BY <1>3, <2>0, Limits
    <3> QED BY <1>3, <3>1, Zenon DEF Add
  <2>2. AtMost(table \cup {n}, max)
    BY <1>3, AddKeepsBound, Limits DEF TableInv, AtMost
  <2> QED BY <1>1, <2>1, <2>2 DEF TableInv
<1>4. CASE ~Refused(n) /\ ~(Cardinality(table) < max)
  <2>1. Cardinality(table) \in Nat
    BY FS_CardinalityType DEF TableInv, AtMost
  <2>2. Cardinality(table) >= max
    BY <1>4, <2>1, Limits
  <2>3. PICK victim \in table : table' = (table \cup {n}) \ {victim}
    BY <1>4, <2>2 DEF Add
  <2>4. n \notin table
    BY <1>4 DEF Refused
  <2>5. table' = (table \ {victim}) \cup {n}
    BY <2>3, <2>4
  <2>6. AtMost(table', max)
    BY <2>5, ExchangeKeepsBound, Limits DEF TableInv
  <2> QED BY <1>1, <2>5, <2>6 DEF TableInv
<1> QED BY <1>2, <1>3, <1>4

(* The entries of a packet: all of them are right. *)
LEMMA AddsRight ==
  ASSUME NEW p \in Parsed
  PROVE  \E S : Adds(p) \in Seq(S) /\ \A e \in S : Right(e)
<1> DEFINE n == [id |-> self, family |-> family]
           sender == Entry(p.src, p.id)
           L == {Entry(p.nodes[i].addr, p.nodes[i].id) : i \in DOMAIN p.nodes}
           S == L \cup {sender}
<1>1. PICK q \in Packets : p = [src |-> q.src, kind |-> Kind(n, q.src, q.msg),
                                id |-> SenderId(n, q.src, q.msg),
                                nodes |-> NodesIn(n, q.src, q.msg)]
  BY Zenon DEF Parsed
<1>2. p.kind = Kind(n, q.src, q.msg) /\ p.nodes = NodesIn(n, q.src, q.msg)
  BY <1>1
<1>3. \A a, id : Right(Entry(a, id))
  BY DEF Right, Entry
<1>4. \A e \in S : Right(e)
  <2>1. Right(sender)
    BY <1>3
  <2>2. \A e \in L : Right(e)
    BY <1>3
  <2> QED BY <2>1, <2>2
<1>5. CASE p.kind = "nodes"
  <2>1. Get(Get(q.msg, "r"), "nodes") \in Seq(Byte)
    BY <1>2, <1>5, NodeAssumption
  <2>2. p.nodes = ListedNodes(n, Get(Get(q.msg, "r"), "nodes"))
    BY <1>2, <1>5 DEF NodesIn
  <2>3. IsSeq(p.nodes)
    BY <2>1, <2>2, ListedNodesIsSeq
  <2>4. PICK T : p.nodes \in Seq(T)
    BY <2>3 DEF IsSeq
  <2>5. DOMAIN p.nodes = 1 .. Len(p.nodes) /\ Len(p.nodes) \in Nat
    BY <2>4
  <2>6. Listed(p) \in [1 .. Len(p.nodes) -> S]
    BY <2>5 DEF Listed
  <2>7. sender \in S
    OBVIOUS
  <2> HIDE DEF S, sender
  <2>8. Listed(p) \in Seq(S)
    BY <2>5, <2>6, IsSequence
  <2>9. Listed(p) \o Listed(p) \o <<sender>> \in Seq(S)
    BY <2>7, <2>8
  <2>10. Adds(p) = Listed(p) \o Listed(p) \o <<sender>>
    BY <1>5 DEF Adds, sender
  <2> QED BY <1>4, <2>9, <2>10
<1>6. CASE p.kind # "nodes"
  <2>1. Adds(p) = <<sender>> \/ Adds(p) = << >>
    BY <1>6 DEF Adds
  <2>2. sender \in S
    OBVIOUS
  <2> HIDE DEF S, sender
  <2>3. << >> \in Seq(S) /\ <<sender>> \in Seq(S)
    BY <2>2
  <2>4. Adds(p) \in Seq(S)
    BY <2>1, <2>3, Zenon
  <2> QED BY <1>4, <2>4
<1> QED BY <1>5, <1>6


(* The rewritten entry of NextTarget is kept right, or its id is our own. *)
LEMMA RewrittenKept ==
  ASSUME NEW rn, Kept(rn)
  PROVE  Kept([rn EXCEPT !.id = GenerateNeighbour(self, rn.id)])
<1> DEFINE id == GenerateNeighbour(self, rn.id)
           m == [rn EXCEPT !.id = id]
<1>1. m = [addr |-> rn.addr, id |-> id, d |-> rn.d]
  BY DEF Kept
<1>2. id = self \/ rn.d = Distance(self, id)
  <2>1. CASE \E h \in 1 .. Half : rn.id[h] # self[h]
    <3>1. PICK h \in 1 .. Half : self[h] # rn.id[h]
      BY <2>1
    <3>2. Distance(self, id) = Distance(self, rn.id)
      BY <3>1, NeighbourDiffers
    <3>3. rn.id # self
      BY <3>1
    <3> QED BY <3>2, <3>3 DEF Kept
  <2>2. CASE \A h \in 1 .. Half : self[h] = rn.id[h]
    BY <2>2, NeighbourIsSelf, NodeAssumption
  <2> QED BY <2>1, <2>2
<1> HIDE DEF id
<1>3. Kept(m)
  BY <1>1, <1>2 DEF Kept
<1> QED BY <1>3 DEF id

(* A neighbour id that equals our own came from a node that shares the     *)
(* first half of our id.                                                   *)
LEMMA EqualNotDistant ==
  ASSUME NEW rn, Equal(GenerateNeighbour(self, rn.id), self)
  PROVE  ~Distant(rn)
<1> DEFINE g == GenerateNeighbour(self, rn.id)
<1>1. DOMAIN g = 1 .. InfohashLength
  BY DEF GenerateNeighbour
<1>2. Len(self) = InfohashLength
  BY NodeAssumption, Lengths, IsSequence DEF Id
<1>3. \A i \in 1 .. InfohashLength : g[i] = self[i]
  <2> HIDE DEF g
  <2>1. Len(g) = Len(self) /\ \A i \in 1 .. Len(g) : g[i] = self[i]
    BY Zenon DEF Equal, g
  <2> QED BY <1>2, <2>1
<1>4. \A i \in 1 .. Half : i \in 1 .. InfohashLength /\ g[i] = rn.id[i]
  BY Lengths DEF GenerateNeighbour
<1> HIDE DEF g
<1> QED BY <1>3, <1>4 DEF Distant

-----------------------------------------------------------------------------
(***************************************************************************)
(* The reader's steps                                                      *)
(***************************************************************************)
LEMMA InitInv == Init => NodeInv
<1> SUFFICES ASSUME Init PROVE NodeInv
  OBVIOUS
<1>1. ReaderInv
  <2>1. todo \in Seq({}) /\ \A e \in {} : Right(e)
    BY DEF Init
  <2> QED BY <2>1 DEF Init, ReaderInv
<1>2. IsFiniteSet({}) /\ Cardinality({}) = 0
  BY FS_EmptySet
<1>3. TableInv /\ BlacklistInv
  BY <1>2, Limits DEF Init, TableInv, BlacklistInv, AtMost
<1>4. QueueInv
  <2>1. packetsOut \in Seq({}) /\ Len(packetsOut) = 0
    BY DEF Init
  <2> QED BY <2>1, Limits DEF QueueInv, IsSeq
<1>5. RoundInv
  BY DEF Init, RoundInv
<1> QED BY <1>1, <1>3, <1>4, <1>5 DEF Init, NodeInv

(* A step that leaves a part's variables alone leaves the part alone. *)
LEMMA Untouched ==
  /\ ReaderInv /\ UNCHANGED <<rpc, slab, todo>> => ReaderInv'
  /\ TableInv /\ UNCHANGED table => TableInv'
  /\ BlacklistInv /\ UNCHANGED blacklist => BlacklistInv'
  /\ QueueInv /\ UNCHANGED packetsOut => QueueInv'
  /\ RoundInv /\ UNCHANGED neighbourVars => RoundInv'
<1>1. ReaderInv /\ UNCHANGED <<rpc, slab, todo>> => ReaderInv'
  BY DEF ReaderInv, Right, Entry
<1>2. TableInv /\ UNCHANGED table => TableInv'
  BY DEF TableInv, Kept
<1>3. BlacklistInv /\ UNCHANGED blacklist => BlacklistInv'
  BY DEF BlacklistInv
<1>4. QueueInv /\ UNCHANGED packetsOut => QueueInv'
  BY DEF QueueInv
<1>5. RoundInv /\ UNCHANGED neighbourVars => RoundInv'
  BY DEF RoundInv, neighbourVars
<1> QED BY <1>1, <1>2, <1>3, <1>4, <1>5

LEMMA ReaderStep ==
  ASSUME NodeInv, Reader
  PROVE  NodeInv'
<1> USE DEF NodeInv
<1>1. CASE Alloc
  <2>1. ReaderInv'
    BY <1>1, Limits DEF Alloc, ReaderInv, Right, Entry
  <2>2. UNCHANGED <<table, blacklist, packetsOut, wpc, neighbourVars>>
    BY <1>1 DEF Alloc, writerVars
  <2> QED BY <2>1, <2>2, Untouched
<1>2. CASE ReadError
  <2>1. ReaderInv'
    BY <1>2 DEF ReadError, ReaderInv, Right, Entry
  <2>2. UNCHANGED <<table, blacklist, packetsOut, wpc, neighbourVars>>
    BY <1>2 DEF ReadError, writerVars
  <2> QED BY <2>1, <2>2, Untouched
<1>3. CASE \E p \in Parsed : ReadPacket(p)
  <2>1. PICK p \in Parsed : ReadPacket(p)
    BY <1>3
  <2>2. ReaderInv'
    <3>1. rpc = "read" /\ slab' = slab /\ rpc' \in {"work", "panic", "reply"}
      BY <2>1 DEF ReadPacket
    <3>2. todo' = << >> \/ todo' = Adds(p)
      BY <2>1 DEF ReadPacket
    <3>3. \E S : todo' \in Seq(S) /\ \A e \in S : Right(e)
      <4>1. CASE todo' = << >>
        <5>1. todo' \in Seq({}) /\ \A e \in {} : Right(e)
          BY <4>1
        <5> QED BY <5>1
      <4>2. CASE todo' = Adds(p)
        BY <4>2, AddsRight
      <4> QED BY <3>2, <4>1, <4>2
    <3> QED BY <3>1, <3>3 DEF ReaderInv, Right, Entry
  <2>3. BlacklistInv'
    <3>1. Blacklist(p.src) \/ UNCHANGED blacklist
      BY <2>1, Zenon DEF ReadPacket
    <3>2. Blacklist(p.src) => BlacklistInv'
      BY BlacklistBounded DEF BlacklistInv
    <3> QED BY <3>1, <3>2, Untouched
  <2>4. UNCHANGED <<table, packetsOut, wpc, neighbourVars>>
    BY <2>1 DEF ReadPacket, writerVars
  <2> QED BY <2>2, <2>3, <2>4, Untouched
<1>4. CASE Reply
  <2>1. ReaderInv'
    BY <1>4 DEF Reply, ReaderInv, Right, Entry
  <2>2. QueueInv'
    BY <1>4, EnqueueInv DEF Reply
  <2>3. UNCHANGED <<table, blacklist, wpc, neighbourVars>>
    BY <1>4 DEF Reply, writerVars
  <2> QED BY <2>1, <2>2, <2>3, Untouched
<1>5. CASE Work
  <2>1. PICK S : todo \in Seq(S) /\ \A e \in S : Right(e)
    BY DEF ReaderInv
  <2>2. Head(todo) \in S /\ Tail(todo) \in Seq(S)
    BY <1>5, <2>1 DEF Work
  <2>3. ReaderInv'
    BY <1>5, <2>1, <2>2 DEF Work, ReaderInv, Right, Entry
  <2>4. TableInv'
    BY <1>5, <2>1, <2>2, AddInv DEF Work
  <2>5. UNCHANGED <<blacklist, packetsOut, wpc, neighbourVars>>
    BY <1>5 DEF Work, writerVars
  <2> QED BY <2>3, <2>4, <2>5, Untouched
<1>6. CASE Done
  <2>1. ReaderInv'
    BY <1>6, Limits DEF Done, ReaderInv, Right, Entry
  <2>2. BlacklistInv'
    <3>1. Blacklist(pkt.src) \/ UNCHANGED blacklist
      BY <1>6, Zenon DEF Done
    <3>2. Blacklist(pkt.src) => BlacklistInv'
      BY BlacklistBounded DEF BlacklistInv
    <3> QED BY <3>1, <3>2, Untouched
  <2>3. UNCHANGED <<table, packetsOut, wpc, neighbourVars>>
    BY <1>6 DEF Done, writerVars
  <2> QED BY <2>1, <2>2, <2>3, Untouched
<1> QED BY <1>1, <1>2, <1>3, <1>4, <1>5, <1>6 DEF Reader


-----------------------------------------------------------------------------
(***************************************************************************)
(* The steps of the writer and of makeNeighbours                           *)
(***************************************************************************)
LEMMA WriterStep ==
  ASSUME NodeInv, Writer
  PROVE  NodeInv'
<1> USE DEF NodeInv
<1>1. CASE Take
  <2>1. PICK S : packetsOut \in Seq(S)
    BY DEF QueueInv, IsSeq
  <2>2. packetsOut # << >> /\ packetsOut' = Tail(packetsOut)
    BY <1>1 DEF Take
  <2>3. packetsOut' \in Seq(S) /\ Len(packetsOut') = Len(packetsOut) - 1 /\ Len(packetsOut) \in Nat
    BY <2>1, <2>2
  <2>4. Len(packetsOut') <= QueueCap
    BY <2>3, Limits DEF QueueInv
  <2>5. QueueInv'
    BY <2>3, <2>4 DEF QueueInv, IsSeq
  <2>6. wpc' \in {"take", "write"} /\ UNCHANGED <<rpc, slab, todo, table, blacklist, neighbourVars>>
    BY <1>1 DEF Take, readerVars
  <2> QED BY <2>5, <2>6, Untouched
<1>2. CASE Write
  <2>1. wpc' = "take" /\ UNCHANGED <<rpc, slab, todo, table, blacklist, packetsOut, neighbourVars>>
    BY <1>2 DEF Write, readerVars
  <2> QED BY <2>1, Untouched
<1>3. CASE WriteFails
  <2>1. BlacklistInv'
    BY <1>3, BlacklistBounded DEF WriteFails, BlacklistInv
  <2>2. wpc' = "take" /\ UNCHANGED <<rpc, slab, todo, table, packetsOut, neighbourVars>>
    BY <1>3 DEF WriteFails, readerVars
  <2> QED BY <2>1, <2>2, Untouched
<1> QED BY <1>1, <1>2, <1>3 DEF Writer

(* One node of the round: its entry is rewritten, and its query comes next *)
(* unless the node shares the first half of our id.                        *)
LEMMA NextTargetInv ==
  ASSUME NodeInv, NextTarget
  PROVE  TableInv' /\ RoundInv'
<1>1. PICK rn \in left :
        /\ left' = left \ {rn}
        /\ table' = {IF n = rn THEN [rn EXCEPT !.id = GenerateNeighbour(self, rn.id)] ELSE n :
                       n \in table}
        /\ IF Equal(GenerateNeighbour(self, rn.id), self)
             THEN UNCHANGED <<mpc, target>>
             ELSE mpc' = "queue" /\ target' = rn
  BY Zenon DEF NextTarget
<1> DEFINE m == [rn EXCEPT !.id = GenerateNeighbour(self, rn.id)]
<1>2. mpc = "round" /\ UNCHANGED <<asked, round>>
  BY DEF NextTarget
<1>3. TableInv'
  <2>1. Kept(rn) => Kept(m)
    BY RewrittenKept
  <2> HIDE DEF m
  <2>2. table' = {IF n = rn THEN m ELSE n : n \in table}
    BY <1>1 DEF m
  <2>3. AtMost(table', max)
    <3>1. CASE rn \notin table
      <4>1. table' = table
        BY <2>2, <3>1
      <4> QED BY <4>1 DEF NodeInv, TableInv
    <3>2. CASE rn \in table
      <4>1. table' = (table \ {rn}) \cup {m}
        BY <2>2, <3>2
      <4> QED BY <3>2, <4>1, ExchangeKeepsBound, Limits DEF NodeInv, TableInv
    <3> QED BY <3>1, <3>2
  <2>4. \A e \in table' : Kept(e)
    BY <2>1, <2>2 DEF NodeInv, TableInv
  <2> QED BY <2>3, <2>4 DEF TableInv
<1>4. RoundInv'
  <2>1. /\ left \subseteq round /\ asked \subseteq round
        /\ \A n \in round : Distant(n) => n \in asked \/ n \in left
    BY <1>2 DEF NodeInv, RoundInv
  <2>2. CASE Equal(GenerateNeighbour(self, rn.id), self)
    <3>1. ~Distant(rn)
      BY <2>2, EqualNotDistant
    <3>2. mpc' = "round" /\ left' = left \ {rn}
      BY <1>1, <1>2, <2>2
    <3>3. \A n \in round : Distant(n) => n \in asked \/ n \in left'
      BY <2>1, <3>1, <3>2
    <3> QED BY <1>2, <2>1, <3>2, <3>3 DEF RoundInv, Distant
  <2>3. CASE ~Equal(GenerateNeighbour(self, rn.id), self)
    <3>1. mpc' = "queue" /\ target' = rn /\ left' = left \ {rn}
      BY <1>1, <2>3
    <3>2. \A n \in round : Distant(n) => n \in asked \/ n \in left' \/ n = target'
      BY <2>1, <3>1
    <3>3. rn \in round
      BY <2>1
    <3> QED BY <1>2, <2>1, <3>1, <3>2, <3>3 DEF RoundInv, Distant
  <2> QED BY <2>2, <2>3
<1> QED BY <1>3, <1>4

LEMMA NeighboursStep ==
  ASSUME NodeInv, Neighbours
  PROVE  NodeInv'
<1> USE DEF NodeInv
<1>0. CASE BootSend
  <2>1. QueueInv'
    BY <1>0, EnqueueInv DEF BootSend
  <2>2. RoundInv'
    BY <1>0 DEF BootSend, RoundInv
  <2>3. UNCHANGED <<rpc, slab, todo, table, blacklist, wpc>>
    BY <1>0 DEF BootSend, readerVars, writerVars
  <2> QED BY <2>1, <2>2, <2>3, Untouched
<1>1. CASE Boot
  <2>1. RoundInv'
    BY <1>1 DEF Boot, RoundInv
  <2>2. UNCHANGED <<rpc, slab, todo, table, blacklist, packetsOut, wpc>>
    BY <1>1 DEF Boot, readerVars, writerVars
  <2> QED BY <2>1, <2>2, Untouched
<1>2. CASE Booted
  <2>1. RoundInv'
    BY <1>2 DEF Booted, RoundInv
  <2>2. UNCHANGED <<rpc, slab, todo, table, blacklist, packetsOut, wpc>>
    BY <1>2 DEF Booted, readerVars, writerVars
  <2> QED BY <2>1, <2>2, Untouched
<1>3. CASE Tick
  <2>1. RoundInv'
    <3>1. mpc' \in {"boot", "round"} /\ round' = table /\ asked' = {}
      BY <1>3 DEF Tick
    <3>2. mpc' = "round" => left' = table
      BY <1>3 DEF Tick
    <3> QED BY <3>1, <3>2 DEF RoundInv
  <2>2. UNCHANGED <<rpc, slab, todo, table, blacklist, packetsOut, wpc>>
    BY <1>3 DEF Tick, readerVars, writerVars
  <2> QED BY <2>1, <2>2, Untouched
<1>4. CASE NextTarget
  <2>1. UNCHANGED <<rpc, slab, todo, blacklist, packetsOut, wpc>>
    BY <1>4 DEF NextTarget, readerVars, writerVars
  <2> QED BY <1>4, <2>1, NextTargetInv, Untouched
<1>5. CASE SendQuery
  <2>1. QueueInv'
    BY <1>5, EnqueueInv DEF SendQuery
  <2>2. RoundInv'
    <3>1. /\ mpc = "queue" /\ mpc' = "round" /\ asked' = asked \cup {target}
          /\ UNCHANGED <<left, target, round>>
      BY <1>5 DEF SendQuery
    <3> QED BY <3>1 DEF RoundInv, Distant
  <2>3. UNCHANGED <<rpc, slab, todo, table, blacklist, wpc>>
    BY <1>5 DEF SendQuery, readerVars, writerVars
  <2> QED BY <2>1, <2>2, <2>3, Untouched
<1>6. CASE Flush
  <2>1. TableInv'
    <3>1. table' = {}
      BY <1>6 DEF Flush
    <3> QED BY <3>1, FS_EmptySet, Limits DEF TableInv, AtMost
  <2>2. RoundInv'
    BY <1>6 DEF Flush, RoundInv
  <2>3. UNCHANGED <<rpc, slab, todo, blacklist, packetsOut, wpc>>
    BY <1>6 DEF Flush, readerVars, writerVars
  <2> QED BY <2>1, <2>2, <2>3, Untouched
<1> QED BY <1>0, <1>1, <1>2, <1>3, <1>4, <1>5, <1>6 DEF Neighbours

-----------------------------------------------------------------------------
(***************************************************************************)
(* Theorems                                                                *)
(***************************************************************************)

(* Every step keeps the invariant: the reader (Run, processPacket), the    *)
(* writer (packetWriter) and makeNeighbours, in any order.                 *)
THEOREM NodeInvariant == Spec => []NodeInv
<1>1. Init => NodeInv
  BY InitInv
<1>2. NodeInv /\ [Next]_vars => NodeInv'
  <2> SUFFICES ASSUME NodeInv, [Next]_vars PROVE NodeInv'
    OBVIOUS
  <2>1. CASE UNCHANGED vars
    <3>1. UNCHANGED <<rpc, slab, todo, table, blacklist, packetsOut, wpc, neighbourVars>>
      BY <2>1 DEF vars, readerVars, writerVars
    <3> QED BY <3>1, Untouched DEF NodeInv
  <2>2. CASE Reader
    BY <2>2, ReaderStep
  <2>3. CASE Writer
    BY <2>3, WriterStep
  <2>4. CASE Neighbours
    BY <2>4, NeighboursStep
  <2>5. Panicked => UNCHANGED vars
    BY DEF Panicked
  <2> QED BY <2>1, <2>2, <2>3, <2>4, <2>5 DEF Next
<1> QED BY <1>1, <1>2, PTL DEF Spec

(* The slab never runs dry or overflows, and the table, the blacklist and  *)
(* packetsOut stay within max, BlackCap and QueueCap.                      *)
THEOREM NodeTyped == Spec => []TypeOK
<1>1. NodeInv => TypeOK
  <2> SUFFICES ASSUME NodeInv PROVE TypeOK
    OBVIOUS
  <2>1. slab \in 0 .. NumBlocks
    BY Limits DEF NodeInv, ReaderInv
  <2> QED BY <2>1 DEF NodeInv, ReaderInv, TableInv, BlacklistInv, QueueInv, RoundInv, AtMost, TypeOK
<1> QED BY <1>1, NodeInvariant, PTL

(* The distance that rTable orders an entry by is that of the id it has    *)
(* after GenerateNeighbour's rewriting, or that id is the node's own.      *)
THEOREM NodeDistances == Spec => []DistancesRight
<1>1. NodeInv => DistancesRight
  BY DEF NodeInv, TableInv, Kept, DistancesRight
<1> QED BY <1>1, NodeInvariant, PTL

(* flush ends a round only when every distant node that get returned has   *)
(* had its query put into packetsOut.                                      *)
THEOREM NodeQueries == Spec => DistantNodesQueried
<1> DEFINE Queried == mpc = "round" /\ mpc' = "wait" =>
             \A rn \in round : (\E i \in 1 .. Half : rn.id[i] # self[i]) => rn \in asked
<1>1. NodeInv /\ [Next]_vars => [Queried]_vars
  <2> SUFFICES ASSUME NodeInv, Next, mpc = "round", mpc' = "wait"
               PROVE  \A rn \in round : (\E i \in 1 .. Half : rn.id[i] # self[i]) => rn \in asked
    OBVIOUS
  <2>1. Flush
    <3>1. ~Reader
      BY DEF Reader, Alloc, ReadError, ReadPacket, Reply, Work, Done, neighbourVars
    <3>2. ~Writer
      BY DEF Writer, Take, Write, WriteFails, neighbourVars
    <3>3. ~Panicked
      BY DEF Panicked, vars, neighbourVars
    <3>4. ~(Boot \/ BootSend \/ Booted \/ Tick \/ NextTarget \/ SendQuery)
      BY DEF Boot, BootSend, Booted, Tick, NextTarget, SendQuery
    <3> QED BY <3>1, <3>2, <3>3, <3>4 DEF Next, Neighbours
  <2>2. left = {}
    BY <2>1 DEF Flush
  <2> QED BY <2>2 DEF NodeInv, RoundInv, Distant
<1> QED BY <1>1, NodeInvariant, PTL DEF Spec, DistantNodesQueried
=============================================================================
