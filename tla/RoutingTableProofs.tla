------------------------- MODULE RoutingTableProofs -------------------------
(***************************************************************************)
(* Proofs about RoutingTable, for every table size max >= 2, every set of  *)
(* nodes and every distance function.                                      *)
(***************************************************************************)
EXTENDS RoutingTable, FiniteSetTheorems, TLAPS

(* The part of the array that holds the table's nodes: during heap.Remove  *)
(* the evicted element is already behind it.                               *)
Live == 0 .. (IF apc = "fix" THEN max ELSE len) - 1

D(k) == dist[slots[k].id]

(* What add's program counter says about the array. *)
Shape ==
  /\ \A k \in Used : slots[k] \in Node
  /\ apc = "idle" => len <= max /\ stale = NoStore /\ j = 0
  /\ apc = "up"   => len >= 1 /\ j \in Used
  /\ apc = "fix"  => len = max + 1 /\ j \in 0 .. max - 1
  /\ len = 0 => seen = {}

(* The map and the array, with the evicted element left out. *)
AddrInv ==
  /\ addresses = {slots[k].addr : k \in Live}
  /\ \A k, m \in Used : slots[k].addr = slots[m].addr => k = m

(* Nothing that a racing reader can see is from before the last flush. *)
SeenInv ==
  /\ \A k \in Index : slots[k] \in seen \cup {Nil}
  /\ stale.val \in seen \cup {Nil}
  /\ GetMembers

(* The closest node is at the root, or is the element being sifted up. *)
RootClosest == \A n \in seen : dist[n.id] <= D(0)
SiftedClosest == \A n \in seen : n = slots[j] \/ dist[n.id] < D(j)
TopInv ==
  len > 0 => RootClosest \/ (apc = "up" /\ SiftedClosest)

(* The heap order, broken at j only while j is sifted up. *)
HeapInv ==
  \A k \in Live \ {0} :
    /\ k = j \/ D(k) <= D(Parent(k))
    /\ j > 0 /\ Parent(k) = j => D(k) <= D(Parent(j))

(* A store that has not landed hides an element, except in the append. *)
StaleInv ==
  stale # NoStore => 
    /\ stale.at \in Index
    /\ stale.val = Nil => apc = "up" /\ stale.at = len - 1

(* A get that add has not disturbed has copied a prefix of the array. *)
GetInv ==
  gpc = "reading" /\ ~overlap =>
    /\ apc = "idle"
    /\ gn = len /\ gi <= gn
    /\ Len(out) = gi
    /\ \A k \in 1 .. gi : out[k] = slots[k - 1]

IInv ==
  /\ TypeOK
  /\ Shape
  /\ AddrInv
  /\ SeenInv
  /\ TopInv
  /\ HeapInv
  /\ StaleInv
  /\ GetInv

-----------------------------------------------------------------------------
(***************************************************************************)
(* Arithmetic of container/heap's indices.                                 *)
(***************************************************************************)

(* The parent of an index other than the root is a smaller index. *)
LEMMA ParentFact ==
  ASSUME NEW k \in Nat, k > 0
  PROVE  Parent(k) \in Nat /\ Parent(k) < k
BY DEF Parent

-----------------------------------------------------------------------------
(***************************************************************************)
(* Each action preserves the inductive invariant.                          *)
(***************************************************************************)

(* A new node is appended behind a complete heap. *)
LEMMA AddBeginStep ==
  ASSUME IInv, NEW rn \in Node, AddBegin(rn)
  PROVE  IInv'
<1> USE MaxAssumption, NilAssumption, DistAssumption
<1>1. /\ apc = "idle" /\ len \in 0 .. max /\ stale = NoStore /\ j = 0
      /\ rn.addr \notin addresses
      /\ addresses' = addresses \cup {rn.addr}
      /\ slots' = [slots EXCEPT ![len] = rn]
      /\ stale' = [at |-> len, val |-> slots[len]]
      /\ len' = len + 1
      /\ apc' = "up" /\ adding' = rn /\ j' = len
      /\ seen' = seen \cup {rn}
      /\ UNCHANGED getVars
  BY DEF IInv, TypeOK, Shape, AddBegin, AddStep
<1>2. /\ slots \in [Index -> Node \cup {Nil}] /\ slots'[len] = rn
      /\ \A k \in Index : k # len => slots'[k] = slots[k]
  BY <1>1 DEF IInv, TypeOK, Index
<1>3. TypeOK'
  BY <1>1, <1>2 DEF IInv, TypeOK, AddBegin, AddStep, Overlaps, Index, getVars
<1>4. Shape'
  BY <1>1, <1>2 DEF IInv, Shape, Used, Index
<1>5. AddrInv'
  <2>1. addresses' = {slots'[k].addr : k \in 0 .. len}
    BY <1>1, <1>2 DEF IInv, AddrInv, Live, Index
  <2>2. ASSUME NEW k \in 0 .. len, NEW m \in 0 .. len, slots'[k].addr = slots'[m].addr
        PROVE  k = m
    <3>1. \A i \in 0 .. len - 1 : slots[i].addr # rn.addr
      BY <1>1 DEF IInv, AddrInv, Live
    <3>2. \A i \in 0 .. len - 1 : i \in Index /\ i # len /\ slots'[i] = slots[i]
      BY <1>1, <1>2 DEF Index
    <3>3. \A i, l \in 0 .. len - 1 : slots[i].addr = slots[l].addr => i = l
      BY DEF IInv, AddrInv, Used
    <3>4. CASE k = len \/ m = len
      BY <1>1, <1>2, <2>2, <3>1, <3>2, <3>4
    <3>5. CASE k # len /\ m # len
      <4>1. k \in 0 .. len - 1 /\ m \in 0 .. len - 1
        BY <1>1, <3>5
      <4> QED  BY <2>2, <3>2, <3>3, <4>1
    <3> QED  BY <3>4, <3>5
  <2> QED  BY <1>1, <2>1, <2>2 DEF AddrInv, Live, Used
<1>6. SeenInv'
  BY <1>1, <1>2 DEF IInv, SeenInv, GetMembers, getVars, Index
<1>7. TopInv'
  <2>1. CASE len = 0
    BY <1>1, <1>2, <2>1 DEF IInv, Shape, TopInv, RootClosest, D
  <2>2. CASE len > 0
    <3>1. RootClosest /\ slots'[0] = slots[0] /\ slots[0] \in Node
      BY <1>1, <1>2, <2>2 DEF IInv, TopInv, Shape, Used, Index
    <3>2. CASE dist[rn.id] <= D(0)
      BY <1>1, <3>1, <3>2 DEF TopInv, RootClosest, D
    <3>3. CASE dist[rn.id] > D(0)
      <4>1. ASSUME NEW n \in seen  PROVE dist[n.id] < dist[rn.id]
        <5>1. n \in Node
          BY DEF IInv, TypeOK
        <5>2. dist[n.id] \in Int /\ dist[rn.id] \in Int /\ D(0) \in Int
          BY <3>1, <5>1 DEF D
        <5> QED  BY <3>1, <3>3, <5>2 DEF RootClosest
      <4>2. SiftedClosest'
        BY <1>1, <1>2, <4>1 DEF SiftedClosest, D
      <4> QED  BY <1>1, <4>2 DEF TopInv
    <3>4. dist[rn.id] \in Int /\ D(0) \in Int
      BY <3>1 DEF D
    <3> QED  BY <3>2, <3>3, <3>4
  <2> QED  BY <1>1, <2>1, <2>2
<1>8. HeapInv'
  <2> SUFFICES ASSUME NEW k \in 1 .. len
               PROVE  /\ k = len \/ D(k)' <= D(Parent(k))'
                      /\ Parent(k) # len
    BY <1>1 DEF HeapInv, Live, Used
  <2>1. Parent(k) \in Nat /\ Parent(k) < k
    BY ParentFact
  <2> QED  BY <1>1, <1>2, <2>1 DEF IInv, HeapInv, Live, D, Index
<1>9. StaleInv'
  BY <1>1 DEF StaleInv, Index
<1>10. GetInv'
  BY <1>1 DEF GetInv, AddBegin, AddStep, Overlaps, getVars, IInv, TypeOK
<1> QED  BY <1>3, <1>4, <1>5, <1>6, <1>7, <1>8, <1>9, <1>10 DEF IInv

(* A swap keeps the set of entries of any part of the array that holds     *)
(* both of its ends, and keeps the addresses pairwise different.           *)
LEMMA SwapFact ==
  ASSUME NEW a \in Index, NEW b \in Index, NEW U \in SUBSET Index,
         a \in U, b \in U, TypeOK, Swap(a, b)
  PROVE  /\ slots'[a] = slots[b] /\ slots'[b] = slots[a]
         /\ \A k \in Index \ {a, b} : slots'[k] = slots[k]
         /\ slots' \in [Index -> Node \cup {Nil}]
         /\ {slots'[k].addr : k \in U} = {slots[k].addr : k \in U}
         /\ stale' \in [at : {a, b}, val : {slots[a], slots[b]}]
<1>1. /\ slots'[a] = slots[b] /\ slots'[b] = slots[a]
      /\ \A k \in Index \ {a, b} : slots'[k] = slots[k]
      /\ slots' \in [Index -> Node \cup {Nil}]
  BY DEF Swap, TypeOK
<1>2. {slots'[k].addr : k \in U} \subseteq {slots[k].addr : k \in U}
  <2> SUFFICES ASSUME NEW k \in U  PROVE slots'[k].addr \in {slots[m].addr : m \in U}
    OBVIOUS
  <2> QED  BY <1>1
<1>3. {slots[k].addr : k \in U} \subseteq {slots'[k].addr : k \in U}
  <2> SUFFICES ASSUME NEW k \in U  PROVE slots[k].addr \in {slots'[m].addr : m \in U}
    OBVIOUS
  <2> QED  BY <1>1
<1>4. stale' \in [at : {a, b}, val : {slots[a], slots[b]}]
  BY DEF Swap
<1> QED  BY <1>1, <1>2, <1>3, <1>4

(* One iteration of up, in heap.Push and in heap.Remove. *)
LEMMA UpStep ==
  ASSUME IInv, Up
  PROVE  IInv'
<1> USE MaxAssumption, NilAssumption, DistAssumption
<1> DEFINE p == Parent(j)
<1>1. /\ apc \in {"up", "fix"} /\ stale = NoStore
      /\ Swap(p, j) /\ j' = p
      /\ UNCHANGED <<len, addresses, apc, adding, seen, gpc, gn, gi, out>>
      /\ overlap' = (overlap \/ gpc = "reading")
  BY DEF Up, AddStep, Overlaps, getVars
<1>2. /\ j \in Live /\ j > 0 /\ D(j) > D(p) /\ len \in 1 .. max + 1
      /\ Live \subseteq Used /\ Used \subseteq Index
  BY <1>1 DEF IInv, TypeOK, Shape, Up, Rises, D, Live, Used, Index
<1>3. p \in Live /\ p < j /\ p \in Nat
  <2>1. j \in Nat /\ j > 0
    BY <1>2 DEF Live
  <2>2. p \in Nat /\ p < j
    BY <2>1, ParentFact
  <2> QED  BY <1>2, <2>2 DEF Live
<1>4. p \in Index /\ j \in Index /\ slots[p] \in Node /\ slots[j] \in Node
  BY <1>2, <1>3 DEF IInv, Shape
<1>5. /\ slots'[p] = slots[j] /\ slots'[j] = slots[p]
      /\ \A k \in Index \ {p, j} : slots'[k] = slots[k]
      /\ slots' \in [Index -> Node \cup {Nil}]
      /\ {slots'[k].addr : k \in Live} = {slots[k].addr : k \in Live}
      /\ stale' \in [at : {p, j}, val : {slots[p], slots[j]}]
  <2>1. Live \in SUBSET Index
    BY <1>2
  <2> QED  BY <1>1, <1>2, <1>3, <1>4, <2>1, SwapFact DEF IInv
<1>6. TypeOK'
  BY <1>1, <1>4, <1>5 DEF IInv, TypeOK
<1>7. Shape'
  BY <1>1, <1>2, <1>3, <1>4, <1>5 DEF IInv, Shape, Used, Live
<1>8. AddrInv'
  <2>1. Live' = Live /\ Used' = Used
    BY <1>1 DEF Live, Used
  <2>2. addresses' = {slots'[k].addr : k \in Live'}
    BY <1>1, <1>5, <2>1 DEF IInv, AddrInv
  <2>3. ASSUME NEW k \in Used, NEW m \in Used, slots'[k].addr = slots'[m].addr
        PROVE  k = m
    BY <1>2, <1>3, <1>5, <2>3 DEF IInv, AddrInv
  <2> QED  BY <2>1, <2>2, <2>3 DEF AddrInv
<1>9. SeenInv'
  BY <1>1, <1>4, <1>5 DEF IInv, SeenInv, GetMembers
<1>10. slots[p] \in seen /\ slots[j] \in seen /\ slots[p] # slots[j]
  <2>1. slots[p] \in seen /\ slots[j] \in seen
    BY <1>4 DEF IInv, SeenInv
  <2>2. slots[p].addr # slots[j].addr
    BY <1>2, <1>3 DEF IInv, AddrInv
  <2> QED  BY <2>1, <2>2
<1>11. TopInv'
  <2>1. CASE RootClosest
    <3>1. p # 0
      <4> SUFFICES ASSUME p = 0 PROVE FALSE
        OBVIOUS
      <4>1. D(j) <= D(p)
        BY <1>10, <2>1 DEF RootClosest, D
      <4>2. D(j) \in Int /\ D(p) \in Int
        BY <1>4 DEF D
      <4> QED  BY <1>2, <4>1, <4>2
    <3>2. slots'[0] = slots[0]
      BY <1>2, <1>3, <1>5, <3>1 DEF Index
    <3> QED  BY <1>1, <2>1, <3>2 DEF TopInv, RootClosest, D
  <2>2. CASE apc = "up" /\ SiftedClosest
    BY <1>1, <1>5, <2>2 DEF TopInv, SiftedClosest, D
  <2> QED  BY <1>2, <2>1, <2>2 DEF IInv, TopInv
<1>12. HeapInv'
  <2> DEFINE E(i) == dist[slots'[i].id]
  <2> SUFFICES ASSUME NEW k \in Live \ {0}
               PROVE  /\ k = p \/ E(k) <= E(Parent(k))
                      /\ p > 0 /\ Parent(k) = p => E(k) <= E(Parent(p))
    <3>1. Live' = Live
      BY <1>1 DEF Live
    <3>2. \A k \in Live \ {0} :
            /\ k = j' \/ E(k) <= E(Parent(k))
            /\ j' > 0 /\ Parent(k) = j' => E(k) <= E(Parent(j'))
      BY <1>1
    <3> QED  BY <3>1, <3>2 DEF HeapInv, D, Parent
  <2>1. Parent(k) \in Live /\ Parent(k) < k /\ k \in Nat /\ k \in Index
    BY <1>2, ParentFact DEF Live
  <2>2. p > 0 => Parent(p) \in Live /\ Parent(p) # p /\ Parent(p) # j
    BY <1>2, <1>3, ParentFact DEF Live
  <2>3. /\ k # j => D(k) <= D(Parent(k))
        /\ Parent(k) = j => D(k) <= D(p)
        /\ p > 0 => D(p) <= D(Parent(p))
    BY <1>2, <1>3 DEF IInv, HeapInv
  <2>4. \A i \in Live : D(i) \in Int
    BY <1>2 DEF IInv, Shape, D
  <2>5. E(p) = D(j) /\ E(j) = D(p) /\ \A i \in Live \ {p, j} : E(i) = D(i)
    BY <1>2, <1>5 DEF D
  <2> HIDE DEF E
  <2>6. k = p \/ E(k) <= E(Parent(k))
    <3>1. CASE k = j
      BY <1>2, <1>3, <2>4, <2>5, <3>1
    <3>2. CASE k # j /\ k # p /\ Parent(k) = j
      BY <1>2, <1>3, <2>3, <2>4, <2>5, <3>2
    <3>3. CASE k # j /\ k # p /\ Parent(k) = p
      <4>1. E(k) = D(k) /\ E(p) = D(j) /\ D(k) <= D(p)
        BY <2>3, <2>5, <3>3
      <4> QED  BY <1>2, <1>3, <2>4, <3>3, <4>1
    <3>4. CASE k # j /\ k # p /\ Parent(k) # p /\ Parent(k) # j
      BY <2>1, <2>3, <2>5, <3>4
    <3> QED  BY <3>1, <3>2, <3>3, <3>4
  <2>7. p > 0 /\ Parent(k) = p => E(k) <= E(Parent(p))
    <3> SUFFICES ASSUME p > 0, Parent(k) = p  PROVE E(k) <= E(Parent(p))
      OBVIOUS
    <3>1. E(Parent(p)) = D(Parent(p)) /\ D(p) <= D(Parent(p)) /\ D(Parent(p)) \in Int
      BY <1>3, <2>2, <2>3, <2>4, <2>5
    <3>2. D(p) \in Int /\ D(k) \in Int
      BY <1>3, <2>4
    <3>3. E(k) <= D(p)
      BY <2>1, <2>3, <2>5, <3>2
    <3>4. E(k) \in Int
      BY <1>2, <1>3, <2>1, <2>4, <2>5
    <3> QED  BY <3>1, <3>2, <3>3, <3>4
  <2> QED  BY <2>6, <2>7
<1>13. StaleInv'
  BY <1>1, <1>4, <1>5 DEF StaleInv
<1>14. GetInv'
  BY <1>1 DEF IInv, TypeOK, GetInv
<1> QED  BY <1>6, <1>7, <1>8, <1>9, <1>11, <1>12, <1>13, <1>14 DEF IInv

(* When up stops, the order is restored everywhere and the closest node is *)
(* at the root.                                                            *)
LEMMA SiftDone ==
  ASSUME IInv, apc \in {"up", "fix"}, ~Rises
  PROVE  /\ \A k \in Live \ {0} : D(k) <= D(Parent(k))
         /\ RootClosest
<1> USE MaxAssumption, NilAssumption, DistAssumption
<1>1. /\ j \in Live /\ len \in 1 .. max + 1
      /\ Live \subseteq Used /\ Used \subseteq Index
  BY DEF IInv, TypeOK, Shape, Live, Used, Index
<1>2. j > 0 => Parent(j) \in Live /\ Parent(j) < j
  BY <1>1, ParentFact DEF Live
<1>3. \A k \in Live : D(k) \in Int /\ slots[k] \in seen
  BY <1>1 DEF IInv, Shape, SeenInv, D
<1>4. j > 0 => D(j) <= D(Parent(j))
  BY <1>1, <1>2, <1>3 DEF Rises, D
<1>5. \A k \in Live \ {0} : D(k) <= D(Parent(k))
  BY <1>1, <1>4 DEF IInv, HeapInv, Live
<1>6. RootClosest
  <2>1. SUFFICES ASSUME SiftedClosest PROVE RootClosest
    BY <1>1 DEF IInv, TopInv
  <2>2. CASE j = 0
    <3> SUFFICES ASSUME NEW n \in seen PROVE dist[n.id] <= D(0)
      BY DEF RootClosest
    <3>0. n \in Node
      BY DEF IInv, TypeOK
    <3>1. dist[n.id] \in Int /\ D(0) \in Int
      BY <1>1, <1>3, <2>2, <3>0
    <3>2. n = slots[0] \/ dist[n.id] < D(0)
      BY <2>1, <2>2 DEF SiftedClosest
    <3> QED  BY <3>1, <3>2 DEF D
  <2>3. CASE j > 0
    <3>1. slots[Parent(j)] # slots[j]
      BY <1>1, <1>2, <2>3 DEF IInv, AddrInv, Live
    <3>2. D(Parent(j)) < D(j)
      BY <1>2, <1>3, <2>1, <2>3, <3>1 DEF SiftedClosest, D
    <3> QED  BY <1>1, <1>2, <1>3, <1>4, <2>3, <3>2
  <2> QED  BY <1>1, <2>2, <2>3 DEF Live
<1> QED  BY <1>5, <1>6

(* add returns without eviction. *)
LEMMA AddEndStep ==
  ASSUME IInv, AddEnd
  PROVE  IInv'
<1> USE MaxAssumption, NilAssumption, DistAssumption
<1>1. /\ apc = "up" /\ ~Rises /\ len <= max /\ stale = NoStore
      /\ apc' = "idle" /\ adding' = Nil /\ j' = 0
      /\ UNCHANGED <<slots, len, addresses, stale, seen, gpc, gn, gi, out>>
      /\ overlap' = (overlap \/ gpc = "reading")
  BY DEF AddEnd, AddStep, Overlaps, Unlock, getVars
<1>2. /\ \A k \in Live \ {0} : D(k) <= D(Parent(k))
      /\ RootClosest
  BY <1>1, SiftDone
<1>3. TypeOK' /\ Shape'
  BY <1>1 DEF IInv, TypeOK, Shape, Used, Index
<1>4. AddrInv' /\ SeenInv' /\ StaleInv'
  BY <1>1 DEF IInv, AddrInv, SeenInv, GetMembers, StaleInv, Live, Used
<1>5. TopInv'
  BY <1>1, <1>2 DEF TopInv, RootClosest, D
<1>6. HeapInv'
  BY <1>1, <1>2 DEF HeapInv, Live, D
<1>7. GetInv'
  BY <1>1 DEF IInv, TypeOK, GetInv
<1> QED  BY <1>3, <1>4, <1>5, <1>6, <1>7 DEF IInv

(* The element at max - 1 is exchanged with the last one. *)
LEMMA EvictBeginStep ==
  ASSUME IInv, EvictBegin
  PROVE  IInv'
<1> USE MaxAssumption, NilAssumption, DistAssumption
<1>1. /\ apc = "up" /\ ~Rises /\ stale = NoStore
      /\ len = max + 1
      /\ addresses' = addresses \ {slots[max - 1].addr}
      /\ Swap(max - 1, max)
      /\ apc' = "fix" /\ j' = max - 1
      /\ UNCHANGED <<len, adding, seen, gpc, gn, gi, out>>
      /\ overlap' = (overlap \/ gpc = "reading")
  BY DEF IInv, TypeOK, EvictBegin, AddStep, Overlaps, getVars
<1>2. /\ \A k \in Live \ {0} : D(k) <= D(Parent(k))
      /\ RootClosest
  BY <1>1, SiftDone
<1>3. /\ max - 1 \in Index /\ max \in Index /\ Used = Index /\ Live = Index
      /\ slots[max - 1] \in Node /\ slots[max] \in Node
  BY <1>1 DEF IInv, Shape, Index, Used, Live
<1>4. /\ slots'[max - 1] = slots[max] /\ slots'[max] = slots[max - 1]
      /\ \A k \in Index \ {max - 1, max} : slots'[k] = slots[k]
      /\ slots' \in [Index -> Node \cup {Nil}]
      /\ stale' \in [at : {max - 1, max}, val : {slots[max - 1], slots[max]}]
  BY <1>1, <1>3, SwapFact DEF IInv
<1>5. TypeOK' /\ Shape'
  BY <1>1, <1>3, <1>4 DEF IInv, TypeOK, Shape, Used, Index
<1>6. AddrInv'
  <2>1. Live' = 0 .. max - 1 /\ Used' = Index
    BY <1>1 DEF Live, Used, Index
  <2>2. /\ addresses = {slots[k].addr : k \in Index}
        /\ \A k, m \in Index : slots[k].addr = slots[m].addr => k = m
    BY <1>3 DEF IInv, AddrInv
  <2>3. \A k, m \in Index : slots'[k].addr = slots'[m].addr => k = m
    <3> SUFFICES ASSUME NEW k \in Index, NEW m \in Index,
                        slots'[k].addr = slots'[m].addr
                 PROVE  k = m
      OBVIOUS
    <3>1. CASE k \in {max - 1, max}
      BY <1>3, <1>4, <2>2, <3>1
    <3>2. CASE m \in {max - 1, max}
      BY <1>3, <1>4, <2>2, <3>2
    <3>3. CASE k \notin {max - 1, max} /\ m \notin {max - 1, max}
      BY <1>4, <2>2, <3>3
    <3> QED  BY <3>1, <3>2, <3>3
  <2>4. addresses' \subseteq {slots'[k].addr : k \in 0 .. max - 1}
    <3> SUFFICES ASSUME NEW k \in Index, slots[k].addr # slots[max - 1].addr
                 PROVE  slots[k].addr \in {slots'[m].addr : m \in 0 .. max - 1}
      BY <1>1, <2>2
    <3>1. CASE k = max
      BY <1>4, <3>1
    <3>2. CASE k # max
      BY <1>4, <3>2 DEF Index
    <3> QED  BY <3>1, <3>2
  <2>5. {slots'[k].addr : k \in 0 .. max - 1} \subseteq addresses'
    <3> SUFFICES ASSUME NEW k \in 0 .. max - 1  PROVE slots'[k].addr \in addresses'
      OBVIOUS
    <3>1. slots'[k].addr # slots'[max].addr
      BY <2>3 DEF Index
    <3>2. slots'[k].addr \in addresses
      BY <1>3, <1>4, <2>2 DEF Index
    <3> QED  BY <1>1, <1>4, <3>1, <3>2
  <2> QED  BY <2>1, <2>3, <2>4, <2>5 DEF AddrInv
<1>7. SeenInv'
  BY <1>1, <1>3, <1>4 DEF IInv, SeenInv, GetMembers
<1>8. TopInv'
  <2>1. slots'[0] = slots[0]
    BY <1>4 DEF Index
  <2> QED  BY <1>1, <1>2, <2>1 DEF TopInv, RootClosest, D
<1>9. HeapInv'
  <2> SUFFICES ASSUME NEW k \in 1 .. max - 1
               PROVE  /\ k = max - 1 \/ D(k)' <= D(Parent(k))'
                      /\ Parent(k) # max - 1
    BY <1>1 DEF HeapInv, Live
  <2>1. Parent(k) \in Nat /\ Parent(k) < k
    BY ParentFact
  <2>2. D(k) <= D(Parent(k))
    BY <1>2, <1>3 DEF Index
  <2> QED  BY <1>4, <2>1, <2>2 DEF D, Index
<1>10. StaleInv'
  BY <1>3, <1>4 DEF StaleInv
<1>11. GetInv'
  BY <1>1 DEF IInv, TypeOK, GetInv
<1> QED  BY <1>5, <1>6, <1>7, <1>8, <1>9, <1>10, <1>11 DEF IInv

(* heap.Remove cuts the evicted element off and add returns. *)
LEMMA EvictEndStep ==
  ASSUME IInv, EvictEnd
  PROVE  IInv'
<1> USE MaxAssumption, NilAssumption, DistAssumption
<1>1. /\ apc = "fix" /\ ~Rises /\ len = max + 1 /\ len' = max /\ stale = NoStore
      /\ apc' = "idle" /\ adding' = Nil /\ j' = 0
      /\ UNCHANGED <<slots, addresses, stale, seen, gpc, gn, gi, out>>
      /\ overlap' = (overlap \/ gpc = "reading")
  BY DEF IInv, Shape, EvictEnd, AddStep, Overlaps, Unlock, getVars
<1>2. /\ \A k \in Live \ {0} : D(k) <= D(Parent(k))
      /\ RootClosest
  BY <1>1, SiftDone
<1>3. TypeOK' /\ Shape'
  BY <1>1 DEF IInv, TypeOK, Shape, Used, Index
<1>4. AddrInv' /\ SeenInv' /\ StaleInv'
  BY <1>1 DEF IInv, AddrInv, SeenInv, GetMembers, StaleInv, Live, Used
<1>5. TopInv'
  BY <1>1, <1>2 DEF TopInv, RootClosest, D
<1>6. HeapInv'
  BY <1>1, <1>2 DEF HeapInv, Live, D
<1>7. GetInv'
  BY <1>1 DEF IInv, TypeOK, GetInv
<1> QED  BY <1>3, <1>4, <1>5, <1>6, <1>7 DEF IInv

(* The last store of a step of add lands. *)
LEMMA SettleStep ==
  ASSUME IInv, Settle
  PROVE  IInv'
<1>1. /\ stale' = NoStore /\ apc # "idle"
      /\ UNCHANGED <<slots, len, addresses, apc, adding, j, gpc, gn, gi, out, seen>>
      /\ overlap' = (overlap \/ gpc = "reading")
  BY DEF IInv, Shape, Settle, Overlaps, getVars, addVars
<1>2. TypeOK' /\ Shape'
  BY <1>1 DEF IInv, TypeOK, Shape, Used, Index, NoStore
<1>3. AddrInv' /\ SeenInv' /\ StaleInv'
  BY <1>1 DEF IInv, AddrInv, SeenInv, GetMembers, StaleInv, Live, Used, NoStore
<1>4. TopInv' /\ HeapInv'
  BY <1>1 DEF IInv, TopInv, RootClosest, SiftedClosest, HeapInv, Live, D
<1>5. GetInv'
  BY <1>1 DEF IInv, TypeOK, GetInv
<1> QED  BY <1>2, <1>3, <1>4, <1>5 DEF IInv

(* makeNeighbours' reads change nothing but its own variables. *)
LEMMA GetStep ==
  ASSUME IInv, NotEmpty \/ GetBegin \/ GetRead \/ GetEnd
  PROVE  IInv'
<1> USE MaxAssumption, NilAssumption
<1>1. UNCHANGED <<slots, len, addresses, stale, apc, adding, j, seen>>
  BY DEF NotEmpty, GetBegin, GetRead, GetEnd, addVars
<1>2. Shape' /\ AddrInv' /\ TopInv' /\ HeapInv' /\ StaleInv'
  BY <1>1 DEF IInv, Shape, AddrInv, TopInv, RootClosest, SiftedClosest,
              HeapInv, StaleInv, Live, Used, D, NoStore
<1>3. TypeOK' /\ GetMembers' /\ GetInv'
  <2>1. CASE NotEmpty
    BY <1>1, <2>1 DEF NotEmpty, IInv, TypeOK, SeenInv, GetMembers, GetInv
  <2>2. CASE GetBegin
    <3>1. /\ gpc' = "reading" /\ gn' = len /\ gi' = 0 /\ out' = << >>
          /\ overlap' = (apc # "idle")
      BY <2>2 DEF GetBegin
    <3>2. out' \in Seq(Node) /\ Len(out') = 0
      BY <3>1
    <3>3. TypeOK'
      BY <1>1, <3>1, <3>2 DEF IInv, TypeOK
    <3>4. GetMembers'
      BY <3>2 DEF GetMembers
    <3>5. GetInv'
      <4>1. ~overlap' => apc' = "idle"
        BY <1>1, <3>1
      <4>2. gn' = len' /\ gi' = 0 /\ gi' <= gn'
        BY <1>1, <3>1 DEF IInv, TypeOK
      <4> QED  BY <3>2, <4>1, <4>2 DEF GetInv
    <3> QED  BY <3>3, <3>4, <3>5
  <2>3. CASE GetRead /\ Mem(gi) = Nil
    BY <1>1, <2>3 DEF GetRead, IInv, TypeOK, SeenInv, GetMembers, GetInv
  <2>4. CASE GetRead /\ Mem(gi) # Nil
    <3>1. /\ gpc = "reading" /\ gi < gn /\ gi < len
          /\ out' = Append(out, Mem(gi)) /\ gi' = gi + 1
          /\ UNCHANGED <<gpc, gn, overlap>>
      BY <2>4 DEF GetRead, GetMore
    <3>2. /\ gi \in Nat /\ gn \in 0 .. max + 1 /\ len \in 0 .. max + 1
          /\ gi \in Index /\ out \in Seq(Node)
      BY <3>1 DEF IInv, TypeOK, Index
    <3>3. Mem(gi) \in seen /\ Mem(gi) \in Node
      BY <2>4, <3>2 DEF IInv, TypeOK, SeenInv, Mem
    <3>4. /\ out' \in Seq(Node) /\ Len(out') = Len(out) + 1
          /\ \A k \in 1 .. Len(out) : out'[k] = out[k]
          /\ out'[Len(out) + 1] = Mem(gi)
      BY <3>1, <3>2, <3>3
    <3>5. TypeOK'
      BY <1>1, <3>1, <3>2, <3>4 DEF IInv, TypeOK
    <3>6. GetMembers'
      BY <1>1, <3>2, <3>3, <3>4 DEF IInv, SeenInv, GetMembers
    <3>7. GetInv'
      <4> SUFFICES ASSUME ~overlap
                   PROVE  /\ apc = "idle" /\ gn = len /\ gi + 1 <= gn
                          /\ Len(out') = gi + 1
                          /\ \A k \in 1 .. gi + 1 : out'[k] = slots[k - 1]
        BY <1>1, <3>1 DEF GetInv
      <4>1. /\ apc = "idle" /\ gn = len /\ Len(out) = gi
            /\ \A k \in 1 .. gi : out[k] = slots[k - 1]
        BY <3>1 DEF IInv, GetInv
      <4>2. Mem(gi) = slots[gi]
        BY <3>2, <4>1 DEF IInv, Shape, Mem, NoStore
      <4> QED  BY <3>1, <3>2, <3>4, <4>1, <4>2
    <3> QED  BY <3>5, <3>6, <3>7
  <2>5. CASE GetEnd
    BY <1>1, <2>5 DEF GetEnd, IInv, TypeOK, SeenInv, GetMembers, GetInv
  <2> QED  BY <2>1, <2>2, <2>3, <2>4, <2>5
<1>4. SeenInv'
  BY <1>1, <1>3 DEF IInv, SeenInv
<1> QED  BY <1>2, <1>3, <1>4 DEF IInv

(* flush starts the next round with an empty array. *)
LEMMA FlushStep ==
  ASSUME IInv, Flush
  PROVE  IInv'
<1> USE MaxAssumption, NilAssumption
<1>1. /\ apc = "idle" /\ apc' = "idle" /\ stale' = NoStore /\ adding' = adding /\ j' = 0
      /\ slots' = [k \in Index |-> Nil] /\ len' = 0 /\ addresses' = {} /\ seen' = {}
      /\ gpc' = "idle" /\ gn' = 0 /\ gi' = 0 /\ out' = << >> /\ overlap' = FALSE
  BY DEF IInv, Shape, Flush, addVars
<1>2. TypeOK' /\ Shape' /\ StaleInv'
  BY <1>1 DEF IInv, TypeOK, Shape, StaleInv, Used, Index, NoStore
<1>3. AddrInv' /\ TopInv' /\ HeapInv'
  BY <1>1 DEF AddrInv, TopInv, HeapInv, Live, Used
<1>4. SeenInv' /\ GetInv'
  BY <1>1 DEF SeenInv, GetMembers, GetInv, NoStore
<1> QED  BY <1>2, <1>3, <1>4 DEF IInv

-----------------------------------------------------------------------------
(***************************************************************************)
(* The theorems.                                                           *)
(***************************************************************************)

LEMMA InitInv == Init => IInv
<1> SUFFICES ASSUME Init PROVE IInv
  OBVIOUS
<1> USE MaxAssumption, NilAssumption
<1>1. TypeOK
  <2>1. NoStore \in [at : Index \cup {-1}, val : Node \cup {Nil}]
    BY DEF NoStore
  <2>2. << >> \in Seq(Node)
    OBVIOUS
  <2>3. slots \in [Index -> Node \cup {Nil}] /\ stale = NoStore /\ out = << >>
    BY DEF Init
  <2>4. len \in 0 .. max + 1 /\ j \in Index
    BY DEF Init, Index
  <2>5. addresses \subseteq {n.addr : n \in Node} /\ seen \subseteq Node
    BY DEF Init
  <2>6. /\ apc \in {"idle", "up", "fix"}
        /\ gpc \in {"idle", "get", "reading", "flush", "panic"}
        /\ adding \in Node \cup {Nil}
        /\ overlap \in BOOLEAN
    BY DEF Init
  <2>7. gn \in 0 .. max + 1 /\ gi \in 0 .. max + 1
    BY DEF Init
  <2> QED  BY <2>1, <2>2, <2>3, <2>4, <2>5, <2>6, <2>7 DEF TypeOK
<1>2. Shape /\ AddrInv /\ TopInv /\ HeapInv
  BY DEF Init, Shape, AddrInv, TopInv, HeapInv, Live, Used
<1>3. SeenInv /\ StaleInv /\ GetInv
  BY DEF Init, SeenInv, GetMembers, StaleInv, GetInv, NoStore
<1> QED  BY <1>1, <1>2, <1>3 DEF IInv

LEMMA NextInv == IInv /\ [Next]_vars => IInv'
<1> SUFFICES ASSUME IInv, [Next]_vars PROVE IInv'
  OBVIOUS
<1>1. CASE \E rn \in Node : AddBegin(rn)
  BY <1>1, AddBeginStep
<1>2. CASE Settle
  BY <1>2, SettleStep
<1>3. CASE Up
  BY <1>3, UpStep
<1>4. CASE AddEnd
  BY <1>4, AddEndStep
<1>5. CASE EvictBegin
  BY <1>5, EvictBeginStep
<1>6. CASE EvictEnd
  BY <1>6, EvictEndStep
<1>7. CASE NotEmpty \/ GetBegin \/ GetRead \/ GetEnd
  BY <1>7, GetStep
<1>8. CASE Flush
  BY <1>8, FlushStep
<1>9. CASE UNCHANGED vars
  <2>1. UNCHANGED <<slots, len, addresses, stale, apc, adding, j, gpc, gn, gi, out,
                    seen, overlap>>
    BY <1>9 DEF vars, addVars, getVars
  <2>2. TypeOK' /\ Shape' /\ AddrInv'
    <3>1. TypeOK'
      BY <2>1 DEF IInv, TypeOK
    <3>2. Shape'
      BY <2>1 DEF IInv, Shape, Used, NoStore
    <3>3. AddrInv'
      BY <2>1 DEF IInv, AddrInv, Live, Used
    <3> QED  BY <3>1, <3>2, <3>3
  <2>4. SeenInv'
    BY <2>1 DEF IInv, SeenInv, GetMembers
  <2>3. TopInv' /\ HeapInv' /\ StaleInv' /\ GetInv'
    BY <2>1 DEF IInv, TopInv, RootClosest, SiftedClosest, HeapInv, StaleInv, GetInv,
                Live, D, NoStore
  <2> QED  BY <2>2, <2>3, <2>4 DEF IInv
<1> QED
  BY <1>1, <1>2, <1>3, <1>4, <1>5, <1>6, <1>7, <1>8, <1>9
  DEF Next, AddNext, Panicked

(* The inductive invariant holds in every reachable state. *)
THEOREM Invariance == Spec => []IInv
BY InitInv, NextInv, PTL DEF Spec

(* Every variable keeps its type: in particular len never exceeds max + 1  *)
(* and get never returns a nil node.                                       *)
THEOREM TypeCorrect == Spec => []TypeOK
<1>1. IInv => TypeOK
  BY DEF IInv
<1> QED  BY <1>1, Invariance, PTL

(* routingTable.add keeps the heap and the address map in step, and the    *)
(* heap within its bound, for every max >= 2.                              *)
THEOREM TableInSync == Spec => []InSync
<1>1. IInv => InSync
  BY MaxAssumption DEF IInv, TypeOK, Shape, AddrInv, InSync, Live, Used
<1> QED  BY <1>1, Invariance, PTL

(* add leaves a heap behind, although it evicts from an inner index. *)
THEOREM TableIsHeap == Spec => []HeapOrdered
<1>1. IInv => HeapOrdered
  BY DEF IInv, Shape, HeapInv, HeapOrdered, Live, Used, D
<1> QED  BY <1>1, Invariance, PTL

(* Eviction in add never loses the closest node seen since the last flush. *)
THEOREM ClosestIsKept == Spec => []ClosestKept
<1>1. IInv => ClosestKept
  BY DEF IInv, TopInv, RootClosest, ClosestKept, D
<1> QED  BY <1>1, Invariance, PTL

(* get, without the mutex, returns only nodes of the current round. *)
THEOREM GetReturnsMembers == Spec => []GetMembers
<1>1. IInv => GetMembers
  BY DEF IInv, SeenInv
<1> QED  BY <1>1, Invariance, PTL

(* A get that add did not disturb returns the whole table in order. *)
THEOREM UndisturbedGet == Spec => GetExact
<1>1. IInv /\ [Next]_vars =>
        [(gpc = "reading" /\ gpc' = "flush" /\ ~overlap) =>
           /\ Len(out) = len
           /\ \A k \in 1 .. Len(out) : out[k] = slots[k - 1]]_vars
  <2> SUFFICES ASSUME IInv, [Next]_vars, gpc = "reading", gpc' = "flush", ~overlap
               PROVE  /\ Len(out) = len
                      /\ \A k \in 1 .. Len(out) : out[k] = slots[k - 1]
    OBVIOUS
  <2>1. ~GetMore
    BY DEF Next, AddNext, AddBegin, AddStep, Settle, Up, AddEnd, EvictBegin, EvictEnd,
           NotEmpty, GetBegin, GetRead, GetEnd, Flush, Panicked, vars, getVars
  <2> QED  BY <2>1 DEF IInv, TypeOK, GetInv, GetMore
<1> QED  BY <1>1, Invariance, PTL DEF Spec, GetExact

(* The process dies in get only while heap.Push has published the new      *)
(* length and not yet the element: with the mutex held it cannot.          *)
THEOREM PanicOnlyInPush == Spec => PanicNeedsRace
<1>1. IInv /\ [Next]_vars =>
        [(gpc # "panic" /\ gpc' = "panic") => apc = "up" /\ stale.at = len - 1]_vars
  <2> SUFFICES ASSUME IInv, [Next]_vars, gpc # "panic", gpc' = "panic"
               PROVE  apc = "up" /\ stale.at = len - 1
    OBVIOUS
  <2>1. GetMore /\ Mem(gi) = Nil
    BY DEF Next, AddNext, AddBegin, AddStep, Settle, Up, AddEnd, EvictBegin, EvictEnd,
           NotEmpty, GetBegin, GetRead, GetEnd, Flush, Panicked, vars, getVars
  <2>2. gi \in Used /\ slots[gi] # Nil
    BY <2>1, NilAssumption DEF IInv, TypeOK, Shape, GetMore, Used
  <2>3. gi = stale.at /\ stale.val = Nil /\ stale # NoStore
    BY <2>1, <2>2 DEF Mem, Used, NoStore
  <2> QED  BY <2>3 DEF IInv, StaleInv
<1> QED  BY <1>1, Invariance, PTL DEF Spec, PanicNeedsRace


-----------------------------------------------------------------------------
(***************************************************************************)
(* The heap implements NodeTable.                                          *)
(***************************************************************************)

(* Where the node being added is.  It rises from the last index and so     *)
(* jumps over max - 1, the index that eviction empties: the newcomer is    *)
(* never the victim.                                                       *)
AddingInv ==
  /\ apc # "idle" => adding \in Node /\ adding.id # self /\ \E k \in Live : slots[k] = adding
  /\ apc = "up" => slots[j] = adding /\ (j = len - 1 \/ j <= Parent(len - 1))

(* The nodes that the table shows: those of Table's refinement mapping. *)
Shown == IF apc = "idle" THEN Entries ELSE Entries \ {adding}

(* The indices that a half of the array can have. *)
LEMMA ParentBelow ==
  ASSUME NEW k \in Nat, k >= 2
  PROVE  Parent(k) < k - 1
BY DEF Parent

(* Up exchanges two entries of the live part. *)
LEMMA UpSwaps ==
  ASSUME IInv, Up
  PROVE  /\ j \in Live /\ Parent(j) \in Live /\ Parent(j) < j
         /\ Live \subseteq Used /\ Used \subseteq Index
         /\ slots'[Parent(j)] = slots[j] /\ slots'[j] = slots[Parent(j)]
         /\ \A k \in Index \ {Parent(j), j} : slots'[k] = slots[k]
         /\ j' = Parent(j) /\ apc \in {"up", "fix"}
         /\ UNCHANGED <<len, apc, adding>>
<1> USE MaxAssumption
<1>1. /\ apc \in {"up", "fix"} /\ Swap(Parent(j), j) /\ j' = Parent(j) /\ j > 0
      /\ UNCHANGED <<len, apc, adding>>
  BY DEF Up, Rises
<1>2. j \in Live /\ j \in Nat /\ Live \subseteq Used /\ Used \subseteq Index
  BY <1>1 DEF IInv, TypeOK, Shape, Live, Used, Index
<1>3. Parent(j) \in Nat /\ Parent(j) < j
  BY <1>1, <1>2, ParentFact
<1>4. Parent(j) \in Live
  BY <1>2, <1>3 DEF Live, IInv, TypeOK
<1>5. Parent(j) \in Index /\ j \in Index
  BY <1>2, <1>4
<1>6. /\ slots'[Parent(j)] = slots[j] /\ slots'[j] = slots[Parent(j)]
      /\ \A k \in Index \ {Parent(j), j} : slots'[k] = slots[k]
  BY <1>1, <1>5, SwapFact DEF IInv
<1> QED BY <1>1, <1>2, <1>3, <1>4, <1>6

(* Eviction exchanges the entry at max - 1, never the newcomer, with the   *)
(* last one.                                                               *)
LEMMA EvictSwaps ==
  ASSUME IInv, AddingInv, EvictBegin
  PROVE  /\ len = max + 1 /\ Used = Index /\ apc = "up" /\ apc' = "fix"
         /\ slots'[max - 1] = slots[max] /\ slots'[max] = slots[max - 1]
         /\ \A k \in Index \ {max - 1, max} : slots'[k] = slots[k]
         /\ j # max - 1 /\ j \in Index /\ UNCHANGED <<len, adding>>
<1> USE MaxAssumption
<1>1. /\ apc = "up" /\ apc' = "fix" /\ len = max + 1 /\ Swap(max - 1, len - 1)
      /\ UNCHANGED <<len, adding>>
  BY DEF EvictBegin, IInv, TypeOK
<1>2. max - 1 \in Index /\ max \in Index /\ Used = Index /\ len - 1 = max
  BY <1>1 DEF Index, Used
<1>3. /\ slots'[max - 1] = slots[max] /\ slots'[max] = slots[max - 1]
      /\ \A k \in Index \ {max - 1, max} : slots'[k] = slots[k]
  <2>1. Swap(max - 1, max)
    BY <1>1, <1>2
  <2> QED BY <1>2, <2>1, SwapFact DEF IInv
<1>4. j # max - 1 /\ j \in Index
  <2>1. Parent(max) < max - 1 /\ Parent(max) \in Nat
    BY ParentBelow, ParentFact
  <2>2. j \in Index /\ (j = max \/ j <= Parent(max))
    BY <1>1, <1>2 DEF AddingInv, IInv, TypeOK
  <2> QED BY <2>1, <2>2 DEF Index
<1> QED BY <1>1, <1>2, <1>3, <1>4

LEMMA AddingStep == IInv /\ AddingInv /\ [Next]_vars => AddingInv'
<1> SUFFICES ASSUME IInv, AddingInv, [Next]_vars PROVE AddingInv'
  OBVIOUS
<1> USE MaxAssumption
<1>1. CASE \E rn \in Node : AddBegin(rn)
  <2>1. PICK rn \in Node : AddBegin(rn)
    BY <1>1
  <2>2. /\ rn.id # self /\ slots' = [slots EXCEPT ![len] = rn] /\ len' = len + 1
        /\ apc = "idle" /\ apc' = "up" /\ adding' = rn /\ j' = len
    BY <2>1 DEF AddBegin
  <2>3. len \in Index /\ slots \in [Index -> Node \cup {Nil}]
    BY <2>2 DEF IInv, TypeOK, Shape, Index
  <2>4. slots'[len] = rn /\ len \in Live' /\ len' - 1 = len
    BY <2>2, <2>3 DEF Live, Index
  <2> QED BY <2>2, <2>4 DEF AddingInv
<1>2. CASE Up
  <2>1. /\ j \in Live /\ Parent(j) \in Live /\ Parent(j) < j
        /\ Live \subseteq Index
        /\ slots'[Parent(j)] = slots[j] /\ slots'[j] = slots[Parent(j)]
        /\ \A k \in Index \ {Parent(j), j} : slots'[k] = slots[k]
        /\ j' = Parent(j) /\ apc \in {"up", "fix"}
        /\ UNCHANGED <<len, apc, adding>>
    BY <1>2, UpSwaps
  <2>2. Live' = Live
    BY <2>1 DEF Live
  <2>3. \E k \in Live : slots'[k] = adding
    <3>1. PICK k \in Live : slots[k] = adding
      BY <2>1 DEF AddingInv
    <3> QED BY <2>1, <3>1
  <2>4. apc = "up" => slots'[j'] = adding /\ j' <= Parent(len - 1)
    <3> SUFFICES ASSUME apc = "up" PROVE slots'[j'] = adding /\ j' <= Parent(len - 1)
      OBVIOUS
    <3>1. slots'[j'] = adding
      BY <2>1 DEF AddingInv
    <3>2. CASE j = len - 1
      <4>1. Parent(j) \in Int
        BY <2>1 DEF Live
      <4> QED BY <2>1, <3>1, <3>2, <4>1
    <3>3. CASE j # len - 1
      <4>1. j <= Parent(len - 1)
        BY <3>3 DEF AddingInv
      <4>2. len \in Int /\ len >= 1 /\ j \in Int
        BY DEF IInv, TypeOK, Shape, Index
      <4>3. Parent(len - 1) \in Int /\ Parent(j) \in Int
        BY <4>2 DEF Parent
      <4> QED BY <2>1, <3>1, <4>1, <4>2, <4>3
    <3> QED BY <3>2, <3>3
  <2> QED BY <2>1, <2>2, <2>3, <2>4 DEF AddingInv
<1>3. CASE EvictBegin
  <2>1. /\ len = max + 1 /\ apc = "up" /\ apc' = "fix"
        /\ slots'[max - 1] = slots[max]
        /\ \A k \in Index \ {max - 1, max} : slots'[k] = slots[k]
        /\ j # max - 1 /\ j \in Index /\ UNCHANGED <<len, adding>>
    BY <1>3, EvictSwaps
  <2>2. Live' = 0 .. max - 1
    BY <2>1 DEF Live
  <2>3. slots[j] = adding /\ adding \in Node /\ adding.id # self
    BY <2>1 DEF AddingInv
  <2>4. \E k \in 0 .. max - 1 : slots'[k] = adding
    <3>1. CASE j = max
      BY <2>1, <2>3, <3>1
    <3>2. CASE j # max
      BY <2>1, <2>3, <3>2 DEF Index
    <3> QED BY <3>1, <3>2
  <2> QED BY <2>1, <2>2, <2>3, <2>4 DEF AddingInv
<1>4. CASE AddEnd \/ EvictEnd \/ Flush
  <2>1. apc' = "idle"
    BY <1>4 DEF AddEnd, EvictEnd, Flush, Unlock, addVars
  <2> QED BY <2>1 DEF AddingInv
<1>5. CASE Settle \/ NotEmpty \/ GetBegin \/ GetRead \/ GetEnd \/ UNCHANGED vars
  <2>1. UNCHANGED <<slots, len, apc, adding, j>>
    BY <1>5 DEF Settle, NotEmpty, GetBegin, GetRead, GetEnd, vars, addVars
  <2> QED BY <2>1 DEF AddingInv, Live
<1> QED BY <1>1, <1>2, <1>3, <1>4, <1>5 DEF Next, AddNext, Panicked

LEMMA AddingInvariant == Spec => [](IInv /\ AddingInv)
<1>1. Init => AddingInv
  BY DEF Init, AddingInv
<1> QED BY <1>1, AddingStep, Invariance, PTL DEF Spec


(* No two indices hold the same node, so that the heap has len of them. *)
LEMMA EntriesCounted ==
  ASSUME IInv
  PROVE  IsFiniteSet(Entries) /\ Cardinality(Entries) = len
<1> DEFINE f == [k \in Used |-> slots[k]]
<1>1. len \in Nat /\ \A k, m \in Used : slots[k] = slots[m] => k = m
  BY MaxAssumption DEF IInv, TypeOK, AddrInv
<1>2. f \in [Used -> Entries] /\ \A e \in Entries : \E k \in Used : f[k] = e
  BY DEF Entries
<1>3. \A k, m \in Used : f[k] = f[m] => k = m
  BY <1>1
<1>4. f \in Bijection(Used, Entries)
  <2> HIDE DEF f
  <2> QED BY <1>2, <1>3 DEF Bijection, Injection, Surjection, IsInjective
<1>5. ExistsBijection(Used, Entries)
  BY <1>4, Zenon DEF ExistsBijection
<1>6. IsFiniteSet(Used) /\ Cardinality(Used) = len
  <2>1. /\ IsFiniteSet(0 .. len - 1)
        /\ Cardinality(0 .. len - 1) = IF 0 > len - 1 THEN 0 ELSE len - 1 - 0 + 1
    BY <1>1, FS_Interval
  <2> QED BY <1>1, <2>1 DEF Used
<1> QED BY <1>5, <1>6, FS_Bijection

(* NodeTable counts as this module does. *)
LEMMA SameCount == \A S : Table!Cardinality(S) = Cardinality(S)
BY Zenon DEF Table!Cardinality, Table!IsFiniteSet, Cardinality, IsFiniteSet

(* add in progress: the others are one fewer, and none has its address. *)
LEMMA OthersAccept ==
  ASSUME IInv, AddingInv, apc # "idle"
  PROVE  /\ adding \in Node /\ adding \in Entries /\ Table!Accepts(adding)
         /\ Entries = Shown \cup {adding} /\ Cardinality(Shown) = len - 1
<1> USE MaxAssumption
<1>1. adding \in Node /\ adding.id # self
  BY DEF AddingInv
<1>2. PICK k \in Live : slots[k] = adding
  BY DEF AddingInv
<1>3. k \in Used
  BY <1>2 DEF Live, Used, IInv, TypeOK, Shape
<1>4. adding \in Entries
  BY <1>2, <1>3 DEF Entries
<1>5. Shown = Entries \ {adding}
  BY DEF Shown
<1>6. \A n \in Shown : n.addr # adding.addr
  BY <1>2, <1>3, <1>5 DEF IInv, AddrInv, Entries
<1>7. Table!Accepts(adding)
  BY <1>1, <1>6 DEF Table!Accepts, Shown
<1>8. Cardinality(Shown) = len - 1
  BY <1>4, <1>5, EntriesCounted, FS_RemoveElement
<1> QED BY <1>1, <1>4, <1>5, <1>7, <1>8

(* Until add returns, the table shows what it showed. *)
LEMMA AddBeginStutters ==
  ASSUME IInv, NEW rn \in Node, AddBegin(rn)
  PROVE  Shown' = Shown
<1> USE MaxAssumption
<1>1. /\ apc = "idle" /\ rn.addr \notin addresses /\ slots' = [slots EXCEPT ![len] = rn]
      /\ len' = len + 1 /\ apc' = "up" /\ adding' = rn
  BY DEF AddBegin
<1>2. len \in 0 .. max /\ slots \in [Index -> Node \cup {Nil}]
  BY <1>1 DEF IInv, TypeOK, Shape
<1>3. slots'[len] = rn /\ \A k \in 0 .. len - 1 : slots'[k] = slots[k] /\ slots[k] # rn
  BY <1>1, <1>2 DEF IInv, AddrInv, Live, Index
<1>4. Used = 0 .. len - 1 /\ Used' = 0 .. len
  BY <1>1, <1>2 DEF Used
<1>5. Entries' = Entries \cup {rn} /\ rn \notin Entries
  <2>1. \A k \in 0 .. len : k = len \/ k \in 0 .. len - 1
    BY <1>2
  <2>2. Used \subseteq 0 .. len /\ len \in 0 .. len
    BY <1>2, <1>4
  <2> QED BY <1>3, <1>4, <2>1, <2>2 DEF Entries
<1> QED BY <1>1, <1>5 DEF Shown

LEMMA SwapStutters ==
  ASSUME IInv, AddingInv, Up \/ EvictBegin
  PROVE  Shown' = Shown
<1> USE MaxAssumption
<1>1. PICK a \in Used, b \in Used :
        /\ slots'[a] = slots[b] /\ slots'[b] = slots[a]
        /\ \A k \in Used \ {a, b} : slots'[k] = slots[k]
        /\ Used' = Used
  <2>1. CASE Up
    <3>1. /\ j \in Used /\ Parent(j) \in Used
          /\ slots'[Parent(j)] = slots[j] /\ slots'[j] = slots[Parent(j)]
          /\ \A k \in Used \ {Parent(j), j} : slots'[k] = slots[k]
          /\ len' = len
      BY <2>1, UpSwaps
    <3>2. Used' = Used
      BY <3>1 DEF Used
    <3> QED BY <3>1, <3>2
  <2>2. CASE EvictBegin
    <3>1. /\ Used = Index /\ len' = len
          /\ slots'[max - 1] = slots[max] /\ slots'[max] = slots[max - 1]
          /\ \A k \in Index \ {max - 1, max} : slots'[k] = slots[k]
      BY <2>2, EvictSwaps
    <3>2. max - 1 \in Used /\ max \in Used /\ Used' = Used
      <4>1. max - 1 \in Index /\ max \in Index
        BY DEF Index
      <4> QED BY <3>1, <4>1 DEF Used
    <3> QED BY <3>1, <3>2
  <2> QED BY <2>1, <2>2
<1>2. Entries' = Entries
  <2>1. \A k \in Used : \E m \in Used : slots'[k] = slots[m]
    BY <1>1
  <2>2. \A m \in Used : \E k \in Used : slots'[k] = slots[m]
    BY <1>1
  <2> QED BY <1>1, <2>1, <2>2 DEF Entries
<1>3. apc # "idle" /\ apc' # "idle" /\ adding' = adding
  BY UpSwaps, EvictSwaps
<1> QED BY <1>2, <1>3 DEF Shown

(* add returns: with room, the node is in; without, the entry that was cut *)
(* off is out, and the root, which stays, is at least as close.            *)
LEMMA AddEndAdds ==
  ASSUME IInv, AddingInv, AddEnd
  PROVE  Table!AddFree(adding) /\ adding \in Node
<1> USE MaxAssumption
<1>1. apc = "up" /\ apc' = "idle" /\ len <= max /\ UNCHANGED <<slots, len>>
  BY DEF AddEnd, Unlock
<1>2. /\ adding \in Node /\ Table!Accepts(adding)
      /\ Entries = Shown \cup {adding} /\ Cardinality(Shown) = len - 1
  BY <1>1, OthersAccept
<1>3. Shown' = Shown \cup {adding}
  <2>1. Entries' = Entries
    BY <1>1 DEF Entries, Used
  <2> QED BY <1>1, <1>2, <2>1 DEF Shown
<1>4. Cardinality(Shown) < max
  BY <1>1, <1>2 DEF IInv, TypeOK
<1> QED BY <1>2, <1>3, <1>4, SameCount DEF Table!AddFree, Shown

LEMMA EvictEndAdds ==
  ASSUME IInv, AddingInv, EvictEnd
  PROVE  Table!AddFull(adding) /\ adding \in Node
<1> USE MaxAssumption
<1> DEFINE victim == slots[max]
<1>1. /\ apc = "fix" /\ ~Rises /\ apc' = "idle" /\ len = max + 1 /\ len' = max
      /\ UNCHANGED slots
  BY DEF EvictEnd, Unlock, IInv, Shape
<1>2. /\ adding \in Node /\ Table!Accepts(adding)
      /\ Entries = Shown \cup {adding} /\ Cardinality(Shown) = max
  <2>1. Cardinality(Shown) = len - 1
    BY <1>1, OthersAccept
  <2> QED BY <1>1, <2>1, OthersAccept
<1>3. /\ Used = 0 .. max /\ Used' = 0 .. max - 1
      /\ \A k, m \in Used : slots[k] = slots[m] => k = m
  BY <1>1 DEF Used, IInv, AddrInv
<1>4. victim \in Entries /\ victim # adding
  <2>1. PICK k \in 0 .. max - 1 : slots[k] = adding
    BY <1>1 DEF AddingInv, Live
  <2> QED BY <1>3, <2>1 DEF Entries
<1>5. Entries' = Entries \ {victim}
  <2>1. \A k \in 0 .. max : k = max \/ k \in 0 .. max - 1
    OBVIOUS
  <2>2. \A k \in 0 .. max - 1 : k \in 0 .. max /\ slots[k] # victim
    BY <1>3
  <2> QED BY <1>1, <1>3, <2>1, <2>2 DEF Entries
<1>6. slots[0] \in Entries \ {victim} /\ dist[slots[0].id] >= dist[victim.id]
  <2>1. 0 \in Used /\ max \in Used /\ 0 # max
    BY <1>3
  <2>2. slots[0] \in Entries \ {victim}
    BY <1>3, <2>1 DEF Entries
  <2>3. RootClosest
    BY <1>1, SiftDone
  <2>4. slots[0] \in Node /\ victim \in Node /\ victim \in seen
    BY <2>1, NilAssumption DEF IInv, Shape, SeenInv, Used, Index
  <2>5. dist[slots[0].id] \in Int /\ dist[victim.id] \in Int
    BY <2>4, DistAssumption
  <2> QED BY <2>2, <2>3, <2>4, <2>5 DEF RootClosest, D
<1>7. Shown' = Entries'
  BY <1>1 DEF Shown
<1> HIDE DEF victim
<1>8. /\ victim \in Shown
      /\ \E n \in (Shown \cup {adding}) \ {victim} : dist[n.id] >= dist[victim.id]
      /\ Shown' = (Shown \cup {adding}) \ {victim}
  BY <1>2, <1>4, <1>5, <1>6, <1>7
<1> QED BY <1>2, <1>8, SameCount DEF Table!AddFull, Shown

(***************************************************************************)
(* The newcomer is in the table when add unlocks, with every distance and  *)
(* for every max: it never comes to rest at the index that eviction cuts   *)
(* off.                                                                    *)
(***************************************************************************)
THEOREM NewcomersStay == Spec => NewcomerKept
<1>1. IInv /\ AddingInv /\ [Next]_vars => (apc # "idle" /\ apc' = "idle" => adding \in Entries')
  <2> SUFFICES ASSUME IInv, AddingInv, [Next]_vars, apc # "idle", apc' = "idle"
               PROVE  adding \in Entries'
    OBVIOUS
  <2>1. PICK k \in Live : slots[k] = adding
    BY DEF AddingInv
  <2>2. AddEnd \/ EvictEnd
    <3>1. CASE (\E rn \in Node : AddBegin(rn)) \/ Up \/ EvictBegin
      BY <3>1 DEF AddBegin, Up, EvictBegin
    <3>2. CASE Settle \/ NotEmpty \/ GetBegin \/ GetRead \/ GetEnd \/ Flush \/ UNCHANGED vars
      BY <3>2 DEF Settle, NotEmpty, GetBegin, GetRead, GetEnd, Flush, vars, addVars
    <3> QED BY <3>1, <3>2 DEF Next, AddNext, Panicked
  <2>3. k \in Used' /\ slots' = slots
    BY <2>2, MaxAssumption DEF AddEnd, EvictEnd, Live, Used, IInv, Shape, TypeOK
  <2> QED BY <2>1, <2>3 DEF Entries
<1> QED BY <1>1, AddingInvariant, PTL DEF Spec, NewcomerKept

(***************************************************************************)
(* Seen from outside the mutex, routingTable is NodeTable: an add takes    *)
(* effect at most once, when it unlocks, and when the table is full gives  *)
(* up an older node that another is at least as close as.                  *)
(***************************************************************************)
THEOREM TableRefines == Spec => ImplementsTable
<1>1. Init => Table!Init
  BY DEF Init, Table!Init, Entries, Used
<1>2. IInv /\ AddingInv /\ [Next]_vars => [Table!Next]_Shown
  <2> SUFFICES ASSUME IInv, AddingInv, [Next]_vars PROVE Table!Next \/ Shown' = Shown
    OBVIOUS
  <2>1. CASE \E rn \in Node : AddBegin(rn)
    BY <2>1, AddBeginStutters
  <2>2. CASE Up \/ EvictBegin
    BY <2>2, SwapStutters
  <2>3. CASE AddEnd
    BY <2>3, AddEndAdds DEF Table!Next
  <2>4. CASE EvictEnd
    BY <2>4, EvictEndAdds DEF Table!Next
  <2>5. CASE Flush
    <3>1. apc' = "idle" /\ len' = 0
      BY <2>5 DEF Flush, addVars
    <3>2. Shown' = {}
      BY <3>1 DEF Shown, Entries, Used
    <3> QED BY <3>2 DEF Table!Next, Table!Flush, Shown
  <2>6. CASE Settle \/ NotEmpty \/ GetBegin \/ GetRead \/ GetEnd \/ UNCHANGED vars
    <3>1. UNCHANGED <<slots, len, apc, adding>>
      BY <2>6 DEF Settle, NotEmpty, GetBegin, GetRead, GetEnd, vars, addVars
    <3> QED BY <3>1 DEF Shown, Entries, Used
  <2> QED BY <2>1, <2>2, <2>3, <2>4, <2>5, <2>6 DEF Next, AddNext, Panicked
<1> QED BY <1>1, <1>2, AddingInvariant, PTL DEF Spec, ImplementsTable, Table!Spec, Shown
=============================================================================
