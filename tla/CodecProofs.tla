---------------------------- MODULE CodecProofs ----------------------------
(***************************************************************************)
(* Proofs about Codec: the functions between the network and the node, for *)
(* every message, every pair of ids and every string.                      *)
(***************************************************************************)
EXTENDS Codec, InfohashProofs, FiniteSetTheorems

-----------------------------------------------------------------------------
(***************************************************************************)
(* Loops                                                                   *)
(***************************************************************************)

(* Induction up to n, with a set for the predicate. *)
LEMMA Climb ==
  ASSUME NEW n \in Nat, NEW G, 0 \in G, \A i \in 1 .. n : i - 1 \in G => i \in G
  PROVE  \A i \in 0 .. n : i \in G
<1> DEFINE Bad == {i \in 0 .. n : i \notin G}
<1>1. SUFFICES ASSUME Bad # {} PROVE FALSE
  OBVIOUS
<1>2. PICK k \in Bad : \A l \in Bad : k <= l
  <2>1. Bad \subseteq Nat
    OBVIOUS
  <2> HIDE DEF Bad
  <2> QED BY <1>1, <2>1, FirstIsLeast
<1>3. k \in 1 .. n /\ k - 1 \in 0 .. n /\ k - 1 \notin Bad
  BY <1>2
<1> QED BY <1>2, <1>3

(* The values that a loop over V computes, from s by step[1], step[2], ... *)
Runs(g, V, s, step, n) ==
  /\ g \in [0 .. n -> V]
  /\ g[0] = s
  /\ \A i \in 1 .. n : g[i] = step[i][g[i - 1]]

LEMMA Loop ==
  ASSUME NEW V, NEW s \in V, NEW step \in [Nat -> [V -> V]], NEW n \in Nat
  PROVE  \E g : Runs(g, V, s, step, n)
<1> DEFINE Bad == {k \in Nat : ~\E g : Runs(g, V, s, step, k)}
<1>1. SUFFICES Bad = {}
  OBVIOUS
<1>2. SUFFICES ASSUME Bad # {} PROVE FALSE
  OBVIOUS
<1>3. PICK k \in Bad : \A l \in Bad : k <= l
  <2>1. Bad \subseteq Nat
    OBVIOUS
  <2> HIDE DEF Bad
  <2> QED BY <1>2, <2>1, FirstIsLeast
<1>4. k # 0
  <2> DEFINE h == [i \in 0 .. 0 |-> s]
  <2>1. Runs(h, V, s, step, 0)
    BY DEF Runs
  <2> QED BY <2>1
<1>5. k \in Nat /\ k - 1 \in Nat /\ k - 1 \notin Bad
  <2>1. k \in Nat
    OBVIOUS
  <2> HIDE DEF Bad
  <2> QED BY <1>3, <1>4, <2>1
<1>6. PICK g : Runs(g, V, s, step, k - 1)
  BY <1>5
<1> DEFINE h == [i \in 0 .. k |-> IF i = k THEN step[k][g[k - 1]] ELSE g[i]]
<1>7. g[k - 1] \in V /\ step[k][g[k - 1]] \in V
  BY <1>5, <1>6 DEF Runs
<1>8. \A i \in 0 .. k - 1 : h[i] = g[i]
  BY <1>5
<1>9. h \in [0 .. k -> V]
  BY <1>5, <1>6, <1>7 DEF Runs
<1>10. h[k] = step[k][h[k - 1]]
  BY <1>5, <1>8
<1> HIDE DEF h
<1>11. \A i \in 1 .. k : h[i] = step[i][h[i - 1]]
  <2> TAKE i \in 1 .. k
  <2>1. CASE i = k
    BY <1>10, <2>1
  <2>2. CASE i # k
    <3>1. i \in 1 .. k - 1 /\ i \in 0 .. k - 1 /\ i - 1 \in 0 .. k - 1
      BY <1>5, <2>2
    <3>2. g[i] = step[i][g[i - 1]]
      BY <1>6, <3>1 DEF Runs
    <3> QED BY <1>8, <3>1, <3>2
  <2> QED BY <2>1, <2>2
<1>12. h[0] = s
  BY <1>5, <1>6, <1>8 DEF Runs
<1>13. Runs(h, V, s, step, k)
  BY <1>9, <1>11, <1>12 DEF Runs
<1> QED BY <1>13

-----------------------------------------------------------------------------
(***************************************************************************)
(* What call can be: idle, or one of the functions with arguments of its   *)
(* own and the result it computes.                                         *)
(***************************************************************************)
Made(fn, args, result) == call = [fn |-> fn, args |-> args, result |-> result]

Received(n, src, m) ==
  [kind |-> Kind(n, src, m),
   peer |-> IF Kind(n, src, m) = "announce" THEN AnnouncedPeer(n, src, Get(m, "a")) ELSE NoAddr]

Read(n, nodes, extra) ==
  LET list == OnTheWire(nodes) \o extra
  IN  [wrong |-> WrongLength(n, list), nodes |-> ListedNodes(n, list)]

Computed ==
  \/ call = Idle
  \/ \E s \in Strings : Made("ParseId", <<s>>, InfohashFromString(s))
  \/ \E a, b \in Id : Made("Compare", <<a, b>>, Distance(a, b))
  \/ \E a, b \in Id : Made("Neighbour", <<a, b>>, GenerateNeighbour(a, b))
  \/ \E c \in Compacts : Made("Decode", <<c>>, DecodeCompactNodeAddr(c))
  \/ \E a \in Texts : Made("Encode", <<a>>, EncodeCompactNodeAddr(a))
  \/ \E n \in Receivers, nodes \in Lists, extra \in Extras :
       Made("ReadList", <<n, nodes, extra>>, Read(n, nodes, extra))
  \/ \E info \in Infos : Made("Load", <<info>>, TorrentFromMetadata(info))
  \/ \E n \in Receivers, src \in Sources, m \in Messages :
       Resolves(n, src) /\ Made("Receive", <<n, src, m>>, Received(n, src, m))

THEOREM CodecInvariant == Spec => []Computed
<1>1. Init => Computed
  BY DEF Init, Computed
<1>2. Computed /\ [Next]_call => Computed'
  <2> SUFFICES ASSUME Computed, [Next]_call PROVE Computed'
    OBVIOUS
  <2>1. ASSUME NEW s \in Strings, ParseId(s) PROVE Computed'
    BY <2>1 DEF ParseId, Returns, Computed, Made
  <2>2. ASSUME NEW a \in Id, NEW b \in Id, Compare(a, b) \/ Neighbour(a, b) PROVE Computed'
    BY <2>2 DEF Compare, Neighbour, Returns, Computed, Made
  <2>3. ASSUME NEW n \in Receivers, NEW src \in Sources, NEW m \in Messages,
               Resolves(n, src) /\ Receive(n, src, m)
        PROVE  Computed'
    BY <2>3, Zenon DEF Receive, Returns, Computed, Made, Received
  <2>4. ASSUME NEW c \in Compacts, Decode(c) PROVE Computed'
    BY <2>4 DEF Decode, Returns, Computed, Made
  <2>5. ASSUME NEW a \in Texts, Encode(a) PROVE Computed'
    BY <2>5 DEF Encode, Returns, Computed, Made
  <2>6. ASSUME NEW n \in Receivers, NEW nodes \in Lists, NEW extra \in Extras,
               ReadList(n, nodes, extra)
        PROVE  Computed'
    BY <2>6, Zenon DEF ReadList, Returns, Computed, Made, Read
  <2>7. ASSUME NEW info \in Infos, Load(info) PROVE Computed'
    BY <2>7 DEF Load, Returns, Computed, Made
  <2>8. ASSUME Return \/ UNCHANGED call PROVE Computed'
    BY <2>8 DEF Return, Computed, Made
  <2> QED BY <2>1, <2>2, <2>3, <2>4, <2>5, <2>6, <2>7, <2>8 DEF Next, Call
<1> QED BY <1>1, <1>2, PTL DEF Spec

-----------------------------------------------------------------------------
(***************************************************************************)
(* InfohashFromString returns ids or an error, refuses every other length, *)
(* and undoes Infohash.String, for every string and every id.              *)
(***************************************************************************)
THEOREM CodecIdsParse == Spec => []IdsParse
<1>1. Computed => IdsParse
  <2> SUFFICES ASSUME Computed, call.fn = "ParseId" PROVE IdsParse
    BY DEF IdsParse, Called
  <2>1. PICK s \in Strings : Made("ParseId", <<s>>, InfohashFromString(s))
    BY DEF Computed, Made, Idle
  <2>2. call.result = InfohashFromString(s) /\ Arg(1) = s /\ s \in Seq(Byte)
    BY <2>1, CodecAssumption DEF Made, Arg
  <2>3. /\ call.result # Invalid => call.result \in Id
        /\ Len(Arg(1)) \notin {InfohashLength, 2 * InfohashLength} => call.result = Invalid
    BY <2>2, ParsedIds
  <2>4. \A ih \in Id : InfohashFromString(ToHex(ih)) = ih
    BY FromToHex
  <2>5. \A ih \in Id : Arg(1) = ToHex(ih) => call.result = ih
    BY <2>2, <2>4
  <2> QED BY <2>3, <2>4, <2>5 DEF IdsParse
<1> QED BY <1>1, CodecInvariant, PTL

(***************************************************************************)
(* GenerateNeighbour, which writes into the id that the routing table      *)
(* holds, leaves the distance that rItem has cached right, for every pair  *)
(* of ids: or it turns the id into our own.                                *)
(***************************************************************************)
THEOREM CodecCachedDistance == Spec => []CachedDistanceHolds
<1>1. Computed => CachedDistanceHolds
  <2> SUFFICES ASSUME Computed, call.fn = "Neighbour" PROVE CachedDistanceHolds
    BY DEF CachedDistanceHolds, Called
  <2>1. PICK a, b \in Id : Made("Neighbour", <<a, b>>, GenerateNeighbour(a, b))
    BY DEF Computed, Made, Idle
  <2>2. call.result = GenerateNeighbour(a, b) /\ Arg(1) = a /\ Arg(2) = b
    BY <2>1 DEF Made, Arg
  <2>3. Distance(a, b) \in Int /\ Half * ByteBits \in Int
    BY DistanceRange, Lengths
  <2>4. CASE \A h \in 1 .. Half : a[h] = b[h]
    <3>1. ~(Distance(a, b) < Half * ByteBits)
      BY <2>3, <2>4, DistanceRange
    <3>2. GenerateNeighbour(a, b) = a
      BY <2>4, NeighbourIsSelf
    <3> QED BY <2>2, <3>1, <3>2 DEF CachedDistanceHolds
  <2>5. CASE \E h \in 1 .. Half : a[h] # b[h]
    <3>1. Distance(a, b) < Half * ByteBits
      BY <2>5, DistanceRange
    <3>2. Distance(a, GenerateNeighbour(a, b)) = Distance(a, b)
      BY <2>5, NeighbourDiffers
    <3> QED BY <2>2, <3>1, <3>2 DEF CachedDistanceHolds
  <2> QED BY <2>4, <2>5
<1> QED BY <1>1, CodecInvariant, PTL

-----------------------------------------------------------------------------
(***************************************************************************)
(* Messages                                                                *)
(***************************************************************************)

(* An id of the protocol is one that the handlers take. *)
LEMMA ProtocolIdTaken ==
  ASSUME NEW data, NEW key, ProtocolId(data, key)
  PROVE  HasId(data, key) /\ IdIn(data, key) = Get(data, key)
<1> DEFINE s == Get(data, key)
<1>1. Len(s) = InfohashLength /\ Has(data, key, "string") /\ InfohashLength \in Nat \ {0}
  BY InfohashAssumption DEF ProtocolId
<1>2. InfohashFromString(s) = s
  BY <1>1 DEF InfohashFromString
<1>3. s # Invalid
  BY <1>1 DEF Invalid
<1> QED BY <1>1, <1>2, <1>3 DEF HasId, IdIn

(* The paths of a query, a response and an error that keep to the          *)
(* protocol.                                                               *)
LEMMA ConformingQuery ==
  ASSUME NEW n, NEW src, NEW m, Has(m, "t", "string"),
         \/ Query(m, "ping", {"id"}) \/ Query(m, "find_node", {"id"})
         \/ Query(m, "get_peers", {"id", "info_hash"}) \/ Announcement(m)
  PROVE  RequestKind(n, src, m) \in
           {"own_id", "ping", "get_peers", "announce", "bad_announce", "unknown_query"}
<1>1. /\ Has(m, "q", "string") /\ Has(m, "a", "map") /\ HasId(Get(m, "a"), "id")
      /\ Get(m, "q") \in {"ping", "find_node", "get_peers", "announce_peer"}
      /\ Get(m, "q") = "get_peers" => HasId(Get(m, "a"), "info_hash")
  BY ProtocolIdTaken DEF Query, Announcement
<1>2. QueryKind(n, src, m, Get(m, "a")) \in
        {"ping", "get_peers", "announce", "bad_announce", "unknown_query"}
  <2>1. CASE Get(m, "q") = "ping"
    BY <2>1 DEF QueryKind
  <2>2. CASE Get(m, "q") = "find_node"
    BY <2>2 DEF QueryKind
  <2>3. CASE Get(m, "q") = "get_peers"
    <3>1. GetPeersKind(m, Get(m, "a")) = "get_peers"
      BY <1>1, <2>3 DEF GetPeersKind
    <3> QED BY <2>3, <3>1 DEF QueryKind
  <2>4. CASE Get(m, "q") = "announce_peer"
    BY <2>4 DEF QueryKind
  <2> QED BY <1>1, <2>1, <2>2, <2>3, <2>4
<1> QED BY <1>1, <1>2 DEF RequestKind

LEMMA ConformingResponse ==
  ASSUME NEW n \in [id : Id, family : {"udp4", "udp6"}], NEW m, Has(m, "r", "map"), Response(n, Get(m, "r"))
  PROVE  ResponseKind(n, m) \in {"nodes", "values", "empty_response"}
<1> DEFINE r == Get(m, "r")
<1>0. NodeLength(n) = InfohashLength + HostLength[n.family] + 2
  BY InfohashAssumption, KrpcAssumption DEF NodeLength, AddrLen, HostLength
<1>1. /\ HasId(r, "id")
      /\ Has(r, "nodes", "string") => ~WrongLength(n, Get(r, "nodes"))
      /\ Has(r, "values", "list") =>
           \A i \in DOMAIN Get(r, "values") : Get(r, "values")[i][1] = "string"
  BY <1>0, ProtocolIdTaken DEF Response, Has, AllStrings, WrongLength
<1> HIDE DEF r
<1>2. ResponseKind(n, m) =
        IF Has(r, "nodes", "string")
          THEN IF WrongLength(n, Get(r, "nodes")) THEN "bad_nodes" ELSE "nodes"
        ELSE IF Has(r, "values", "list")
          THEN IF \A i \in DOMAIN Get(r, "values") : Get(r, "values")[i][1] = "string"
                 THEN "values" ELSE "odd_values"
        ELSE "empty_response"
  BY <1>1 DEF ResponseKind, r
<1> QED BY <1>1, <1>2

LEMMA ConformingError ==
  ASSUME NEW m, Has(m, "e", "list"), Error(Get(m, "e"))
  PROVE  ErrorKind(m) = "error"
BY DEF ErrorKind, Error

(***************************************************************************)
(* No message that keeps to the protocol panics the process or gets its    *)
(* sender blacklisted, whatever node it reaches, whatever else is in it    *)
(* and wherever it comes from.                                             *)
(***************************************************************************)
THEOREM CodecConforming == Spec => []ConformingAccepted
<1>1. ASSUME NEW n \in [id : Id, family : {"udp4", "udp6"}], NEW src, NEW m, Conforms(n, m)
      PROVE  Kind(n, src, m) \in {"own_id", "ping", "get_peers", "announce", "bad_announce",
                                  "unknown_query", "nodes", "values", "empty_response", "error"}
  <2>1. Has(m, "t", "string") /\ Has(m, "y", "string")
    BY <1>1 DEF Conforms
  <2>2. CASE Get(m, "y") = "q"
    <3>1. \/ Query(m, "ping", {"id"}) \/ Query(m, "find_node", {"id"})
          \/ Query(m, "get_peers", {"id", "info_hash"}) \/ Announcement(m)
      BY <1>1, <2>2 DEF Conforms
    <3>2. Kind(n, src, m) = RequestKind(n, src, m)
      BY <2>1, <2>2 DEF Kind
    <3>3. RequestKind(n, src, m) \in
            {"own_id", "ping", "get_peers", "announce", "bad_announce", "unknown_query"}
      BY <2>1, <3>1, ConformingQuery
    <3> QED BY <3>2, <3>3
  <2>3. CASE Get(m, "y") = "r"
    <3>1. Has(m, "r", "map") /\ Response(n, Get(m, "r"))
      BY <1>1, <2>3 DEF Conforms
    <3>2. Kind(n, src, m) = ResponseKind(n, m)
      BY <2>1, <2>3 DEF Kind
    <3>3. ResponseKind(n, m) \in {"nodes", "values", "empty_response"}
      BY <3>1, ConformingResponse
    <3> QED BY <3>2, <3>3
  <2>4. CASE Get(m, "y") = "e"
    <3>1. Has(m, "e", "list") /\ Error(Get(m, "e"))
      BY <1>1, <2>4 DEF Conforms
    <3>2. Kind(n, src, m) = ErrorKind(m)
      BY <2>1, <2>4 DEF Kind
    <3> QED BY <3>1, <3>2, ConformingError
  <2>5. Get(m, "y") \in {"q", "r", "e"}
    BY <1>1 DEF Conforms
  <2> QED BY <2>2, <2>3, <2>4, <2>5
<1>2. Computed => ConformingAccepted
  <2> SUFFICES ASSUME Computed, call.fn = "Receive", Conforms(Arg(1), Arg(3))
               PROVE  call.result.kind \notin
                        Undecoded \cup Rejected \cup Crashing \cup AddedThenRejected \cup {"bad_nodes"}
    BY DEF ConformingAccepted, Called
  <2>1. PICK n \in Receivers, src \in Sources, m \in Messages :
          Made("Receive", <<n, src, m>>, Received(n, src, m))
    BY DEF Computed, Made, Idle
  <2>2. call.result.kind = Kind(n, src, m) /\ Arg(1) = n /\ Arg(3) = m
    BY <2>1 DEF Made, Arg, Received
  <2>3. Kind(n, src, m) \in {"own_id", "ping", "get_peers", "announce", "bad_announce",
                             "unknown_query", "nodes", "values", "empty_response", "error"}
    BY <1>1, <2>2, CodecAssumption
  <2> QED BY <2>2, <2>3 DEF Undecoded, Rejected, Crashing, AddedThenRejected
<1> QED BY <1>2, CodecInvariant, PTL

(***************************************************************************)
(* Every announcement that keeps to the protocol is reported at the host   *)
(* that it came from, with a port that is given or implied, except with a  *)
(* given one over IPv6: for all messages, sources and receivers.           *)
(***************************************************************************)
THEOREM CodecAnnouncers == Spec => []AnnouncersReported
<1>1. ASSUME NEW n \in Receivers, NEW src \in Sources, NEW m, Resolves(n, src),
             Has(m, "y", "string"), Get(m, "y") = "q", Announcement(m), Has(m, "t", "string"),
             ~Equal(n.id, Get(Get(m, "a"), "id")), src.port # 0, Get(Get(m, "a"), "port") \in 1 .. MaxPort,
             ~(MessagePort(Get(m, "a")) /\ n.family = "udp6")
      PROVE  LET peer == AnnouncedPeer(n, src, Get(m, "a"))
             IN  Kind(n, src, m) = "announce" /\ peer # NoAddr /\ peer.host = src.host
  <2> DEFINE a == Get(m, "a")
             peer == AnnouncedPeer(n, src, a)
             moved == [src EXCEPT !.port = Get(a, "port")]
  <2>1. /\ Has(m, "q", "string") /\ Get(m, "q") = "announce_peer" /\ Has(m, "a", "map")
        /\ ProtocolId(a, "id") /\ ProtocolId(a, "info_hash")
    BY <1>1 DEF Announcement, Query
  <2>2. HasId(a, "id") /\ IdIn(a, "id") = Get(a, "id") /\ HasId(a, "info_hash")
    BY <2>1, ProtocolIdTaken
  <2>3. /\ src \in [host : Seq(Byte), port : Nat] /\ NoAddr.port = 0 /\ NoAddr.host = << >>
        /\ n \in [id : Id, family : {"udp4", "udp6"}]
    BY CodecAssumption DEF NoAddr
  <2>4. peer # NoAddr /\ peer.host = src.host
    <3>1. CASE ~MessagePort(a)
      <4>1. peer = src
        BY <1>1, <2>2, <3>1 DEF AnnouncedPeer
      <4> QED BY <1>1, <2>3, <4>1
    <3>2. CASE MessagePort(a)
      <4>1. n.family = "udp4" /\ Len(src.host) = IPv4len /\ Get(a, "port") \in 0 .. MaxPort
        <5>1. n.family = "udp4"
          BY <1>1, <2>3, <3>2
        <5> QED BY <1>1, <5>1, KrpcAssumption DEF Resolves, AddrLen, MaxPort
      <4>2. peer = moved
        BY <1>1, <2>2, <3>2, <4>1 DEF AnnouncedPeer
      <4>3. moved.host = src.host /\ moved.port = Get(a, "port") /\ Get(a, "port") # 0
        BY <1>1, <2>3
      <4> QED BY <2>3, <4>2, <4>3
    <3> QED BY <3>1, <3>2
  <2>5. ~Equal(n.id, Get(a, "id"))
    BY <1>1
  <2> HIDE DEF a, peer
  <2>6. QueryKind(n, src, m, a) = "announce"
    BY <2>1, <2>4 DEF QueryKind, peer
  <2>7. RequestKind(n, src, m) = "announce"
    BY <2>1, <2>2, <2>5, <2>6 DEF RequestKind, a
  <2>8. Kind(n, src, m) = "announce"
    BY <1>1, <2>7 DEF Kind
  <2> QED BY <2>4, <2>8 DEF a, peer
<1>2. Computed => AnnouncersReported
  <2> SUFFICES ASSUME Computed, call.fn = "Receive" PROVE AnnouncersReported
    BY DEF AnnouncersReported, Called
  <2>1. PICK n \in Receivers, src \in Sources, m \in Messages :
          Resolves(n, src) /\ Made("Receive", <<n, src, m>>, Received(n, src, m))
    BY DEF Computed, Made, Idle
  <2>2. /\ Arg(1) = n /\ Arg(2) = src /\ Arg(3) = m
        /\ call.result.peer = IF Kind(n, src, m) = "announce"
                                THEN AnnouncedPeer(n, src, Get(m, "a")) ELSE NoAddr
    BY <2>1 DEF Made, Arg, Received
  <2> DEFINE a == Get(m, "a")
             given == Has(a, "implied_port", "int") /\ Get(a, "implied_port") = 0
             Premises == /\ Conforms(n, m) /\ Get(m, "y") = "q" /\ Announcement(m)
                         /\ ~Equal(n.id, Get(a, "id")) /\ src.port # 0 /\ Get(a, "port") \in 1 .. MaxPort
                         /\ ~(given /\ n.family = "udp6")
  <2>3. ASSUME Premises PROVE call.result.peer # NoAddr /\ call.result.peer.host = src.host
    <3>1. Has(m, "y", "string") /\ Has(m, "t", "string")
      BY <2>3 DEF Conforms
    <3>2. MessagePort(a) => given
      BY DEF MessagePort
    <3>3. LET peer == AnnouncedPeer(n, src, Get(m, "a"))
          IN  Kind(n, src, m) = "announce" /\ peer # NoAddr /\ peer.host = src.host
      BY <1>1, <2>1, <2>3, <3>1, <3>2
    <3> QED BY <2>2, <3>3
  <2> QED BY <2>2, <2>3 DEF AnnouncersReported
<1> QED BY <1>2, CodecInvariant, PTL

-----------------------------------------------------------------------------
(***************************************************************************)
(* Metadata and addresses                                                  *)
(***************************************************************************)

(***************************************************************************)
(* TorrentFromMetadata accepts exactly the metadata with a name and either *)
(* files, each with a path and a length, or a length: for every info       *)
(* dictionary that a peer may send.                                        *)
(***************************************************************************)
THEOREM MetadataAccepted ==
  ASSUME NEW info
  PROVE  TorrentFromMetadata(info).status = "ok" <=> InfoConforms(info)
<1>1. Refused.status = "error" /\ Panic.status = "panic"
  BY DEF Refused, Panic
<1>2. ASSUME NEW files
      PROVE  FromFiles(files).status = "ok" <=> \A i \in DOMAIN files : FileConforms(files[i])
  <2> DEFINE bad == {i \in DOMAIN files : FileFails(files[i])}
  <2>1. \A f : FileFails(f) <=> ~FileConforms(f)
    BY DEF FileFails, FilePanics, FileConforms, AllStrings
  <2>2. bad = {} <=> \A i \in DOMAIN files : FileConforms(files[i])
    BY <2>1
  <2>3. CASE bad = {}
    <3>1. FromFiles(files) = [status |-> "ok", files |-> Len(files), size |-> TotalSize(files)]
      BY <2>3 DEF FromFiles
    <3>2. FromFiles(files).status = "ok"
      BY <3>1
    <3> QED BY <2>2, <2>3, <3>2
  <2>4. CASE bad # {}
    <3>1. FromFiles(files) \in {Panic, Refused}
      BY <2>4 DEF FromFiles
    <3> QED BY <1>1, <2>2, <2>4, <3>1
  <2> QED BY <2>3, <2>4
<1>3. CASE ~Has(info, "name", "string")
  BY <1>1, <1>3 DEF TorrentFromMetadata, InfoConforms
<1>4. CASE Has(info, "name", "string") /\ Has(info, "files", "list")
  <2>1. TorrentFromMetadata(info) = FromFiles(Get(info, "files"))
    BY <1>4 DEF TorrentFromMetadata
  <2> QED BY <1>2, <1>4, <2>1 DEF InfoConforms
<1>5. CASE /\ Has(info, "name", "string") /\ ~Has(info, "files", "list")
           /\ Has(info, "length", "int")
  <2>1. TorrentFromMetadata(info) = [status |-> "ok", files |-> 0, size |-> Get(info, "length")]
    BY <1>5 DEF TorrentFromMetadata
  <2>2. TorrentFromMetadata(info).status = "ok"
    BY <2>1
  <2> QED BY <1>5, <2>2 DEF InfoConforms
<1>6. CASE /\ Has(info, "name", "string") /\ ~Has(info, "files", "list")
           /\ ~Has(info, "length", "int")
  BY <1>1, <1>6 DEF TorrentFromMetadata, InfoConforms
<1> QED BY <1>3, <1>4, <1>5, <1>6

(* The length of what To4 returns, and that a second To4 changes nothing. *)
LEMMA To4Once ==
  ASSUME NEW ip \in Seq(Byte), Len(ip) \in {IPv4len, IPv6len}
  PROVE  To4(ip) \in Seq(Byte) /\ To4(ip) # << >> /\ To4(To4(ip)) = To4(ip)
<1>1. Len(V4Prefix) \in Nat /\ IPv4len \in Nat /\ IPv4len > 0 /\ IPv6len = Len(V4Prefix) + IPv4len
      /\ Len(V4Prefix) > 0
  BY KrpcAssumption
<1>2. CASE Mapped(ip)
  <2>1. To4(ip) = SubSeq(ip, Len(V4Prefix) + 1, IPv6len) /\ Len(ip) = IPv6len
    BY <1>2 DEF To4, Mapped
  <2>2. To4(ip) \in Seq(Byte) /\ Len(To4(ip)) = IPv4len
    BY <1>1, <2>1
  <2>3. ~Mapped(To4(ip))
    BY <1>1, <2>2 DEF Mapped
  <2>4. To4(To4(ip)) = To4(ip)
    BY <2>3 DEF To4
  <2>5. To4(ip) # << >>
    BY <1>1, <2>2
  <2> QED BY <2>2, <2>4, <2>5
<1>3. CASE ~Mapped(ip)
  <2>1. To4(ip) = ip
    BY <1>3 DEF To4
  <2>2. ip # << >>
    BY <1>1
  <2> QED BY <2>1, <2>2
<1> QED BY <1>2, <1>3

(* A sequence of two elements is a pair. *)
LEMMA IsPair ==
  ASSUME NEW S, NEW s \in Seq(S), Len(s) = 2
  PROVE  s = <<s[1], s[2]>>
OBVIOUS

(* The two bytes of a port, and the port of two bytes. *)
LEMMA PortBytes ==
  ASSUME NEW b \in Byte, NEW c \in Byte
  PROVE  /\ ByteBase * b + c \in 0 .. MaxPort
         /\ (ByteBase * b + c) \div ByteBase = b
         /\ (ByteBase * b + c) % ByteBase = c
<1>1. \A B \in Nat \ {0} : \A x, y \in 0 .. B - 1 :
        B * x + y \in 0 .. B * B - 1 /\ (B * x + y) \div B = x /\ (B * x + y) % B = y
  OBVIOUS
<1>2. ByteBase \in Nat \ {0} /\ Byte = 0 .. ByteBase - 1 /\ MaxPort = ByteBase * ByteBase - 1
  BY Lengths DEF ByteBase, Byte, MaxPort
<1> QED BY <1>1, <1>2

(***************************************************************************)
(* An address that DecodeCompactNodeAddr accepts is encoded to the bytes   *)
(* it was decoded from, for every byte string; an IPv4 address in IPv6     *)
(* clothes becomes the IPv4 one.                                           *)
(***************************************************************************)
THEOREM DecodeThenEncode ==
  ASSUME NEW c \in Seq(Byte), DecodeCompactNodeAddr(c) # NoAddr
  PROVE  LET n == Len(c) - 2
         IN  EncodeCompactNodeAddr(DecodeCompactNodeAddr(c)) =
               To4(SubSeq(c, 1, n)) \o SubSeq(c, n + 1, n + 2)
<1> DEFINE n == Len(c) - 2
           ip == SubSeq(c, 1, n)
           pb == SubSeq(c, n + 1, n + 2)
           r  == DecodeCompactNodeAddr(c)
<1>1. n \in {IPv4len, IPv6len}
  BY DEF DecodeCompactNodeAddr
<1>2. r = [host |-> To4(ip), port |-> PortOf(pb)]
  BY <1>1 DEF DecodeCompactNodeAddr
<1>3. n \in Nat /\ Len(c) = n + 2
  BY <1>1, KrpcAssumption
<1>4. ip \in Seq(Byte) /\ Len(ip) = n
  BY <1>3
<1>5. pb = <<c[n + 1], c[n + 2]>> /\ c[n + 1] \in Byte /\ c[n + 2] \in Byte
  <2>1. c[n + 1] \in Byte /\ c[n + 2] \in Byte
    BY <1>3
  <2>2. pb \in Seq(Byte) /\ Len(pb) = 2 /\ pb[1] = c[n + 1] /\ pb[2] = c[n + 2]
    BY <1>3
  <2> HIDE DEF pb
  <2> QED BY <2>1, <2>2, IsPair
<1>6. pb[1] = c[n + 1] /\ pb[2] = c[n + 2]
  BY <1>5
<1> HIDE DEF n, ip, pb, r
<1>7. /\ PortOf(pb) \in 0 .. MaxPort
      /\ PortOf(pb) \div ByteBase = c[n + 1] /\ PortOf(pb) % ByteBase = c[n + 2]
  BY <1>5, <1>6, PortBytes DEF PortOf
<1>8. MaxPort \in Int
  BY Lengths DEF MaxPort, ByteBase
<1>9. ParsePort(PortOf(pb)) = PortOf(pb)
  BY <1>7, <1>8 DEF ParsePort
<1>10. To4(ip) # << >> /\ To4(To4(ip)) = To4(ip)
  BY <1>1, <1>4, To4Once
<1>11. r.host = To4(ip) /\ r.port = PortOf(pb)
  BY <1>2
<1>12. EncodeCompactNodeAddr(r) = To4(ip) \o <<c[n + 1], c[n + 2]>>
  BY <1>7, <1>9, <1>10, <1>11 DEF EncodeCompactNodeAddr
<1> QED BY <1>5, <1>12 DEF n, ip, pb, r

-----------------------------------------------------------------------------
(***************************************************************************)
(* Distance, bit by bit                                                    *)
(***************************************************************************)

(* A place in an earlier row of width w comes before one in a later row. *)
LEMMA RowsOrdered ==
  ASSUME NEW w \in Nat, NEW u \in Nat, NEW v \in Nat, NEW y \in Nat, NEW z \in Nat,
         y < w, u < v
  PROVE  w * u + y < w * v + z
<1>1. PICK e \in Nat : v = u + 1 + e
  <2>1. v - (u + 1) \in Nat /\ v = u + 1 + (v - (u + 1))
    OBVIOUS
  <2> QED BY <2>1
<1>2. w * v = w * u + w + w * e /\ w * e \in Nat /\ w * u \in Nat
  BY <1>1
<1> QED BY <1>2

(* The byte and the bit of a place are found by division. *)
LEMMA DivisionUnique ==
  ASSUME NEW x \in Nat, NEW w \in Nat, w > 0, NEW q \in Nat, NEW r \in Nat, r < w,
         x = w * q + r
  PROVE  x \div w = q /\ x % w = r
<1>1. x \div w \in Nat /\ x % w \in Nat /\ x % w < w /\ x = w * (x \div w) + (x % w)
  OBVIOUS
<1> DEFINE p == x \div w
           s == x % w
<1>2. p \in Nat /\ s \in Nat /\ s < w /\ w * q + r = w * p + s
  BY <1>1
<1> HIDE DEF p, s
<1>3. \A u, v, y, z \in Nat : y < w /\ u < v => w * u + y < w * v + z
  BY RowsOrdered
<1>4. ~(p < q) /\ ~(q < p)
  <2>1. w * q + r \in Nat /\ w * p + s \in Nat
    BY <1>2
  <2>2. ASSUME p < q PROVE FALSE
    <3>1. w * p + s < w * q + r
      BY <1>2, <1>3, <2>2
    <3> QED BY <1>2, <2>1, <3>1
  <2>3. ASSUME q < p PROVE FALSE
    <3>1. w * q + r < w * p + s
      BY <1>2, <1>3, <2>3
    <3> QED BY <1>2, <2>1, <3>1
  <2> QED BY <2>2, <2>3
<1>5. p = q
  BY <1>2, <1>4
<1>6. s = r
  <2>1. w * q \in Nat
    OBVIOUS
  <2> QED BY <1>2, <1>5, <2>1
<1> QED BY <1>5, <1>6 DEF p, s

(***************************************************************************)
(* Infohash.Distance, which looks for a byte and then shifts one, is the   *)
(* number of leading bits that two ids of any length share: the two agree  *)
(* on so many bits, and on the next one, if there is one, they do not.     *)
(***************************************************************************)
THEOREM DistanceIsPrefix ==
  ASSUME NEW a \in Id, NEW b \in Id
  PROVE  /\ Distance(a, b) \in 0 .. IdBits
         /\ \A n \in 1 .. Distance(a, b) : BitsOf(a)[n] = BitsOf(b)[n]
         /\ Distance(a, b) < IdBits =>
              BitsOf(a)[Distance(a, b) + 1] # BitsOf(b)[Distance(a, b) + 1]
<1> DEFINE W == ByteBits * InfohashLength
           D == Distance(a, b)
           Row(n) == ((n - 1) \div ByteBits) + 1
           Col(n) == ((n - 1) % ByteBits) + 1
<1>1. D \in 0 .. W /\ W \in Nat
  BY DistanceRange, Lengths
<1>2. \A n \in 1 .. W : /\ BitsOf(a)[n] = Bits[a[Row(n)]][Col(n)]
                        /\ BitsOf(b)[n] = Bits[b[Row(n)]][Col(n)]
  BY DEF BitsOf, IdBits
<1>3. \A n \in 1 .. W :
        /\ Row(n) \in Nat /\ Row(n) - 1 \in Nat /\ Col(n) \in 1 .. ByteBits
        /\ n - 1 = ByteBits * (Row(n) - 1) + (Col(n) - 1)
  <2>1. \A x, w \in Nat : w > 0 =>
          x \div w \in Nat /\ x % w \in Nat /\ x % w < w /\ x = w * (x \div w) + (x % w)
    OBVIOUS
  <2> TAKE n \in 1 .. W
  <2> DEFINE x == n - 1
             q == x \div ByteBits
             r == x % ByteBits
  <2>2. x \in Nat
    BY <1>1
  <2>3. q \in Nat /\ r \in Nat /\ r < ByteBits /\ x = ByteBits * q + r
    BY <2>1, <2>2, Lengths
  <2>4. Row(n) = q + 1 /\ Col(n) = r + 1
    OBVIOUS
  <2> HIDE DEF q, r, Row, Col
  <2>5. Row(n) - 1 = q /\ Col(n) - 1 = r
    BY <2>3, <2>4
  <2> QED BY <2>3, <2>4, <2>5, Lengths
<1>4. \A u, v, y, z \in Nat : z < ByteBits /\ v < u => ~(ByteBits * u + y < ByteBits * v + z)
  <2> SUFFICES ASSUME NEW u \in Nat, NEW v \in Nat, NEW y \in Nat, NEW z \in Nat, z < ByteBits, v < u
               PROVE  ~(ByteBits * u + y < ByteBits * v + z)
    OBVIOUS
  <2> DEFINE x == ByteBits * v + z
             t == ByteBits * u + y
  <2>1. x < t
    BY Lengths, RowsOrdered
  <2>2. x \in Nat /\ t \in Nat
    BY Lengths
  <2> HIDE DEF x, t
  <2>3. ~(t < x)
    BY <2>1, <2>2
  <2> QED BY <2>3 DEF x, t
<1> HIDE DEF Row, Col, D
<1>5. \A n \in 1 .. W : Row(n) \in 1 .. InfohashLength
  <2> TAKE n \in 1 .. W
  <2>1. Row(n) \in Nat /\ Row(n) - 1 \in Nat /\ Col(n) \in 1 .. ByteBits
        /\ n - 1 = ByteBits * (Row(n) - 1) + (Col(n) - 1)
    BY <1>3
  <2>2. n - 1 < W
    BY <1>1
  <2>3. Col(n) - 1 \in Nat /\ Row(n) \in Nat
    BY <2>1, Lengths
  <2>4. ~(InfohashLength < Row(n))
    <3> SUFFICES ASSUME InfohashLength < Row(n) PROVE FALSE
      OBVIOUS
    <3>1. PICK e \in Nat : Row(n) - 1 = InfohashLength + e
      <4>1. Row(n) - 1 - InfohashLength \in Nat
            /\ Row(n) - 1 = InfohashLength + (Row(n) - 1 - InfohashLength)
        BY <2>3, Lengths
      <4> QED BY <4>1
    <3>2. ByteBits * (InfohashLength + e) = ByteBits * InfohashLength + ByteBits * e
          /\ ByteBits * e \in Nat
      BY Lengths
    <3>3. n - 1 = W + ByteBits * e + (Col(n) - 1)
      BY <2>1, <3>1, <3>2
    <3> HIDE DEF W
    <3> QED BY <1>1, <2>2, <2>3, <3>2, <3>3
  <2> QED BY <2>1, <2>3, <2>4, Lengths
<1>6. CASE D = W /\ \A k \in 1 .. InfohashLength : a[k] = b[k]
  BY <1>1, <1>2, <1>5, <1>6 DEF D, IdBits
<1>7. CASE \E i \in 1 .. InfohashLength, j \in 1 .. ByteBits :
             /\ D = ByteBits * (i - 1) + j - 1
             /\ a[i] # b[i] /\ \A k \in 1 .. InfohashLength : a[k] # b[k] => i <= k
             /\ Bits[a[i]][j] # Bits[b[i]][j]
             /\ \A k \in 1 .. ByteBits : Bits[a[i]][k] # Bits[b[i]][k] => j <= k
  <2>1. PICK i \in 1 .. InfohashLength, j \in 1 .. ByteBits :
             /\ D = ByteBits * (i - 1) + j - 1
             /\ a[i] # b[i] /\ \A k \in 1 .. InfohashLength : a[k] # b[k] => i <= k
             /\ Bits[a[i]][j] # Bits[b[i]][j]
             /\ \A k \in 1 .. ByteBits : Bits[a[i]][k] # Bits[b[i]][k] => j <= k
    BY <1>7
  <2>2. i \in Nat /\ i - 1 \in Nat /\ j \in Nat /\ j - 1 \in Nat /\ j - 1 < ByteBits
    BY Lengths
  <2>3. ByteBits * (i - 1) \in Nat /\ D = ByteBits * (i - 1) + (j - 1)
    BY <2>1, <2>2, Lengths
  <2>4. ASSUME NEW n \in 1 .. D PROVE BitsOf(a)[n] = BitsOf(b)[n]
    <3>1. n \in 1 .. W /\ n - 1 < D
      BY <1>1
    <3>2. /\ Row(n) - 1 \in Nat /\ Col(n) \in 1 .. ByteBits /\ Row(n) \in 1 .. InfohashLength
          /\ n - 1 = ByteBits * (Row(n) - 1) + (Col(n) - 1)
      BY <1>3, <1>5, <3>1
    <3>3. Col(n) - 1 \in Nat
      BY <3>2, Lengths
    <3>4. ByteBits * (Row(n) - 1) + (Col(n) - 1) < ByteBits * (i - 1) + (j - 1)
      BY <2>3, <3>1, <3>2
    <3>5. ~(i - 1 < Row(n) - 1)
      BY <1>4, <2>2, <3>2, <3>3, <3>4
    <3>6. CASE Row(n) = i
      <4>1. Col(n) - 1 < j - 1
        BY <2>2, <2>3, <3>3, <3>4, <3>6
      <4>2. ~(j <= Col(n))
        BY <2>2, <3>2, <4>1, Lengths
      <4>3. Bits[a[i]][Col(n)] = Bits[b[i]][Col(n)]
        BY <2>1, <3>2, <4>2
      <4> QED BY <1>2, <3>1, <3>6, <4>3
    <3>7. CASE Row(n) # i
      <4>1. ~(i <= Row(n))
        BY <2>2, <3>2, <3>5, <3>7, Lengths
      <4>2. a[Row(n)] = b[Row(n)]
        BY <2>1, <3>2, <4>1
      <4> QED BY <1>2, <3>1, <4>2
    <3> QED BY <3>6, <3>7
  <2>5. ASSUME D < W PROVE BitsOf(a)[D + 1] # BitsOf(b)[D + 1]
    <3>1. D + 1 \in 1 .. W /\ D \in Nat /\ D + 1 - 1 = D
      BY <1>1, <2>5
    <3>2. D \div ByteBits = i - 1 /\ D % ByteBits = j - 1
      BY <2>2, <2>3, <3>1, Lengths, DivisionUnique
    <3>3. Row(D + 1) = i /\ Col(D + 1) = j
      BY <2>2, <3>1, <3>2 DEF Row, Col
    <3> QED BY <1>2, <2>1, <3>1, <3>3
  <2> QED BY <1>1, <2>4, <2>5 DEF D, IdBits
<1> QED BY <1>6, <1>7, DistancePlace DEF D, IdBits

-----------------------------------------------------------------------------
(***************************************************************************)
(* Distance and the xor metric                                             *)
(***************************************************************************)

(* The powers of two. *)
LEMMA Powers ==
  /\ Power[0] = 1 /\ \A i \in 0 .. IdBits : Power[i] \in Nat
  /\ \A i \in 1 .. IdBits : Power[i] = 2 * Power[i - 1]
<1> DEFINE step == [i \in Nat |-> [v \in Nat |-> 2 * v]]
           Is(f) == f = [i \in 0 .. IdBits |-> IF i = 0 THEN 1 ELSE 2 * f[i - 1]]
<1>1. IdBits \in Nat
  BY Lengths DEF IdBits
<1>2. PICK g : Runs(g, Nat, 1, step, IdBits)
  <2>1. step \in [Nat -> [Nat -> Nat]] /\ 1 \in Nat
    OBVIOUS
  <2> HIDE DEF step
  <2> QED BY <1>1, <2>1, Loop, Zenon
<1>3. Is(g)
  <2>1. \A i \in 0 .. IdBits : g[i] = IF i = 0 THEN 1 ELSE 2 * g[i - 1]
    <3> TAKE i \in 0 .. IdBits
    <3>1. CASE i # 0
      <4>1. i \in 1 .. IdBits /\ i \in Nat /\ g[i - 1] \in Nat
        BY <1>1, <1>2, <3>1 DEF Runs
      <4>2. g[i] = step[i][g[i - 1]]
        BY <1>2, <4>1 DEF Runs
      <4> QED BY <3>1, <4>1, <4>2
    <3> QED BY <1>2, <3>1 DEF Runs
  <2>2. g = [i \in 0 .. IdBits |-> g[i]]
    BY <1>2 DEF Runs
  <2> QED BY <2>1, <2>2
<1>4. Is(Power)
  BY <1>3 DEF Power
<1>5. Power[0] = 1 /\ \A i \in 1 .. IdBits : Power[i] = 2 * Power[i - 1]
  BY <1>1, <1>4
<1> DEFINE G == {i \in 0 .. IdBits : Power[i] \in Nat}
<1>6. \A i \in 0 .. IdBits : i \in G
  <2>1. 0 \in G
    BY <1>1, <1>5
  <2>2. \A i \in 1 .. IdBits : i - 1 \in G => i \in G
    BY <1>1, <1>5
  <2> HIDE DEF G
  <2> QED BY <1>1, <2>1, <2>2, Climb
<1> QED BY <1>5, <1>6

(* The xor of two ids, bit by bit. *)
LEMMA XorNumber ==
  ASSUME NEW a, NEW b
  PROVE  \E f : /\ Xor(a, b) = f[IdBits] /\ f[0] = 0
                /\ \A i \in 1 .. IdBits :
                     f[i] = 2 * f[i - 1] + (IF BitsOf(a)[i] = BitsOf(b)[i] THEN 0 ELSE 1)
<1> DEFINE bit(i) == IF BitsOf(a)[i] = BitsOf(b)[i] THEN 0 ELSE 1
           step == [i \in Nat |-> [v \in Nat |-> 2 * v + bit(i)]]
           Is(f) == f = [i \in 0 .. IdBits |-> IF i = 0 THEN 0 ELSE 2 * f[i - 1] + bit(i)]
           number == CHOOSE f : Is(f)
<1>1. IdBits \in Nat /\ \A i : bit(i) \in Nat
  BY Lengths DEF IdBits
<1>2. Xor(a, b) = number[IdBits]
  BY DEF Xor
<1> HIDE DEF bit
<1>3. PICK g : Runs(g, Nat, 0, step, IdBits)
  <2>1. step \in [Nat -> [Nat -> Nat]] /\ 0 \in Nat
    BY <1>1
  <2> HIDE DEF step
  <2> QED BY <1>1, <2>1, Loop, Zenon
<1>4. Is(g)
  <2>1. \A i \in 0 .. IdBits : g[i] = IF i = 0 THEN 0 ELSE 2 * g[i - 1] + bit(i)
    <3> TAKE i \in 0 .. IdBits
    <3>1. CASE i # 0
      <4>1. i \in 1 .. IdBits /\ i \in Nat /\ g[i - 1] \in Nat
        BY <1>1, <1>3, <3>1 DEF Runs
      <4>2. g[i] = step[i][g[i - 1]]
        BY <1>3, <4>1 DEF Runs
      <4> QED BY <3>1, <4>1, <4>2
    <3> QED BY <1>3, <3>1 DEF Runs
  <2>2. g = [i \in 0 .. IdBits |-> g[i]]
    BY <1>3 DEF Runs
  <2> QED BY <2>1, <2>2
<1>5. Is(number)
  BY <1>4
<1> HIDE DEF number
<1>6. number[0] = 0 /\ \A i \in 1 .. IdBits : number[i] = 2 * number[i - 1] + bit(i)
  BY <1>1, <1>5
<1> QED BY <1>2, <1>6 DEF bit

(***************************************************************************)
(* Distance orders ids by the xor metric, the other way round, for ids of  *)
(* any length: of the xor as a number it says between which two powers of  *)
(* two it lies.  Bits that agree keep the number at 0; the first that does *)
(* not makes it 1, and from there it doubles, with a bit added or not.     *)
(***************************************************************************)
THEOREM CodecXorPrefix == Spec => []DistanceIsXorPrefix
<1>1. ASSUME NEW a \in Id, NEW b \in Id
      PROVE  LET D == Distance(a, b)
             IN  /\ D \in 0 .. IdBits
                 /\ Xor(a, b) < Power[IdBits - D]
                 /\ D < IdBits => Xor(a, b) >= Power[IdBits - D - 1]
  <2> DEFINE D == Distance(a, b)
  <2>1. /\ D \in 0 .. IdBits
        /\ \A n \in 1 .. D : BitsOf(a)[n] = BitsOf(b)[n]
        /\ D < IdBits => BitsOf(a)[D + 1] # BitsOf(b)[D + 1]
    BY DistanceIsPrefix
  <2> HIDE DEF D
  <2>2. PICK f : /\ Xor(a, b) = f[IdBits] /\ f[0] = 0
                 /\ \A i \in 1 .. IdBits :
                      f[i] = 2 * f[i - 1] + (IF BitsOf(a)[i] = BitsOf(b)[i] THEN 0 ELSE 1)
    BY XorNumber
  <2>3. IdBits \in Nat /\ D \in Nat
    BY <2>1, Lengths DEF IdBits
  <2> DEFINE Right(i) == /\ f[i] \in Nat
                         /\ i <= D => f[i] = 0
                         /\ i > D => Power[i - D - 1] <= f[i] /\ f[i] < Power[i - D]
             G == {i \in 0 .. IdBits : Right(i)}
  <2>4. ASSUME NEW k \in 1 .. IdBits, k - 1 \in G PROVE k \in G
    <3>1. Right(k - 1)
      BY <2>4
    <3>2. /\ f[k - 1] \in Nat
          /\ f[k] = 2 * f[k - 1] + (IF BitsOf(a)[k] = BitsOf(b)[k] THEN 0 ELSE 1)
      BY <2>2, <3>1
    <3>3. CASE k <= D
      <4>1. BitsOf(a)[k] = BitsOf(b)[k] /\ k - 1 <= D
        BY <2>1, <2>3, <3>3
      <4>2. f[k] = 0
        BY <3>1, <3>2, <4>1
      <4> QED BY <2>3, <3>3, <4>2
    <3>4. CASE k = D + 1
      <4>1. BitsOf(a)[k] # BitsOf(b)[k] /\ k - 1 <= D
        BY <2>1, <2>3, <3>4
      <4>2. f[k] = 1
        BY <3>1, <3>2, <4>1
      <4>3. k - D - 1 = 0 /\ k - D = 1 /\ 1 \in 1 .. IdBits
        BY <2>3, <3>4
      <4>4. Power[0] = 1 /\ Power[1] = 2 * Power[1 - 1]
        BY <4>3, Powers
      <4>5. Power[k - D - 1] = 1 /\ Power[k - D] = 2
        BY <4>3, <4>4
      <4> QED BY <2>3, <3>4, <4>2, <4>5
    <3>5. CASE k > D + 1
      <4> DEFINE m == k - D
      <4>1. /\ m - 1 \in 1 .. IdBits /\ m \in 1 .. IdBits /\ m - 1 - 1 \in 0 .. IdBits
            /\ k - 1 > D /\ k - 1 - D = m - 1 /\ k - 1 - D - 1 = m - 1 - 1 /\ k - D - 1 = m - 1
        BY <2>3, <3>5
      <4>2. Power[m - 1 - 1] <= f[k - 1] /\ f[k - 1] < Power[m - 1]
        BY <3>1, <4>1
      <4>3. /\ Power[m - 1] = 2 * Power[m - 1 - 1] /\ Power[m] = 2 * Power[m - 1]
            /\ Power[m] \in Nat /\ Power[m - 1] \in Nat /\ Power[m - 1 - 1] \in Nat
        BY <4>1, Powers
      <4> HIDE DEF m
      <4>4. f[k] \in Nat /\ Power[m - 1] <= f[k] /\ f[k] < Power[m]
        BY <3>2, <4>2, <4>3
      <4>5. Right(k)
        BY <2>3, <3>5, <4>1, <4>4 DEF m
      <4> QED BY <4>5
    <3> QED BY <2>3, <3>3, <3>4, <3>5
  <2>5. Right(IdBits)
    <3>1. 0 \in G
      BY <2>2, <2>3
    <3> HIDE DEF G
    <3>2. IdBits \in G
      BY <2>3, <2>4, <3>1, Climb
    <3> QED BY <3>2 DEF G
  <2>6. CASE D = IdBits
    <3>1. f[IdBits] = 0 /\ IdBits - D = 0
      BY <2>3, <2>5, <2>6
    <3> QED BY <2>1, <2>2, <2>3, <2>6, <3>1, Powers DEF D
  <2>7. CASE D < IdBits
    <3>1. Power[IdBits - D - 1] <= f[IdBits] /\ f[IdBits] < Power[IdBits - D] /\ f[IdBits] \in Nat
      BY <2>3, <2>5, <2>7
    <3>2. IdBits - D - 1 \in 0 .. IdBits
      BY <2>3, <2>7
    <3>3. Power[IdBits - D - 1] \in Nat
      BY <3>2, Powers
    <3> QED BY <2>1, <2>2, <3>1, <3>3 DEF D
  <2> QED BY <2>1, <2>3, <2>6, <2>7
<1>2. Computed => DistanceIsXorPrefix
  <2> SUFFICES ASSUME Computed, call.fn = "Compare" PROVE DistanceIsXorPrefix
    BY DEF DistanceIsXorPrefix, Called
  <2>1. PICK a, b \in Id : Made("Compare", <<a, b>>, Distance(a, b))
    BY DEF Computed, Made, Idle
  <2>2. call.result = Distance(a, b) /\ Arg(1) = a /\ Arg(2) = b
    BY <2>1 DEF Made, Arg
  <2> QED BY <1>1, <2>2 DEF DistanceIsXorPrefix
<1> QED BY <1>2, CodecInvariant, PTL

-----------------------------------------------------------------------------
(***************************************************************************)
(* The size of a torrent                                                   *)
(***************************************************************************)

(* The running sums of the numbers of L, of those in S alone. *)
Adding(L, S) == [i \in Nat |-> [v \in Int |-> v + (IF i \in S THEN L[i] ELSE 0)]]
Sums(L, S, n) == CHOOSE g : Runs(g, Int, 0, Adding(L, S), n)

LEMMA SumsStep ==
  ASSUME NEW n \in Nat, NEW L \in [1 .. n -> Int], NEW S \in SUBSET (1 .. n)
  PROVE  /\ Sums(L, S, n) \in [0 .. n -> Int] /\ Sums(L, S, n)[0] = 0
         /\ \A i \in 1 .. n :
              Sums(L, S, n)[i] = Sums(L, S, n)[i - 1] + (IF i \in S THEN L[i] ELSE 0)
<1>1. Adding(L, S) \in [Nat -> [Int -> Int]] /\ 0 \in Int
  <2>1. ASSUME NEW i PROVE (IF i \in S THEN L[i] ELSE 0) \in Int
    <3>1. i \in S => L[i] \in Int
      OBVIOUS
    <3> QED BY <3>1
  <2> QED BY <2>1 DEF Adding
<1>2. \E g : Runs(g, Int, 0, Adding(L, S), n)
  BY <1>1, Loop, Zenon
<1>3. Runs(Sums(L, S, n), Int, 0, Adding(L, S), n)
  BY <1>2, Zenon DEF Sums
<1> DEFINE g == Sums(L, S, n)
<1> HIDE DEF g
<1>4. g \in [0 .. n -> Int] /\ g[0] = 0 /\ \A i \in 1 .. n : g[i] = Adding(L, S)[i][g[i - 1]]
  BY <1>3 DEF Runs, g
<1>5. ASSUME NEW i \in 1 .. n
      PROVE  g[i] = g[i - 1] + (IF i \in S THEN L[i] ELSE 0)
  <2>1. i \in Nat /\ i - 1 \in 0 .. n
    OBVIOUS
  <2>2. g[i - 1] \in Int
    BY <1>4, <2>1
  <2>3. Adding(L, S)[i][g[i - 1]] = g[i - 1] + (IF i \in S THEN L[i] ELSE 0)
    BY <2>1, <2>2 DEF Adding
  <2> QED BY <1>4, <2>3
<1> QED BY <1>4, <1>5 DEF g

(* Without numbers the sum is 0; a number more adds to it. *)
LEMMA SumsEmpty ==
  ASSUME NEW n \in Nat, NEW L \in [1 .. n -> Int]
  PROVE  Sums(L, {}, n)[n] = 0
<1> DEFINE g == Sums(L, {}, n)
           G == {i \in 0 .. n : g[i] = 0}
<1>1. g[0] = 0 /\ \A i \in 1 .. n : g[i] = g[i - 1] + 0
  BY SumsStep
<1> HIDE DEF g
<1>2. 0 \in G
  BY <1>1
<1>3. \A i \in 1 .. n : i - 1 \in G => i \in G
  BY <1>1
<1> HIDE DEF G
<1>4. \A i \in 0 .. n : i \in G
  BY <1>2, <1>3, Climb
<1>5. n \in 0 .. n
  OBVIOUS
<1> QED BY <1>4, <1>5 DEF G, g

LEMMA SumsRemove ==
  ASSUME NEW n \in Nat, NEW L \in [1 .. n -> Int], NEW S \in SUBSET (1 .. n), NEW x \in S
  PROVE  Sums(L, S, n)[n] = L[x] + Sums(L, S \ {x}, n)[n]
<1> DEFINE g == Sums(L, S, n)
           h == Sums(L, S \ {x}, n)
           G == {i \in 0 .. n : g[i] = h[i] + (IF x <= i THEN L[x] ELSE 0)}
<1>1. /\ g \in [0 .. n -> Int] /\ g[0] = 0
      /\ \A i \in 1 .. n : g[i] = g[i - 1] + (IF i \in S THEN L[i] ELSE 0)
  BY SumsStep
<1>2. /\ h \in [0 .. n -> Int] /\ h[0] = 0
      /\ \A i \in 1 .. n : h[i] = h[i - 1] + (IF i \in S \ {x} THEN L[i] ELSE 0)
  <2>1. S \ {x} \in SUBSET (1 .. n)
    OBVIOUS
  <2> QED BY <2>1, SumsStep
<1> HIDE DEF g, h
<1>3. x \in 1 .. n /\ L[x] \in Int
  OBVIOUS
<1>4. 0 \in G
  BY <1>1, <1>2, <1>3
<1>5. ASSUME NEW i \in 1 .. n, i - 1 \in G PROVE i \in G
  <2>1. /\ g[i - 1] = h[i - 1] + (IF x <= i - 1 THEN L[x] ELSE 0)
        /\ g[i - 1] \in Int /\ h[i - 1] \in Int
    BY <1>1, <1>2, <1>5
  <2>2. /\ g[i] = g[i - 1] + (IF i \in S THEN L[i] ELSE 0)
        /\ h[i] = h[i - 1] + (IF i \in S \ {x} THEN L[i] ELSE 0)
    BY <1>1, <1>2
  <2>3. L[i] \in Int
    OBVIOUS
  <2>4. CASE i = x
    <3>1. ~(x <= i - 1) /\ x <= i /\ i \in S /\ i \notin S \ {x}
      BY <1>3, <2>4
    <3>2. g[i] = h[i] + L[x]
      BY <2>1, <2>2, <2>3, <2>4, <3>1
    <3> QED BY <3>1, <3>2
  <2>5. CASE i # x
    <3>1. (x <= i - 1 <=> x <= i) /\ (i \in S <=> i \in S \ {x})
      BY <1>3, <2>5
    <3>2. CASE x <= i
      BY <1>3, <2>1, <2>2, <2>3, <3>1, <3>2
    <3>3. CASE ~(x <= i)
      BY <1>3, <2>1, <2>2, <2>3, <3>1, <3>3
    <3> QED BY <3>2, <3>3
  <2> QED BY <2>4, <2>5
<1> HIDE DEF G
<1>6. \A i \in 0 .. n : i \in G
  BY <1>4, <1>5, Climb
<1>7. n \in 0 .. n /\ g[n] \in Int /\ h[n] \in Int
  BY <1>1, <1>2
<1>8. g[n] = h[n] + L[x]
  BY <1>3, <1>6, <1>7 DEF G
<1>9. g[n] = L[x] + h[n]
  BY <1>3, <1>7, <1>8
<1> QED BY <1>9 DEF g, h

(* The loop over the files adds up what the set of them holds, whichever   *)
(* order a sum over a set takes.                                           *)
LEMMA TotalIsSum ==
  ASSUME NEW files, Len(files) \in Nat, DOMAIN files = 1 .. Len(files),
         \A i \in DOMAIN files : Get(files[i][2], "length") \in Int
  PROVE  TotalSize(files) = MapThenSumSet(LAMBDA i : Get(files[i][2], "length"), DOMAIN files)
<1> DEFINE n == Len(files)
           len(i) == Get(files[i][2], "length")
           L == [i \in 1 .. n |-> len(i)]
           Is(f) == f = [t \in SUBSET DOMAIN files |->
                           IF t = {} THEN 0
                           ELSE LET x == CHOOSE x \in t : TRUE IN len(x) + f[t \ {x}]]
           iter == CHOOSE f : Is(f)
           Size(f) == f = [i \in 0 .. n |-> IF i = 0 THEN 0 ELSE f[i - 1] + len(i)]
           size == CHOOSE f : Size(f)
<1>1. MapThenSumSet(LAMBDA i : Get(files[i][2], "length"), DOMAIN files) = iter[DOMAIN files]
  BY Zenon DEF MapThenSumSet, MapThenFoldSet
<1>2. TotalSize(files) = size[n]
  BY DEF TotalSize
<1>3. n \in Nat /\ DOMAIN files = 1 .. n /\ \A i \in 1 .. n : len(i) \in Int
  OBVIOUS
<1> HIDE DEF n, len
<1>4. L \in [1 .. n -> Int] /\ \A i \in 1 .. n : L[i] = len(i)
  BY <1>3
<1> HIDE DEF L
<1> DEFINE Total(t) == Sums(L, t, n)[n]
           Pick(t) == CHOOSE x \in t : TRUE
<1>5. \A t \in SUBSET (1 .. n) :
        Total(t) = IF t = {} THEN 0 ELSE len(Pick(t)) + Total(t \ {Pick(t)})
  <2> TAKE t \in SUBSET (1 .. n)
  <2>1. CASE t = {}
    BY <1>3, <1>4, <2>1, SumsEmpty
  <2>2. CASE t # {}
    <3>1. Pick(t) \in t
      BY <2>2
    <3> HIDE DEF Pick
    <3>2. Total(t) = L[Pick(t)] + Total(t \ {Pick(t)})
      BY <1>3, <1>4, <3>1, SumsRemove
    <3>3. L[Pick(t)] = len(Pick(t))
      BY <1>4, <3>1
    <3> QED BY <2>2, <3>2, <3>3
  <2> QED BY <2>1, <2>2
<1> HIDE DEF Total
<1>6. Is(iter)
  <2> DEFINE f == [t \in SUBSET (1 .. n) |-> Total(t)]
  <2>1. ASSUME NEW t \in SUBSET (1 .. n)
        PROVE  f[t] = IF t = {} THEN 0 ELSE len(Pick(t)) + f[t \ {Pick(t)}]
    <3>1. t \ {Pick(t)} \in SUBSET (1 .. n)
      OBVIOUS
    <3>2. f[t] = Total(t) /\ f[t \ {Pick(t)}] = Total(t \ {Pick(t)})
      BY <3>1
    <3> QED BY <1>5, <3>2
  <2>2. f = [t \in SUBSET (1 .. n) |-> f[t]]
    OBVIOUS
  <2> HIDE DEF f
  <2>3. Is(f)
    BY <1>3, <2>1, <2>2
  <2> HIDE DEF Is
  <2> QED BY <2>3
<1> HIDE DEF iter
<1>7. \A t \in SUBSET (1 .. n) : iter[t] = IF t = {} THEN 0 ELSE len(Pick(t)) + iter[t \ {Pick(t)}]
  BY <1>3, <1>6
<1> HIDE DEF Is
<1>8. \A t \in SUBSET (1 .. n) : IsFiniteSet(t) /\ Cardinality(t) \in 0 .. n
  <2>1. IsFiniteSet(1 .. n) /\ Cardinality(1 .. n) = n
    BY <1>3, FS_Interval
  <2> TAKE t \in SUBSET (1 .. n)
  <2>2. IsFiniteSet(t) /\ Cardinality(t) <= n
    BY <2>1, FS_Subset
  <2> QED BY <1>3, <2>2, FS_CardinalityType
<1> DEFINE G == {k \in 0 .. n : \A t \in SUBSET (1 .. n) : Cardinality(t) = k => iter[t] = Total(t)}
<1>9. \A k \in 0 .. n : k \in G
  <2>1. 0 \in G
    <3> SUFFICES ASSUME NEW t \in SUBSET (1 .. n), Cardinality(t) = 0 PROVE iter[t] = Total(t)
      BY <1>3
    <3>1. t = {}
      BY <1>8, FS_EmptySet
    <3> QED BY <1>5, <1>7, <3>1
  <2>2. ASSUME NEW k \in 1 .. n, k - 1 \in G PROVE k \in G
    <3> SUFFICES ASSUME NEW t \in SUBSET (1 .. n), Cardinality(t) = k PROVE iter[t] = Total(t)
      BY <1>3
    <3>1. t # {}
      BY <1>8, FS_EmptySet
    <3>2. Pick(t) \in t
      BY <3>1
    <3> HIDE DEF Pick
    <3>3. Cardinality(t \ {Pick(t)}) = k - 1
      BY <1>8, <3>2, FS_RemoveElement
    <3>4. t \ {Pick(t)} \in SUBSET (1 .. n)
      OBVIOUS
    <3>5. iter[t \ {Pick(t)}] = Total(t \ {Pick(t)})
      BY <2>2, <3>3, <3>4
    <3> QED BY <1>5, <1>7, <3>1, <3>5
  <2> HIDE DEF G
  <2> QED BY <1>3, <2>1, <2>2, Climb
<1>10. iter[1 .. n] = Total(1 .. n)
  BY <1>8, <1>9
<1> DEFINE g == Sums(L, 1 .. n, n)
<1>11. /\ g \in [0 .. n -> Int] /\ g[0] = 0
       /\ \A i \in 1 .. n : g[i] = g[i - 1] + L[i]
  BY <1>3, <1>4, SumsStep
<1>12. Total(1 .. n) = g[n]
  BY DEF Total
<1> HIDE DEF g
<1>13. Size(g)
  <2>1. \A i \in 0 .. n : g[i] = IF i = 0 THEN 0 ELSE g[i - 1] + len(i)
    <3> TAKE i \in 0 .. n
    <3>1. CASE i # 0
      <4>1. i \in 1 .. n
        BY <1>3, <3>1
      <4> QED BY <1>4, <1>11, <3>1, <4>1
    <3> QED BY <1>11, <3>1
  <2>2. g = [i \in 0 .. n |-> g[i]]
    BY <1>11
  <2> QED BY <2>1, <2>2
<1>14. Size(size)
  <2> HIDE DEF Size
  <2> QED BY <1>13
<1> HIDE DEF size
<1>15. size[0] = 0 /\ \A i \in 1 .. n : size[i] = size[i - 1] + len(i)
  BY <1>3, <1>14
<1> DEFINE H == {i \in 0 .. n : size[i] = g[i]}
<1>16. \A i \in 0 .. n : i \in H
  <2>1. 0 \in H
    BY <1>3, <1>11, <1>15
  <2>2. \A i \in 1 .. n : i - 1 \in H => i \in H
    BY <1>3, <1>4, <1>11, <1>15
  <2> HIDE DEF H
  <2> QED BY <1>3, <2>1, <2>2, Climb
<1>17. size[n] = g[n]
  BY <1>3, <1>16
<1> QED BY <1>1, <1>2, <1>3, <1>10, <1>12, <1>17

(***************************************************************************)
(* Metadata is loaded if and only if it has a name and files or a length,  *)
(* and its size is then the total of its files, for any number of them.    *)
(***************************************************************************)
THEOREM CodecMetadata == Spec => []MetadataLoads
<1>1. Computed => MetadataLoads
  <2> SUFFICES ASSUME Computed, call.fn = "Load" PROVE MetadataLoads
    BY DEF MetadataLoads, Called
  <2>1. PICK x \in Infos : Made("Load", <<x>>, TorrentFromMetadata(x))
    BY DEF Computed, Made, Idle
  <2>2. call.result = TorrentFromMetadata(Arg(1)) /\ Arg(1) \in Infos
    BY <2>1 DEF Made, Arg
  <2>3. TorrentFromMetadata(Arg(1)).status = "ok" <=> InfoConforms(Arg(1))
    BY MetadataAccepted
  <2> DEFINE files == Get(Arg(1), "files")
             total == MapThenSumSet(LAMBDA i : Get(files[i][2], "length"), DOMAIN files)
  <2>4. CASE InfoConforms(Arg(1)) /\ Has(Arg(1), "files", "list")
    <3>1. \A i \in DOMAIN files : ~FileFails(files[i])
      BY <2>4 DEF InfoConforms, FileConforms, FileFails, FilePanics, AllStrings
    <3>2. TorrentFromMetadata(Arg(1)) = FromFiles(files)
      BY <2>4 DEF TorrentFromMetadata, InfoConforms
    <3>3. FromFiles(files) = [status |-> "ok", files |-> Len(files), size |-> TotalSize(files)]
      BY <3>1 DEF FromFiles
    <3>4. TorrentFromMetadata(Arg(1)).size = TotalSize(files)
      BY <3>2, <3>3
    <3>5. /\ Len(files) \in Nat /\ DOMAIN files = 1 .. Len(files)
          /\ \A i \in DOMAIN files : Get(files[i][2], "length") \in Int
      BY <2>2, <2>4, <3>1, CodecAssumption DEF FilesTyped
    <3> HIDE DEF files
    <3>6. TotalSize(files) = total
      BY <3>5, TotalIsSum
    <3> HIDE DEF total
    <3>7. TorrentFromMetadata(Arg(1)).size = total
      BY <3>4, <3>6
    <3> QED BY <2>2, <2>3, <2>4, <3>7, Zenon DEF MetadataLoads, total, files
  <2>5. CASE InfoConforms(Arg(1)) /\ ~Has(Arg(1), "files", "list")
    <3>1. Has(Arg(1), "name", "string") /\ Has(Arg(1), "length", "int")
      BY <2>5 DEF InfoConforms
    <3>2. TorrentFromMetadata(Arg(1)) = [status |-> "ok", files |-> 0, size |-> Get(Arg(1), "length")]
      BY <2>5, <3>1 DEF TorrentFromMetadata
    <3>3. TorrentFromMetadata(Arg(1)).size = Get(Arg(1), "length")
      BY <3>2
    <3> QED BY <2>2, <2>3, <2>5, <3>3, Zenon DEF MetadataLoads
  <2>6. CASE ~InfoConforms(Arg(1))
    BY <2>2, <2>3, <2>6, Zenon DEF MetadataLoads
  <2> QED BY <2>4, <2>5, <2>6
<1> QED BY <1>1, CodecInvariant, PTL

-----------------------------------------------------------------------------
(***************************************************************************)
(* Addresses and lists of nodes on the wire                                *)
(***************************************************************************)

(* A concatenation, cut where it was joined. *)
LEMMA Cut ==
  ASSUME NEW S, NEW s \in Seq(S), NEW t \in Seq(S)
  PROVE  /\ s \o t \in Seq(S) /\ Len(s \o t) = Len(s) + Len(t)
         /\ SubSeq(s \o t, 1, Len(s)) = s
         /\ SubSeq(s \o t, Len(s) + 1, Len(s) + Len(t)) = t
<1>1. s \o t \in Seq(S) /\ Len(s \o t) = Len(s) + Len(t)
  OBVIOUS
<1>2. SubSeq(s \o t, 1, Len(s)) = s
  OBVIOUS
<1>3. SubSeq(s \o t, Len(s) + 1, Len(s) + Len(t)) = t
  OBVIOUS
<1> QED BY <1>1, <1>2, <1>3

(* A port and its two bytes. *)
LEMMA BytesOfPort ==
  ASSUME NEW p \in 0 .. MaxPort
  PROVE  /\ p \div ByteBase \in Byte /\ p % ByteBase \in Byte
         /\ ByteBase * (p \div ByteBase) + (p % ByteBase) = p
<1>1. \A B \in Nat \ {0} : \A x \in 0 .. B * B - 1 :
        x \div B \in 0 .. B - 1 /\ x % B \in 0 .. B - 1 /\ B * (x \div B) + (x % B) = x
  OBVIOUS
<1>2. ByteBase \in Nat \ {0} /\ Byte = 0 .. ByteBase - 1 /\ MaxPort = ByteBase * ByteBase - 1
  BY Lengths DEF ByteBase, Byte, MaxPort
<1> QED BY <1>1, <1>2

(* Decoding the bytes of an IP and of a port. *)
LEMMA DecodeJoined ==
  ASSUME NEW ip \in Seq(Byte), Len(ip) \in {IPv4len, IPv6len}, NEW p \in 0 .. MaxPort
  PROVE  DecodeCompactNodeAddr(ip \o <<p \div ByteBase, p % ByteBase>>)
           = [host |-> To4(ip), port |-> p]
<1> DEFINE x == p \div ByteBase
           y == p % ByteBase
           pb == <<x, y>>
           c == ip \o pb
<1>1. x \in Byte /\ y \in Byte /\ ByteBase * x + y = p
  BY BytesOfPort
<1> HIDE DEF x, y
<1>2. pb \in Seq(Byte) /\ Len(pb) = 2 /\ pb[1] = x /\ pb[2] = y
  BY <1>1
<1> HIDE DEF pb
<1>3. /\ Len(c) = Len(ip) + 2 /\ SubSeq(c, 1, Len(ip)) = ip
      /\ SubSeq(c, Len(ip) + 1, Len(ip) + 2) = pb
  <2>1. /\ Len(ip \o pb) = Len(ip) + Len(pb) /\ SubSeq(ip \o pb, 1, Len(ip)) = ip
        /\ SubSeq(ip \o pb, Len(ip) + 1, Len(ip) + Len(pb)) = pb
    <3>1. ip \in Seq(Byte) /\ pb \in Seq(Byte)
      BY <1>2
    <3> QED BY <3>1, Cut
  <2> QED BY <1>2, <2>1, Zenon
<1>4. Len(ip) \in Nat
  OBVIOUS
<1> HIDE DEF c
<1>5. Len(c) - 2 = Len(ip)
  BY <1>3, <1>4
<1>6. PortOf(pb) = p
  BY <1>1, <1>2 DEF PortOf
<1>7. DecodeCompactNodeAddr(c) = [host |-> To4(ip), port |-> p]
  BY <1>3, <1>5, <1>6 DEF DecodeCompactNodeAddr
<1> QED BY <1>7 DEF c, pb, x, y

(* How To4 leaves the length. *)
LEMMA To4Length ==
  ASSUME NEW ip \in Seq(Byte), Len(ip) \in {IPv4len, IPv6len}
  PROVE  /\ Len(To4(ip)) \in {IPv4len, IPv6len}
         /\ Len(To4(ip)) = Len(ip) <=> ~Mapped(ip)
<1>1. Len(V4Prefix) \in Nat /\ IPv4len \in Nat /\ IPv6len = Len(V4Prefix) + IPv4len
      /\ Len(V4Prefix) > 0
  BY KrpcAssumption
<1>2. CASE Mapped(ip)
  <2>1. To4(ip) = SubSeq(ip, Len(V4Prefix) + 1, IPv6len) /\ Len(ip) = IPv6len
    BY <1>2 DEF To4, Mapped
  <2>2. Len(To4(ip)) = IPv4len
    BY <1>1, <2>1
  <2> QED BY <1>1, <1>2, <2>1, <2>2
<1>3. CASE ~Mapped(ip)
  BY <1>3 DEF To4
<1> QED BY <1>2, <1>3

(***************************************************************************)
(* What EncodeCompactNodeAddr encodes is decoded to the same address, with *)
(* an IPv4 address for one in IPv6 clothes, if its port is one.            *)
(***************************************************************************)
LEMMA EncodeThenDecode ==
  ASSUME NEW a \in [host : Seq(Byte), port : Int], Len(a.host) \in {0, IPv4len, IPv6len},
         EncodeCompactNodeAddr(a) # << >>, a.port \in 0 .. MaxPort
  PROVE  DecodeCompactNodeAddr(EncodeCompactNodeAddr(a)) = [a EXCEPT !.host = To4(@)]
<1>1. a.host \in Seq(Byte) /\ a.host # << >>
  BY DEF EncodeCompactNodeAddr
<1>2. Len(a.host) \in {IPv4len, IPv6len}
  BY <1>1
<1>3. MaxPort \in Int
  BY Lengths DEF MaxPort, ByteBase
<1>4. ParsePort(a.port) = a.port
  BY <1>3 DEF ParsePort
<1>5. EncodeCompactNodeAddr(a) = To4(a.host) \o <<a.port \div ByteBase, a.port % ByteBase>>
  BY <1>1, <1>4 DEF EncodeCompactNodeAddr
<1>6. /\ To4(a.host) \in Seq(Byte) /\ Len(To4(a.host)) \in {IPv4len, IPv6len}
      /\ To4(To4(a.host)) = To4(a.host)
  BY <1>1, <1>2, To4Once, To4Length
<1>7. DecodeCompactNodeAddr(EncodeCompactNodeAddr(a)) = [host |-> To4(a.host), port |-> a.port]
  BY <1>5, <1>6, DecodeJoined
<1>8. [a EXCEPT !.host = To4(@)] = [host |-> To4(a.host), port |-> a.port]
  OBVIOUS
<1> QED BY <1>7, <1>8

(* Rows of width w: where they end, and that a place lies in its row. *)
LEMMA RowEnds ==
  ASSUME NEW w \in Nat, NEW k \in Nat
  PROVE  w * (k + 1) = w * k + w /\ w * k \in Nat
OBVIOUS

LEMMA RowBefore ==
  ASSUME NEW w \in Nat, NEW i \in Nat, NEW k \in Nat, i < k, NEW j \in 1 .. w
  PROVE  w * i + j \in 1 .. w * k
<1>1. PICK e \in Nat : k = i + 1 + e
  <2>1. k - (i + 1) \in Nat /\ k = i + 1 + (k - (i + 1))
    OBVIOUS
  <2> QED BY <2>1
<1>2. w * k = w * i + w + w * e /\ w * e \in Nat /\ w * i \in Nat
  BY <1>1
<1> DEFINE x == w * i
           y == w * e
           z == w * k
<1>3. z = x + w + y /\ y \in Nat /\ x \in Nat
  BY <1>2
<1> HIDE DEF x, y, z
<1>4. x + j \in 1 .. z
  BY <1>3
<1> QED BY <1>4 DEF x, z

(* Sequences of the same length, joined, and the i-th of them. *)
SameLength(seqs, w) == \A i \in 1 .. Len(seqs) : Len(seqs[i]) = w
Rows(s, seqs, S, w) ==
  /\ s \in Seq(S) /\ Len(s) = w * Len(seqs)
  /\ \A i \in 1 .. Len(seqs), j \in 1 .. w : s[w * (i - 1) + j] = seqs[i][j]

LEMMA Flattened ==
  ASSUME NEW S, NEW w \in Nat, NEW seqs \in Seq(Seq(S)), SameLength(seqs, w)
  PROVE  Rows(FlattenSeq(seqs), seqs, S, w)
<1> DEFINE m == Len(seqs)
           Is(f) == f = [i \in 1 .. m |-> IF i = 1 THEN seqs[i] ELSE f[i - 1] \o seqs[i]]
           flatten == CHOOSE f : Is(f)
<1>1. m \in Nat /\ \A i \in 1 .. m : seqs[i] \in Seq(S) /\ Len(seqs[i]) = w
  BY DEF SameLength
<1> HIDE DEF m
<1>2. CASE m = 0
  <2>1. FlattenSeq(seqs) = seqs /\ seqs = << >>
    BY <1>2 DEF FlattenSeq, m
  <2>2. w * m = 0
    BY <1>2
  <2> QED BY <1>2, <2>1, <2>2 DEF m, Rows
<1>3. CASE m # 0
  <2>1. FlattenSeq(seqs) = flatten[m]
    BY <1>3 DEF FlattenSeq, m
  <2> DEFINE step == [i \in Nat |-> [v \in Seq(S) |-> IF i \in 1 .. m THEN v \o seqs[i] ELSE v]]
  <2>2. PICK g : Runs(g, Seq(S), << >>, step, m)
    <3>1. step \in [Nat -> [Seq(S) -> Seq(S)]] /\ << >> \in Seq(S)
      <4>1. ASSUME NEW i \in Nat, NEW v \in Seq(S)
            PROVE  (IF i \in 1 .. m THEN v \o seqs[i] ELSE v) \in Seq(S)
        BY <1>1
      <4> QED BY <4>1
    <3> HIDE DEF step
    <3> QED BY <1>1, <3>1, Loop, Zenon
  <2>3. g \in [0 .. m -> Seq(S)] /\ g[0] = << >>
    BY <2>2 DEF Runs
  <2>4. ASSUME NEW i \in 1 .. m PROVE g[i] = g[i - 1] \o seqs[i]
    <3>1. i \in Nat /\ i - 1 \in 0 .. m
      BY <1>1
    <3>2. g[i - 1] \in Seq(S)
      BY <2>3, <3>1
    <3>3. g[i] = step[i][g[i - 1]]
      BY <2>2 DEF Runs
    <3> QED BY <3>1, <3>2, <3>3
  <2> DEFINE h == [i \in 1 .. m |-> g[i]]
  <2>5. Is(h)
    <3>1. ASSUME NEW i \in 1 .. m PROVE h[i] = IF i = 1 THEN seqs[i] ELSE h[i - 1] \o seqs[i]
      <4>1. CASE i = 1
        <5>1. h[i] = g[i] /\ g[i] = g[i - 1] \o seqs[i]
          BY <2>4
        <5>2. g[i - 1] = << >> /\ seqs[i] \in Seq(S)
          BY <1>1, <2>3, <4>1
        <5> QED BY <4>1, <5>1, <5>2
      <4>2. CASE i # 1
        <5>1. i - 1 \in 1 .. m
          BY <1>1, <4>2
        <5>2. h[i] = g[i] /\ h[i - 1] = g[i - 1]
          BY <5>1
        <5> QED BY <2>4, <4>2, <5>2
      <4> QED BY <4>1, <4>2
    <3>2. h = [i \in 1 .. m |-> h[i]]
      OBVIOUS
    <3> HIDE DEF h
    <3> QED BY <3>1, <3>2
  <2>6. Is(flatten)
    <3> HIDE DEF Is
    <3> QED BY <2>5
  <2> HIDE DEF flatten
  <2>7. \A i \in 1 .. m : flatten[i] = IF i = 1 THEN seqs[i] ELSE flatten[i - 1] \o seqs[i]
    BY <2>6
  <2> DEFINE Joined(k) == /\ flatten[k] \in Seq(S) /\ Len(flatten[k]) = w * k
                          /\ \A i \in 1 .. k, j \in 1 .. w : flatten[k][w * (i - 1) + j] = seqs[i][j]
             G == {k \in 0 .. m : k = 0 \/ Joined(k)}
  <2>8. ASSUME NEW k \in 1 .. m, k - 1 \in G PROVE k \in G
    <3>1. seqs[k] \in Seq(S) /\ Len(seqs[k]) = w /\ k \in Nat /\ k - 1 \in Nat
      BY <1>1
    <3>2. CASE k = 1
      <4>1. flatten[k] = seqs[k] /\ w * 1 = w /\ w * (1 - 1) = 0
        BY <2>7, <3>2
      <4>2. Joined(k)
        BY <3>1, <3>2, <4>1
      <4> QED BY <1>1, <4>2
    <3>3. CASE k # 1
      <4>1. Joined(k - 1) /\ flatten[k] = flatten[k - 1] \o seqs[k]
        <5>1. k - 1 # 0
          BY <3>1, <3>3
        <5>2. Joined(k - 1)
          <6> HIDE DEF Joined
          <6> QED BY <2>8, <5>1
        <5> QED BY <2>7, <3>3, <5>2
      <4> DEFINE p == flatten[k - 1]
                 q == seqs[k]
                 l == w * (k - 1)
      <4>2. p \in Seq(S) /\ Len(p) = l /\ q \in Seq(S) /\ Len(q) = w
        BY <3>1, <4>1
      <4>3. l \in Nat /\ w * k = l + w
        <5>1. k - 1 + 1 = k
          BY <3>1
        <5> QED BY <3>1, <5>1, RowEnds
      <4>4. flatten[k] = p \o q
        BY <4>1
      <4> DEFINE r == flatten[k]
      <4> HIDE DEF p, q, l, r
      <4>5. r \in Seq(S) /\ Len(r) = l + w
        <5>1. p \o q \in Seq(S) /\ Len(p \o q) = Len(p) + Len(q)
          <6>1. p \in Seq(S) /\ q \in Seq(S)
            BY <4>2
          <6> QED BY <6>1
        <5> QED BY <4>2, <4>4, <5>1 DEF r
      <4>6. \A j \in 1 .. l : r[j] = p[j]
        BY <4>2, <4>3, <4>4 DEF r
      <4>7. \A j \in 1 .. w : r[l + j] = q[j]
        BY <4>2, <4>3, <4>4 DEF r
      <4>8. ASSUME NEW i \in 1 .. k, NEW j \in 1 .. w PROVE r[w * (i - 1) + j] = seqs[i][j]
        <5>1. CASE i = k
          BY <4>7, <5>1 DEF l, q
        <5>2. CASE i # k
          <6>1. i - 1 \in Nat /\ i - 1 < k - 1 /\ i \in 1 .. k - 1
            BY <3>1, <5>2
          <6>2. w * (i - 1) + j \in 1 .. l
            BY <3>1, <6>1, RowBefore DEF l
          <6>3. p[w * (i - 1) + j] = seqs[i][j]
            BY <4>1, <6>1 DEF p
          <6> QED BY <4>6, <6>2, <6>3
        <5> QED BY <5>1, <5>2
      <4>9. Joined(k)
        BY <4>3, <4>5, <4>8 DEF r
      <4> HIDE DEF Joined
      <4> QED BY <3>1, <4>9
    <3> QED BY <3>2, <3>3
  <2>9. m \in G
    <3>1. 0 \in G
      BY <1>1
    <3> HIDE DEF G
    <3>2. \A k \in 0 .. m : k \in G
      BY <1>1, <2>8, <3>1, Climb
    <3> QED BY <1>1, <3>2
  <2>10. Joined(m)
    BY <1>3, <2>9
  <2> QED BY <2>1, <2>10 DEF m, Rows
<1> QED BY <1>2, <1>3

-----------------------------------------------------------------------------
(* Nodes as other nodes list them. *)
Contact == [id : Id, addr : [host : Seq(Byte), port : 0 .. MaxPort]]
Kept(rn) == rn.addr.port # 0 /\ ~Mapped(rn.addr.host)

(* The length of a listed node. *)
LEMMA NodeLengths ==
  ASSUME NEW n \in [id : Id, family : {"udp4", "udp6"}]
  PROVE  /\ AddrLen(n) - 2 \in {IPv4len, IPv6len} /\ AddrLen(n) \in Nat
         /\ NodeLength(n) = InfohashLength + AddrLen(n)
         /\ NodeLength(n) \in Nat /\ NodeLength(n) > 1
<1>1. IPv4len \in Nat /\ IPv6len \in Nat
  BY KrpcAssumption
<1>2. AddrLen(n) - 2 \in {IPv4len, IPv6len} /\ AddrLen(n) \in Nat /\ AddrLen(n) >= 2
  BY <1>1 DEF AddrLen
<1> QED BY <1>2, Lengths DEF NodeLength

(* A node of our family in compact form, and what the loop reads of it. *)
LEMMA CompactNode ==
  ASSUME NEW n \in [id : Id, family : {"udp4", "udp6"}], NEW rn \in Contact, Resolves(n, rn.addr)
  PROVE  LET c    == Compact(rn)
             addr == DecodeCompactNodeAddr(SubSeq(c, InfohashLength + 1, NodeLength(n)))
         IN  /\ c \in Seq(Byte) /\ Len(c) = NodeLength(n)
             /\ SubSeq(c, 1, InfohashLength) = rn.id
             /\ Resolves(n, addr) /\ addr.port # 0 <=> Kept(rn)
             /\ Kept(rn) => addr = rn.addr
<1> DEFINE ip == rn.addr.host
           p == rn.addr.port
           pb == <<p \div ByteBase, p % ByteBase>>
           t == ip \o pb
           c == Compact(rn)
<1>1. rn.id \in Seq(Byte) /\ Len(rn.id) = InfohashLength
  BY Lengths, IsSequence DEF Contact, Id
<1>2. ip \in Seq(Byte) /\ p \in 0 .. MaxPort /\ rn.addr = [host |-> ip, port |-> p]
  BY DEF Contact
<1>3. Len(ip) = AddrLen(n) - 2 /\ Len(ip) \in {IPv4len, IPv6len}
  BY NodeLengths DEF Resolves
<1>4. pb \in Seq(Byte) /\ Len(pb) = 2
  <2>1. p \div ByteBase \in Byte /\ p % ByteBase \in Byte
    BY <1>2, BytesOfPort
  <2> QED BY <2>1
<1>5. c = rn.id \o ip \o pb
  BY DEF Compact
<1>6. DecodeCompactNodeAddr(t) = [host |-> To4(ip), port |-> p]
  BY <1>2, <1>3, DecodeJoined
<1> HIDE DEF ip, p, pb, c
<1> DEFINE id == rn.id
<1> HIDE DEF id
<1>7. id \in Seq(Byte) /\ Len(id) = InfohashLength /\ c = id \o t
  <2>1. id \in Seq(Byte) /\ Len(id) = InfohashLength /\ c = id \o ip \o pb
    BY <1>1, <1>5 DEF id
  <2>2. (id \o ip) \o pb = id \o (ip \o pb)
    BY <1>2, <1>4, <2>1
  <2> QED BY <2>1, <2>2
<1>8. t \in Seq(Byte) /\ Len(t) = Len(ip) + Len(pb)
  BY <1>2, <1>4, Cut
<1> HIDE DEF t
<1>9. /\ c \in Seq(Byte) /\ Len(c) = Len(id) + Len(t)
      /\ SubSeq(c, 1, Len(id)) = id
      /\ SubSeq(c, Len(id) + 1, Len(id) + Len(t)) = t
  <2>1. /\ id \o t \in Seq(Byte) /\ Len(id \o t) = Len(id) + Len(t)
        /\ SubSeq(id \o t, 1, Len(id)) = id
        /\ SubSeq(id \o t, Len(id) + 1, Len(id) + Len(t)) = t
    <3>1. id \in Seq(Byte) /\ t \in Seq(Byte)
      BY <1>7, <1>8
    <3> QED BY <3>1, Cut
  <2> QED BY <1>7, <2>1, Zenon
<1>10. Len(id) + Len(t) = NodeLength(n)
  BY <1>3, <1>4, <1>7, <1>8, NodeLengths, Lengths
<1>11. SubSeq(c, InfohashLength + 1, NodeLength(n)) = t
  BY <1>7, <1>9, <1>10
<1>12. Len(To4(ip)) = AddrLen(n) - 2 <=> ~Mapped(ip)
  BY <1>2, <1>3, To4Length
<1> DEFINE addr == [host |-> To4(ip), port |-> p]
<1>13. addr.host = To4(ip) /\ addr.port = p
  OBVIOUS
<1> HIDE DEF addr
<1>14. Kept(rn) <=> p # 0 /\ ~Mapped(ip)
  BY DEF Kept, p, ip
<1>15. Resolves(n, addr) /\ addr.port # 0 <=> Kept(rn)
  BY <1>12, <1>13, <1>14 DEF Resolves
<1>16. Kept(rn) => addr = rn.addr
  BY <1>2, <1>14 DEF To4, addr
<1>17. addr = DecodeCompactNodeAddr(SubSeq(c, InfohashLength + 1, NodeLength(n)))
  BY <1>6, <1>11 DEF addr
<1> QED BY <1>7, <1>9, <1>10, <1>15, <1>16, <1>17 DEF c, id

(* The list of nodes, and each of them as the loop finds it. *)
LEMMA WireNodes ==
  ASSUME NEW n \in [id : Id, family : {"udp4", "udp6"}], NEW nodes \in Seq(Contact),
         \A i \in DOMAIN nodes : Resolves(n, nodes[i].addr)
  PROVE  LET list == OnTheWire(nodes)
         IN  /\ list \in Seq(Byte) /\ Len(list) = NodeLength(n) * Len(nodes)
             /\ \A i \in 1 .. Len(nodes) :
                  LET rn == NodeAt(n, list, i - 1)
                  IN  /\ Resolves(n, rn.addr) /\ rn.addr.port # 0 <=> Kept(nodes[i])
                      /\ Kept(nodes[i]) => rn = nodes[i]
<1> DEFINE w == NodeLength(n)
           m == Len(nodes)
           seqs == [i \in DOMAIN nodes |-> Compact(nodes[i])]
           list == OnTheWire(nodes)
<1>1. m \in Nat /\ DOMAIN nodes = 1 .. m /\ \A i \in 1 .. m : nodes[i] \in Contact
  OBVIOUS
<1>2. w \in Nat /\ w > 1
  BY NodeLengths
<1>3. \A i \in 1 .. m : Compact(nodes[i]) \in Seq(Byte) /\ Len(Compact(nodes[i])) = w
  BY <1>1, CompactNode
<1>4. seqs \in Seq(Seq(Byte)) /\ Len(seqs) = m /\ \A i \in 1 .. m : seqs[i] = Compact(nodes[i])
  <2>1. seqs \in [1 .. m -> Seq(Byte)]
    BY <1>1, <1>3
  <2>2. \A i \in 1 .. m : seqs[i] = Compact(nodes[i])
    BY <1>1
  <2> HIDE DEF seqs, m
  <2> QED BY <1>1, <2>1, <2>2, IsSequence
<1>5. list = FlattenSeq(seqs)
  BY DEF OnTheWire
<1> HIDE DEF w, m, seqs, list
<1>6. /\ list \in Seq(Byte) /\ Len(list) = w * m
      /\ \A i \in 1 .. m, j \in 1 .. w : list[w * (i - 1) + j] = seqs[i][j]
  <2>1. SameLength(seqs, w)
    BY <1>3, <1>4 DEF SameLength
  <2>2. Rows(list, seqs, Byte, w)
    BY <1>2, <1>4, <1>5, <2>1, Flattened
  <2> QED BY <1>4, <2>2 DEF Rows
<1>7. ASSUME NEW i \in 1 .. m
      PROVE  SubSeq(list, (i - 1) * w + 1, (i - 1 + 1) * w) = Compact(nodes[i])
  <2> DEFINE l == w * (i - 1)
             c == Compact(nodes[i])
  <2>1. i \in Nat /\ i - 1 \in Nat /\ i - 1 + 1 = i
    BY <1>1
  <2>2. l \in Nat /\ (i - 1) * w = l /\ (i - 1 + 1) * w = l + w
    <3>1. w * (i - 1 + 1) = w * (i - 1) + w /\ w * (i - 1) \in Nat
      BY <1>2, <2>1, RowEnds
    <3>2. \A x \in Nat : x * w = w * x
      BY <1>2
    <3> QED BY <2>1, <3>1, <3>2
  <2>3. l + w <= Len(list)
    <3>1. w \in 1 .. w
      BY <1>2
    <3>2. w * (i - 1) + w \in 1 .. w * i
      BY <1>2, <2>1, <3>1, RowBefore
    <3>3. CASE i = m
      <4>1. w * m = l + w
        BY <1>2, <2>1, <3>3, RowEnds
      <4> QED BY <1>6, <2>2, <4>1, <1>2
    <3>4. CASE i # m
      <4>1. i < m
        BY <1>1, <3>4
      <4>2. w * (i - 1) + w \in 1 .. w * m
        <5>1. i - 1 < m
          BY <1>1, <2>1, <4>1
        <5> QED BY <1>1, <1>2, <2>1, <3>1, <5>1, RowBefore
      <4> QED BY <1>6, <2>2, <4>2
    <3> QED BY <3>3, <3>4
  <2>4. c \in Seq(Byte) /\ Len(c) = w /\ \A j \in 1 .. w : list[l + j] = c[j]
    BY <1>3, <1>4, <1>6
  <2> HIDE DEF l, c
  <2>5. SubSeq(list, l + 1, l + w) = c
    BY <1>2, <1>6, <2>2, <2>3, <2>4
  <2> QED BY <2>2, <2>5 DEF c
<1>8. ASSUME NEW i \in 1 .. m
      PROVE  LET rn == NodeAt(n, list, i - 1)
             IN  /\ Resolves(n, rn.addr) /\ rn.addr.port # 0 <=> Kept(nodes[i])
                 /\ Kept(nodes[i]) => rn = nodes[i]
  <2> DEFINE c == Compact(nodes[i])
             addr == DecodeCompactNodeAddr(SubSeq(c, InfohashLength + 1, NodeLength(n)))
  <2>1. /\ SubSeq(c, 1, InfohashLength) = nodes[i].id
        /\ Resolves(n, addr) /\ addr.port # 0 <=> Kept(nodes[i])
        /\ Kept(nodes[i]) => addr = nodes[i].addr
    BY <1>1, CompactNode
  <2>2. NodeAt(n, list, i - 1) = [id |-> SubSeq(c, 1, InfohashLength), addr |-> addr]
    BY <1>7 DEF NodeAt, w
  <2>3. nodes[i] = [id |-> nodes[i].id, addr |-> nodes[i].addr]
    <3>1. nodes[i] \in Contact
      BY <1>1
    <3> QED BY <3>1 DEF Contact
  <2> HIDE DEF addr, c
  <2>4. NodeAt(n, list, i - 1).addr = addr
    BY <2>2
  <2> QED BY <2>1, <2>2, <2>3, <2>4
<1> QED BY <1>6, <1>8 DEF w, m, list

(* What the loop has kept after k nodes: those of the list, in its order. *)
Places(at, part, n, nodes, k) ==
  /\ at \in [1 .. n -> 1 .. k]
  /\ \A i, j \in 1 .. n : i < j => at[i] < at[j]
  /\ \A i \in 1 .. n : part[i] = nodes[at[i]]
  /\ {at[i] : i \in 1 .. n} = {l \in 1 .. k : Kept(nodes[l])}
Ordered(part, nodes, k) == \E at : Places(at, part, Len(part), nodes, k)

LEMMA OrderedSkip ==
  ASSUME NEW S, NEW part \in Seq(S), NEW nodes, NEW k \in Nat,
         Ordered(part, nodes, k), ~Kept(nodes[k + 1])
  PROVE  Ordered(part, nodes, k + 1)
<1> DEFINE n == Len(part)
<1>0. PICK at : Places(at, part, n, nodes, k)
  BY DEF Ordered
<1>1. /\ at \in [1 .. n -> 1 .. k]
      /\ \A i, j \in 1 .. n : i < j => at[i] < at[j]
      /\ \A i \in 1 .. n : part[i] = nodes[at[i]]
      /\ {at[i] : i \in 1 .. n} = {l \in 1 .. k : Kept(nodes[l])}
  BY <1>0 DEF Places
<1> HIDE DEF n
<1>2. at \in [1 .. n -> 1 .. k + 1]
  BY <1>1
<1>3. {l \in 1 .. k + 1 : Kept(nodes[l])} = {l \in 1 .. k : Kept(nodes[l])}
  <2>1. \A l \in 1 .. k + 1 : l \in 1 .. k \/ l = k + 1
    OBVIOUS
  <2>2. \A l \in 1 .. k : l \in 1 .. k + 1
    OBVIOUS
  <2> QED BY <2>1, <2>2
<1>4. {at[i] : i \in 1 .. n} = {l \in 1 .. k + 1 : Kept(nodes[l])}
  BY <1>1, <1>3
<1>5. Places(at, part, n, nodes, k + 1)
  BY <1>1, <1>2, <1>4 DEF Places
<1> QED BY <1>5 DEF Ordered, n

LEMMA OrderedTake ==
  ASSUME NEW S, NEW part \in Seq(S), NEW nodes, NEW k \in Nat, nodes[k + 1] \in S,
         Ordered(part, nodes, k), Kept(nodes[k + 1])
  PROVE  Ordered(Append(part, nodes[k + 1]), nodes, k + 1)
<1> DEFINE n == Len(part)
           new == Append(part, nodes[k + 1])
<1>0. PICK at : Places(at, part, n, nodes, k)
  BY DEF Ordered
<1>1. /\ at \in [1 .. n -> 1 .. k]
      /\ \A i, j \in 1 .. n : i < j => at[i] < at[j]
      /\ \A i \in 1 .. n : part[i] = nodes[at[i]]
      /\ {at[i] : i \in 1 .. n} = {l \in 1 .. k : Kept(nodes[l])}
  BY <1>0 DEF Places
<1>2. n \in Nat /\ Len(new) = n + 1 /\ new[n + 1] = nodes[k + 1] /\ \A i \in 1 .. n : new[i] = part[i]
  OBVIOUS
<1> HIDE DEF n, new
<1> DEFINE to == [i \in 1 .. n + 1 |-> IF i = n + 1 THEN k + 1 ELSE at[i]]
<1>3. \A i \in 1 .. n + 1 : i \in 1 .. n \/ i = n + 1
  BY <1>2
<1>4. \A i \in 1 .. n : i \in 1 .. n + 1 /\ i # n + 1
  BY <1>2
<1>5. n + 1 \in 1 .. n + 1 /\ to[n + 1] = k + 1 /\ \A i \in 1 .. n : to[i] = at[i]
  BY <1>2, <1>4
<1>6. to \in [1 .. n + 1 -> 1 .. k + 1]
  BY <1>1, <1>2, <1>3
<1> HIDE DEF to
<1>7. ASSUME NEW i \in 1 .. n + 1, NEW j \in 1 .. n + 1, i < j PROVE to[i] < to[j]
  <2>1. i \in 1 .. n
    BY <1>2, <1>7
  <2>2. CASE j \in 1 .. n
    BY <1>1, <1>5, <1>7, <2>1, <2>2
  <2>3. CASE j = n + 1
    <3>1. at[i] \in 1 .. k
      BY <1>1, <2>1
    <3> QED BY <1>5, <2>1, <2>3, <3>1
  <2> QED BY <1>3, <2>2, <2>3
<1>8. ASSUME NEW i \in 1 .. n + 1 PROVE new[i] = nodes[to[i]]
  <2>1. CASE i = n + 1
    BY <1>2, <1>5, <2>1
  <2>2. CASE i \in 1 .. n
    BY <1>1, <1>2, <1>5, <2>2
  <2> QED BY <1>3, <2>1, <2>2
<1>9. {to[i] : i \in 1 .. n + 1} = {l \in 1 .. k + 1 : Kept(nodes[l])}
  <2>1. ASSUME NEW i \in 1 .. n + 1 PROVE to[i] \in 1 .. k + 1 /\ Kept(nodes[to[i]])
    <3>1. CASE i = n + 1
      BY <1>5, <1>6, <3>1
    <3>2. CASE i \in 1 .. n
      <4>1. at[i] \in {l \in 1 .. k : Kept(nodes[l])}
        BY <1>1, <3>2
      <4> QED BY <1>5, <1>6, <3>2, <4>1
    <3> QED BY <1>3, <3>1, <3>2
  <2>2. ASSUME NEW l \in 1 .. k + 1, Kept(nodes[l]) PROVE \E i \in 1 .. n + 1 : to[i] = l
    <3>1. CASE l = k + 1
      BY <1>5, <3>1
    <3>2. CASE l # k + 1
      <4>1. l \in 1 .. k
        BY <3>2
      <4>2. PICK i \in 1 .. n : at[i] = l
        BY <1>1, <2>2, <4>1
      <4> QED BY <1>4, <1>5, <4>2
    <3> QED BY <3>1, <3>2
  <2> QED BY <2>1, <2>2
<1>10. Places(to, new, n + 1, nodes, k + 1)
  BY <1>6, <1>7, <1>8, <1>9 DEF Places
<1> QED BY <1>2, <1>10 DEF Ordered, new

(* The loop of processFindNodeResults over such a list. *)
LEMMA ListedInOrder ==
  ASSUME NEW n \in [id : Id, family : {"udp4", "udp6"}], NEW nodes \in Seq(Contact),
         \A i \in DOMAIN nodes : Resolves(n, nodes[i].addr)
  PROVE  LET part == ListedNodes(n, OnTheWire(nodes))
         IN  /\ DOMAIN part = 1 .. Len(part)
             /\ Ordered(part, nodes, Len(nodes))
<1> DEFINE list == OnTheWire(nodes)
           w == NodeLength(n)
           m == Len(nodes)
           count == Len(list) \div w
           Node(i) == NodeAt(n, list, i - 1)
           Taken(i) == Resolves(n, Node(i).addr) /\ Node(i).addr.port # 0
           Is(f) == f = [i \in 0 .. count |->
                          IF i = 0 THEN << >>
                          ELSE IF Taken(i) THEN Append(f[i - 1], Node(i)) ELSE f[i - 1]]
           upTo == CHOOSE f : Is(f)
           S == {Node(i) : i \in Nat}
           step == [i \in Nat |-> [v \in Seq(S) |-> IF Taken(i) THEN Append(v, Node(i)) ELSE v]]
<1>1. ListedNodes(n, list) = upTo[count]
  BY DEF ListedNodes
<1>2. /\ Len(list) = w * m /\ m \in Nat
      /\ \A i \in 1 .. m : (Taken(i) <=> Kept(nodes[i])) /\ (Kept(nodes[i]) => Node(i) = nodes[i])
  BY WireNodes
<1>3. w \in Nat /\ w > 0
  BY NodeLengths
<1> HIDE DEF list, w, m, Node, Taken
<1>4. count = m
  <2>1. w * m \in Nat /\ 0 \in Nat /\ 0 < w /\ w * m = w * m + 0
    BY <1>2, <1>3
  <2>2. (w * m) \div w = m
    BY <1>2, <1>3, <2>1, DivisionUnique
  <2> QED BY <1>2, <2>2
<1> HIDE DEF count
<1>5. \A i \in Nat : Node(i) \in S
  OBVIOUS
<1> HIDE DEF S
<1>6. PICK g : Runs(g, Seq(S), << >>, step, m)
  <2>1. step \in [Nat -> [Seq(S) -> Seq(S)]] /\ << >> \in Seq(S)
    <3>1. ASSUME NEW i \in Nat, NEW v \in Seq(S)
          PROVE  (IF Taken(i) THEN Append(v, Node(i)) ELSE v) \in Seq(S)
      <4>1. Append(v, Node(i)) \in Seq(S)
        BY <1>5
      <4> QED BY <4>1
    <3> QED BY <3>1
  <2> HIDE DEF step
  <2> QED BY <1>2, <2>1, Loop, Zenon
<1>7. Is(g)
  <2>1. g \in [0 .. m -> Seq(S)] /\ g[0] = << >>
    BY <1>6 DEF Runs
  <2>2. ASSUME NEW i \in 0 .. m
        PROVE  g[i] = IF i = 0 THEN << >>
                      ELSE IF Taken(i) THEN Append(g[i - 1], Node(i)) ELSE g[i - 1]
    <3>1. CASE i = 0
      BY <2>1, <3>1
    <3>2. CASE i # 0
      <4>1. i \in 1 .. m /\ i \in Nat /\ i - 1 \in 0 .. m
        BY <1>2, <3>2
      <4>2. g[i - 1] \in Seq(S)
        BY <2>1, <4>1
      <4>3. g[i] = step[i][g[i - 1]]
        BY <1>6, <4>1 DEF Runs
      <4> QED BY <3>2, <4>1, <4>2, <4>3
    <3> QED BY <3>1, <3>2
  <2>3. g = [i \in 0 .. m |-> g[i]]
    BY <2>1
  <2> QED BY <1>4, <2>2, <2>3
<1>8. Is(upTo)
  <2> HIDE DEF Is
  <2> QED BY <1>7
<1> HIDE DEF upTo
<1>9. /\ upTo[0] = << >>
      /\ \A i \in 1 .. m : upTo[i] = IF Taken(i) THEN Append(upTo[i - 1], Node(i)) ELSE upTo[i - 1]
  <2> HIDE DEF Taken, Node
  <2> DEFINE E(i) == IF i = 0 THEN << >>
                     ELSE IF Taken(i) THEN Append(upTo[i - 1], Node(i)) ELSE upTo[i - 1]
  <2>1. upTo = [i \in 0 .. m |-> E(i)]
    BY <1>4, <1>8
  <2> HIDE DEF E
  <2>2. \A i \in 0 .. m : upTo[i] = E(i)
    BY <2>1
  <2>3. 0 \in 0 .. m /\ \A i \in 1 .. m : i \in 0 .. m /\ i # 0
    BY <1>2
  <2> QED BY <2>2, <2>3 DEF E
<1> HIDE DEF Is
<1> DEFINE Good(k) == upTo[k] \in Seq(S) /\ Ordered(upTo[k], nodes, k)
           G == {k \in 0 .. m : Good(k)}
<1>10. 0 \in G
  <2>1. Len(<< >>) = 0 /\ << >> \in Seq(S)
    OBVIOUS
  <2>2. Places(<< >>, << >>, 0, nodes, 0)
    <3>1. << >> \in [1 .. 0 -> 1 .. 0] /\ 1 .. 0 = {}
      OBVIOUS
    <3> QED BY <3>1 DEF Places
  <2>3. Good(0)
    BY <1>9, <2>1, <2>2 DEF Ordered
  <2> HIDE DEF Good
  <2> QED BY <1>2, <2>3
<1>11. ASSUME NEW k \in 1 .. m, k - 1 \in G PROVE k \in G
  <2>1. k - 1 \in Nat /\ k - 1 + 1 = k /\ k \in 0 .. m /\ k \in Nat
    BY <1>2
  <2>2. upTo[k - 1] \in Seq(S) /\ Ordered(upTo[k - 1], nodes, k - 1)
    BY <1>11
  <2>3. CASE Taken(k)
    <3>1. upTo[k] = Append(upTo[k - 1], nodes[k]) /\ Kept(nodes[k]) /\ nodes[k] \in S
      BY <1>2, <1>5, <1>9, <2>1, <2>3
    <3>2. Ordered(Append(upTo[k - 1], nodes[k - 1 + 1]), nodes, k - 1 + 1)
      BY <2>1, <2>2, <3>1, OrderedTake
    <3>3. upTo[k] \in Seq(S)
      BY <2>2, <3>1
    <3> QED BY <2>1, <3>1, <3>2, <3>3
  <2>4. CASE ~Taken(k)
    <3>1. upTo[k] = upTo[k - 1] /\ ~Kept(nodes[k])
      BY <1>2, <1>9, <2>4
    <3>2. Ordered(upTo[k - 1], nodes, k - 1 + 1)
      BY <2>1, <2>2, <3>1, OrderedSkip
    <3> QED BY <2>1, <2>2, <3>1, <3>2
  <2> QED BY <2>3, <2>4
<1>12. m \in G
  <2> HIDE DEF G
  <2>1. \A k \in 0 .. m : k \in G
    BY <1>2, <1>10, <1>11, Climb
  <2> QED BY <1>2, <2>1
<1>13. upTo[m] \in Seq(S) /\ Ordered(upTo[m], nodes, m)
  BY <1>12
<1>14. DOMAIN upTo[m] = 1 .. Len(upTo[m])
  BY <1>13
<1> QED BY <1>1, <1>4, <1>13, <1>14 DEF m, list

(***************************************************************************)
(* Addresses and node lists come through the wire, for every base, every   *)
(* length of ids and addresses and lists of any length.  The i-th of the   *)
(* pieces into which processFindNodeResults cuts a list is the i-th node,  *)
(* and what it leaves out are nodes without a port and mapped addresses.   *)
(***************************************************************************)
THEOREM CodecAddresses == Spec => []AddressesSurvive
<1>1. Computed => AddressesSurvive
  <2> SUFFICES ASSUME Computed PROVE AddressesSurvive
    OBVIOUS
  <2>1. CASE call.fn = "Decode"
    <3>1. PICK c \in Compacts : Made("Decode", <<c>>, DecodeCompactNodeAddr(c))
      BY <2>1 DEF Computed, Made, Idle
    <3>2. call.result = DecodeCompactNodeAddr(Arg(1)) /\ Arg(1) \in Seq(Byte)
      BY <3>1, CodecAssumption DEF Made, Arg
    <3>3. call.result # NoAddr =>
            LET n == Len(Arg(1)) - 2
            IN  EncodeCompactNodeAddr(call.result) =
                  To4(SubSeq(Arg(1), 1, n)) \o SubSeq(Arg(1), n + 1, n + 2)
      BY <3>2, DecodeThenEncode
    <3> QED BY <2>1, <3>3, Zenon DEF AddressesSurvive, Called
  <2>2. CASE call.fn = "Encode"
    <3>1. PICK a \in Texts : Made("Encode", <<a>>, EncodeCompactNodeAddr(a))
      BY <2>2 DEF Computed, Made, Idle
    <3>2. /\ call.result = EncodeCompactNodeAddr(Arg(1))
          /\ Arg(1) \in [host : Seq(Byte), port : Int]
          /\ Len(Arg(1).host) \in {0, IPv4len, IPv6len}
      BY <3>1, CodecAssumption DEF Made, Arg
    <3>3. call.result # << >> /\ Arg(1).port \in 0 .. MaxPort =>
            DecodeCompactNodeAddr(call.result) = [Arg(1) EXCEPT !.host = To4(@)]
      BY <3>2, EncodeThenDecode
    <3> QED BY <2>2, <3>3, Zenon DEF AddressesSurvive, Called
  <2>3. CASE call.fn = "ReadList"
    <3>1. PICK n \in Receivers, nodes \in Lists, extra \in Extras :
            Made("ReadList", <<n, nodes, extra>>, Read(n, nodes, extra))
      BY <2>3 DEF Computed, Made, Idle
    <3>2. /\ Arg(1) = n /\ Arg(2) = nodes /\ Arg(3) = extra
          /\ call.result = Read(n, nodes, extra)
      BY <3>1 DEF Made, Arg
    <3>3. n \in [id : Id, family : {"udp4", "udp6"}] /\ nodes \in Seq(Contact)
      BY CodecAssumption DEF Contact
    <3> DEFINE list == OnTheWire(nodes)
               Keeps(rn) == rn.addr.port # 0 /\ ~Mapped(rn.addr.host)
    <3>4. /\ call.result.wrong = WrongLength(n, list \o extra)
          /\ call.result.nodes = ListedNodes(n, list \o extra)
      BY <3>2 DEF Read
    <3> SUFFICES ASSUME \A i \in DOMAIN nodes : Resolves(n, nodes[i].addr)
                 PROVE  /\ call.result.wrong <=> extra # << >>
                        /\ extra = << >> => KeptInOrder(call.result.nodes, nodes, Keeps)
      BY <2>3, <3>2, Zenon DEF AddressesSurvive, Called
    <3>5. list \in Seq(Byte) /\ Len(list) = NodeLength(n) * Len(nodes)
      BY <3>3, WireNodes
    <3>6. NodeLength(n) \in Nat /\ NodeLength(n) > 1 /\ Len(nodes) \in Nat
      BY <3>3, NodeLengths
    <3>7. /\ DOMAIN ListedNodes(n, list) = 1 .. Len(ListedNodes(n, list))
          /\ Ordered(ListedNodes(n, list), nodes, Len(nodes))
      BY <3>3, ListedInOrder
    <3> HIDE DEF list
    <3>8. CASE extra = << >>
      <4>1. list \o extra = list
        BY <3>5, <3>8
      <4>2. Len(list) % NodeLength(n) = 0
        <5> DEFINE w == NodeLength(n)
                   m == Len(nodes)
        <5>1. w * m \in Nat /\ w \in Nat /\ w > 0 /\ m \in Nat /\ 0 \in Nat /\ 0 < w /\ w * m = w * m + 0
          BY <3>6
        <5> HIDE DEF w, m
        <5>2. (w * m) % w = 0
          BY <5>1, DivisionUnique
        <5> QED BY <3>5, <5>2 DEF w, m
      <4>3. ~call.result.wrong
        BY <3>4, <4>1, <4>2 DEF WrongLength
      <4> DEFINE part == ListedNodes(n, list)
      <4>4. PICK at : Places(at, part, Len(part), nodes, Len(nodes))
        BY <3>7 DEF Ordered
      <4>5. DOMAIN part = 1 .. Len(part) /\ DOMAIN nodes = 1 .. Len(nodes)
        BY <3>3, <3>7
      <4> HIDE DEF part
      <4>6. /\ at \in [DOMAIN part -> DOMAIN nodes]
            /\ \A i, j \in DOMAIN part : i < j => at[i] < at[j]
            /\ \A i \in DOMAIN part : part[i] = nodes[at[i]]
            /\ {at[i] : i \in DOMAIN part} = {k \in DOMAIN nodes : Keeps(nodes[k])}
        BY <4>4, <4>5 DEF Places, Kept
      <4>7. KeptInOrder(part, nodes, Keeps)
        BY <4>6 DEF KeptInOrder
      <4>8. call.result.nodes = part
        BY <3>4, <4>1 DEF part
      <4> QED BY <3>8, <4>3, <4>7, <4>8 DEF KeptInOrder
    <3>9. CASE extra # << >>
      <4>1. Len(list \o extra) = NodeLength(n) * Len(nodes) + 1
        <5>1. extra \in Seq(Byte) /\ Len(extra) = 1
          <6>1. extra = << 0 >>
            BY <3>1, <3>9 DEF Extras
          <6> QED BY <6>1, InfohashAssumption DEF Byte
        <5>2. Len(list \o extra) = Len(list) + Len(extra)
          <6>1. list \in Seq(Byte)
            BY <3>5
          <6> QED BY <5>1, <6>1, Cut
        <5> QED BY <3>5, <5>1, <5>2
      <4>2. Len(list \o extra) % NodeLength(n) = 1
        <5> DEFINE w == NodeLength(n)
                   m == Len(nodes)
                   x == w * m + 1
        <5>1. x \in Nat /\ w \in Nat /\ w > 0 /\ m \in Nat /\ 1 \in Nat /\ 1 < w /\ x = w * m + 1
          BY <3>6
        <5> HIDE DEF w, m, x
        <5>2. x % w = 1
          BY <5>1, DivisionUnique
        <5> QED BY <4>1, <5>2 DEF w, m, x
      <4>3. WrongLength(n, list \o extra)
        BY <4>2 DEF WrongLength
      <4>4. call.result.wrong
        BY <3>4, <4>3, Zenon
      <4> QED BY <3>9, <4>4
    <3> QED BY <3>8, <3>9
  <2>4. CASE call.fn \notin {"Decode", "Encode", "ReadList"}
    BY <2>4, Zenon DEF AddressesSurvive, Called
  <2> QED BY <2>1, <2>2, <2>3, <2>4
<1> QED BY <1>1, CodecInvariant, PTL
=============================================================================
