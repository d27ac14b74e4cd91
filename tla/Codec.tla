------------------------------- MODULE Codec -------------------------------
(***************************************************************************)
(* The pure functions of models, krpc and dht that stand between the       *)
(* network and the node's state, called one at a time on any input, and    *)
(* compared with what they are meant to compute.                           *)
(***************************************************************************)
EXTENDS Handlers, Metainfo, SequencesExt

CONSTANTS
  Strings,   \* arguments of InfohashFromString
  Compacts,  \* arguments of DecodeCompactNodeAddr
  Texts,     \* arguments of EncodeCompactNodeAddr
  Receivers, \* nodes: [id, family]
  Sources,   \* addresses that packets come from
  Lists,     \* sequences of nodes [id, addr] that a find_node response lists
  Messages,  \* the decoded messages
  Infos      \* the decoded metadata

(* What bencode decodes to a list is a sequence, to an int a number. *)
FilesTyped(info) ==
  Has(info, "files", "list") =>
    LET files == Get(info, "files")
    IN  /\ Len(files) \in Nat /\ DOMAIN files = 1 .. Len(files)
        /\ \A i \in DOMAIN files : FileFails(files[i]) \/ Get(files[i][2], "length") \in Int

ASSUME CodecAssumption ==
  /\ Strings \subseteq Seq(Byte) /\ Compacts \subseteq Seq(Byte)
  /\ Texts \subseteq [host : Seq(Byte), port : Int]
  /\ \A a \in Texts : Len(a.host) \in {0, IPv4len, IPv6len}
  /\ Receivers \subseteq [id : Id, family : {"udp4", "udp6"}]
  /\ Lists \subseteq Seq([id : Id, addr : [host : Seq(Byte), port : 0 .. MaxPort]])
  /\ \A info \in Infos : FilesTyped(info)
  /\ Sources \subseteq [host : Seq(Byte), port : Nat]
  /\ \A src \in Sources : Len(src.host) \in {IPv4len, IPv6len}

VARIABLE call  \* the function called last, its arguments and its result

Idle == [fn |-> "none", args |-> << >>, result |-> << >>]
Returns(fn, args, result) == call' = [fn |-> fn, args |-> args, result |-> result]

Init == call = Idle

ParseId(s) == Returns("ParseId", <<s>>, InfohashFromString(s))
Compare(a, b) == Returns("Compare", <<a, b>>, Distance(a, b))
Neighbour(a, b) == Returns("Neighbour", <<a, b>>, GenerateNeighbour(a, b))
Decode(c) == Returns("Decode", <<c>>, DecodeCompactNodeAddr(c))
Encode(a) == Returns("Encode", <<a>>, EncodeCompactNodeAddr(a))

(* A list as another node sends it, with some bytes too many. *)
Compact(rn) == rn.id \o rn.addr.host \o <<rn.addr.port \div ByteBase, rn.addr.port % ByteBase>>
OnTheWire(nodes) == FlattenSeq([i \in DOMAIN nodes |-> Compact(nodes[i])])
Extras == {<< >>, <<0>>}
ReadList(n, nodes, extra) ==
  LET list == OnTheWire(nodes) \o extra
  IN  Returns("ReadList", <<n, nodes, extra>>,
              [wrong |-> WrongLength(n, list), nodes |-> ListedNodes(n, list)])

Receive(n, src, m) ==
  Returns("Receive", <<n, src, m>>,
          [kind |-> Kind(n, src, m),
           peer |-> IF Kind(n, src, m) = "announce" THEN AnnouncedPeer(n, src, Get(m, "a")) ELSE NoAddr])

Load(info) == Returns("Load", <<info>>, TorrentFromMetadata(info))

Return == call # Idle /\ call' = Idle

Call ==
  \/ \E s \in Strings : ParseId(s)
  \/ \E a, b \in Id : Compare(a, b) \/ Neighbour(a, b)
  \/ \E c \in Compacts : Decode(c)
  \/ \E a \in Texts : Encode(a)
  \/ \E n \in Receivers, nodes \in Lists, extra \in Extras : ReadList(n, nodes, extra)
  \/ \E n \in Receivers, src \in Sources, m \in Messages : Resolves(n, src) /\ Receive(n, src, m)
  \/ \E info \in Infos : Load(info)

Next == (call = Idle /\ Call) \/ Return

Spec == Init /\ [][Next]_call

-----------------------------------------------------------------------------
(***************************************************************************)
(* Properties                                                              *)
(***************************************************************************)
Called(fn) == call.fn = fn
Arg(i) == call.args[i]

(***************************************************************************)
(* InfohashFromString undoes String, so that an id that was printed (the   *)
(* key of the infohash blacklist, a search request) is the same one again; *)
(* it gives ids only, and refuses every other length.  TestInfohashImport  *)
(* demands this of Equal and String, and then, against it, that the bytes  *)
(* of an id read from digits be the digits (infohash_test.go:36-41).       *)
(***************************************************************************)
IdsParse ==
  Called("ParseId") =>
    /\ call.result # Invalid => call.result \in Id /\ InfohashFromString(ToHex(call.result)) = call.result
    /\ Len(Arg(1)) \notin {InfohashLength, 2 * InfohashLength} => call.result = Invalid
    /\ \A ih \in Id : Arg(1) = ToHex(ih) => call.result = ih

(* The bits of an id, Kademlia's metric as the number that the bits of the *)
(* xor write, and the powers of two.                                       *)
IdBits == ByteBits * InfohashLength
BitsOf(ih) ==
  [i \in 1 .. IdBits |-> Bits[ih[((i - 1) \div ByteBits) + 1]][((i - 1) % ByteBits) + 1]]
Xor(a, b) ==
  LET number[i \in 0 .. IdBits] ==
        IF i = 0 THEN 0
        ELSE 2 * number[i - 1] + (IF BitsOf(a)[i] = BitsOf(b)[i] THEN 0 ELSE 1)
  IN  number[IdBits]
Power[i \in 0 .. IdBits] == IF i = 0 THEN 1 ELSE 2 * Power[i - 1]

(***************************************************************************)
(* Distance, which walks bytes and then shifts one, orders nodes as        *)
(* Kademlia's xor metric does, the other way round: it is the number of    *)
(* leading zero bits of the xor, so the larger is the closer.              *)
(***************************************************************************)
DistanceIsXorPrefix ==
  Called("Compare") =>
    /\ call.result \in 0 .. IdBits
    /\ Xor(Arg(1), Arg(2)) < Power[IdBits - call.result]
    /\ call.result < IdBits => Xor(Arg(1), Arg(2)) >= Power[IdBits - call.result - 1]

(***************************************************************************)
(* GenerateNeighbour overwrites the id that the routing table holds, whose *)
(* distance rItem has cached: the cached distance stays right, unless the  *)
(* node shares the first half of our id, and then it becomes our own.      *)
(***************************************************************************)
CachedDistanceHolds ==
  Called("Neighbour") =>
    IF Distance(Arg(1), Arg(2)) < Half * ByteBits
      THEN Distance(Arg(1), call.result) = Distance(Arg(1), Arg(2))
      ELSE call.result = Arg(1)

(* What is left of a sequence without the members that fail a test. *)
KeptInOrder(part, whole, Test(_)) ==
  \E at \in [DOMAIN part -> DOMAIN whole] :
    /\ \A i, j \in DOMAIN part : i < j => at[i] < at[j]
    /\ \A i \in DOMAIN part : part[i] = whole[at[i]]
    /\ {at[i] : i \in DOMAIN part} = {k \in DOMAIN whole : Test(whole[k])}

(***************************************************************************)
(* Addresses survive the compact form.  Its two directions undo each       *)
(* other, on what is no IPv4 address in IPv6 clothes (which becomes IPv4)  *)
(* and on a port that is one; and a list of nodes of our family comes      *)
(* through the wire whole and in order, but for nodes without a port and   *)
(* for mapped addresses, which udp6 does not resolve.  A byte too many     *)
(* spoils a list.                                                          *)
(***************************************************************************)
AddressesSurvive ==
  /\ Called("Decode") /\ call.result # NoAddr =>
       LET n == Len(Arg(1)) - 2
       IN  EncodeCompactNodeAddr(call.result) =
             To4(SubSeq(Arg(1), 1, n)) \o SubSeq(Arg(1), n + 1, n + 2)
  /\ Called("Encode") /\ call.result # << >> /\ Arg(1).port \in 0 .. MaxPort =>
       DecodeCompactNodeAddr(call.result) = [Arg(1) EXCEPT !.host = To4(@)]
  /\ Called("ReadList") /\ (\A i \in DOMAIN Arg(2) : Resolves(Arg(1), Arg(2)[i].addr)) =>
       /\ call.result.wrong <=> Arg(3) # << >>
       /\ Arg(3) = << >> =>
            KeptInOrder(call.result.nodes, Arg(2), LAMBDA rn : rn.addr.port # 0 /\ ~Mapped(rn.addr.host))

(* KRPC: what another node that keeps to the protocol may send.  An id is  *)
(* a string of InfohashLength bytes; a list of nodes has an id, a host and *)
(* two bytes of port for each.                                             *)
ProtocolId(data, key) == Has(data, key, "string") /\ Len(Get(data, key)) = InfohashLength
Query(m, q, ids) ==
  /\ Has(m, "q", "string") /\ Get(m, "q") = q
  /\ Has(m, "a", "map") /\ \A k \in ids : ProtocolId(Get(m, "a"), k)
Announcement(m) ==
  Query(m, "announce_peer", {"id", "info_hash"}) /\ Has(Get(m, "a"), "port", "int")
AllStrings(list) == \A i \in DOMAIN list : list[i][1] = "string"
HostLength == [udp4 |-> IPv4len, udp6 |-> IPv6len]
Response(n, r) ==
  /\ ProtocolId(r, "id")
  /\ "nodes" \in DOMAIN r =>
       /\ Has(r, "nodes", "string")
       /\ Len(Get(r, "nodes")) % (InfohashLength + HostLength[n.family] + 2) = 0
  /\ "values" \in DOMAIN r => Has(r, "values", "list") /\ AllStrings(Get(r, "values"))
Error(e) == Len(e) = 2 /\ e[1][1] = "int" /\ e[2][1] = "string"
Conforms(n, m) ==
  /\ Has(m, "t", "string") /\ Has(m, "y", "string")
  /\ CASE Get(m, "y") = "q" -> \/ Query(m, "ping", {"id"}) \/ Query(m, "find_node", {"id"})
                               \/ Query(m, "get_peers", {"id", "info_hash"}) \/ Announcement(m)
       [] Get(m, "y") = "r" -> Has(m, "r", "map") /\ Response(n, Get(m, "r"))
       [] Get(m, "y") = "e" -> Has(m, "e", "list") /\ Error(Get(m, "e"))
       [] OTHER -> FALSE

(***************************************************************************)
(* No message that keeps to the protocol panics the process or gets its    *)
(* sender blacklisted, whatever optional keys it has or lacks.             *)
(***************************************************************************)
ConformingAccepted ==
  Called("Receive") /\ Conforms(Arg(1), Arg(3)) =>
    call.result.kind \notin Undecoded \cup Rejected \cup Crashing \cup AddedThenRejected \cup {"bad_nodes"}

(***************************************************************************)
(* "OnAnnoucePeer is called for each peer that announces itself" (node.go, *)
(* at the field): whoever else announces an infohash as the protocol says, *)
(* from a port and with a port, is reported, at the host that it announced *)
(* from.  Left out is what the code gets wrong: over IPv6, where the host  *)
(* is printed without its brackets, an announcement whose port is given    *)
(* and not implied is lost.                                                *)
(***************************************************************************)
AnnouncersReported ==
  LET n == Arg(1)
      src == Arg(2)
      a == Get(Arg(3), "a")
      given == Has(a, "implied_port", "int") /\ Get(a, "implied_port") = 0
  IN  /\ Called("Receive") /\ Conforms(n, Arg(3))
      /\ Get(Arg(3), "y") = "q" /\ Announcement(Arg(3)) /\ ~Equal(n.id, Get(a, "id"))
      /\ src.port # 0 /\ Get(a, "port") \in 1 .. MaxPort
      /\ ~(given /\ n.family = "udp6")
      => call.result.peer # NoAddr /\ call.result.peer.host = src.host

(***************************************************************************)
(* Metadata with a name and either a length or files, each with a path and *)
(* a length, loads, and its size is the total of its files' ("Ensure the   *)
(* torrent size totals all files'"); without a name or without both it is  *)
(* refused, and never loaded in part.                                      *)
(***************************************************************************)
FileConforms(f) ==
  /\ f[1] = "map" /\ Has(f[2], "length", "int")
  /\ Has(f[2], "path", "list") /\ AllStrings(Get(f[2], "path"))
InfoConforms(info) ==
  /\ Has(info, "name", "string")
  /\ IF Has(info, "files", "list")
       THEN \A i \in DOMAIN Get(info, "files") : FileConforms(Get(info, "files")[i])
       ELSE Has(info, "length", "int")
MetadataLoads ==
  Called("Load") =>
    /\ call.result.status = "ok" <=> InfoConforms(Arg(1))
    /\ call.result.status = "ok" =>
         call.result.size = IF Has(Arg(1), "files", "list")
                              THEN MapThenSumSet(LAMBDA i : Get(Get(Arg(1), "files")[i][2], "length"),
                                                 DOMAIN Get(Arg(1), "files"))
                              ELSE Get(Arg(1), "length")
=============================================================================
