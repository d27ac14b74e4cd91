----------------------------- MODULE Handlers ------------------------------
(***************************************************************************)
(* dht/node.go and messages.go: what the handlers make of a decoded        *)
(* message, read key by key.  Kind names the path it takes through         *)
(* processPacket; DHTNode says what each path does to the node.  n is the  *)
(* node that receives it: [id, family].                                    *)
(***************************************************************************)
EXTENDS Krpc

(* The paths.                                                              *)
(*  undecoded: no dictionary, or none with a "y"                           *)
(*  ignored:   own id, unknown q, response with neither nodes nor values,  *)
(*             well-formed error                                           *)
(*  rejected:  unknown "y", keys missing or of the wrong type, bad ids     *)
(*  crashing:  unchecked type assertions                                   *)
Undecoded == {"junk"}
Ignored == {"own_id", "unknown_query", "empty_response", "error"}
Rejected == {"malformed", "bad_error"}
Crashing == {"get_peers_no_t", "odd_values", "odd_error"}
Answered == {"ping", "get_peers"}
AddedThenRejected == {"ping_no_t", "get_peers_no_hash"}
Added == Answered \cup AddedThenRejected \cup
         {"announce", "bad_announce", "nodes", "bad_nodes", "values"}
Kinds == Undecoded \cup Ignored \cup Rejected \cup Crashing \cup Added

HasId(data, key) == Has(data, key, "string") /\ InfohashFromString(Get(data, key)) # Invalid
IdIn(data, key) == InfohashFromString(Get(data, key))

-----------------------------------------------------------------------------
(* processFindNodeResults: the list is cut into ids and addresses.         *)
AddrLen(n) == (IF n.family = "udp6" THEN IPv6len ELSE IPv4len) + 2
NodeLength(n) == InfohashLength + AddrLen(n)

\* Mutant of NodeAt: the address starts one byte early.
NodeAtEarly(n, nodeList, i) ==
  LET rest == SubSeq(nodeList, i * NodeLength(n) + 1, (i + 1) * NodeLength(n))
  IN  [id   |-> SubSeq(rest, 1, InfohashLength),
       addr |-> DecodeCompactNodeAddr(SubSeq(rest, InfohashLength, NodeLength(n) - 1))]

NodeAt(n, nodeList, i) ==
  LET rest == SubSeq(nodeList, i * NodeLength(n) + 1, (i + 1) * NodeLength(n))
  IN  [id   |-> SubSeq(rest, 1, InfohashLength),
       addr |-> DecodeCompactNodeAddr(SubSeq(rest, InfohashLength + 1, NodeLength(n)))]

(* net.ResolveUDPAddr of an IP: it has to be of the node's family, which   *)
(* an IPv4 address that was mapped into IPv6 is not.                       *)
Resolves(n, addr) == Len(addr.host) = AddrLen(n) - 2

WrongLength(n, nodeList) == Len(nodeList) % NodeLength(n) # 0
ListedNodes(n, nodeList) ==
  LET count == Len(nodeList) \div NodeLength(n)
      upTo[i \in 0 .. count] ==
        IF i = 0 THEN << >>
        ELSE LET rn == NodeAt(n, nodeList, i - 1)
             IN  IF Resolves(n, rn.addr) /\ rn.addr.port # 0
                   THEN Append(upTo[i - 1], rn) ELSE upTo[i - 1]
  IN  upTo[count]

-----------------------------------------------------------------------------
(* onAnnouncePeerQuery *)
MessagePort(a) ==
  Has(a, "port", "int") /\ Has(a, "implied_port", "int") /\ Get(a, "implied_port") = 0

\* Mutant of AnnouncedPeer: a missing implied_port is an error.
AnnouncedPeerStrict(n, src, a) ==
  CASE src.port = 0 \/ ~HasId(a, "info_hash") -> NoAddr
    [] OTHER -> IF Has(a, "implied_port", "int") THEN src ELSE NoAddr

(* The peer that OnAnnouncePeer is called with, NoAddr if it is not.  The  *)
(* port of the message is put behind the bare host and the whole resolved  *)
(* again, for the node's family: an IPv4 host parses, and only as udp4.    *)
AnnouncedPeer(n, src, a) ==
  CASE src.port = 0 \/ ~HasId(a, "info_hash") -> NoAddr
    [] src.port # 0 /\ HasId(a, "info_hash") /\ ~MessagePort(a) -> src
    [] OTHER -> IF /\ n.family = "udp4" /\ Len(src.host) = IPv4len
                   /\ Get(a, "port") \in 0 .. MaxPort
                  THEN [src EXCEPT !.port = Get(a, "port")] ELSE NoAddr

GetPeersKind(m, a) ==
  CASE ~HasId(a, "info_hash") -> "get_peers_no_hash"
    [] HasId(a, "info_hash") /\ ~Has(m, "t", "string") -> "get_peers_no_t"
    [] OTHER -> "get_peers"

\* Mutant of QueryKind: a query that is not handled is an error.
QueryKindStrict(n, src, m, a) ==
  LET q == Get(m, "q")
  IN  CASE q = "ping" -> IF Has(m, "t", "string") THEN "ping" ELSE "ping_no_t"
        [] q = "get_peers" -> GetPeersKind(m, a)
        [] q = "announce_peer" ->
             IF AnnouncedPeer(n, src, a) = NoAddr THEN "bad_announce" ELSE "announce"
        [] OTHER -> "malformed"

(* onPingQuery, onGetPeersQuery, onAnnouncePeerQuery *)
QueryKind(n, src, m, a) ==
  LET q == Get(m, "q")
  IN  CASE q = "ping" -> IF Has(m, "t", "string") THEN "ping" ELSE "ping_no_t"
        [] q = "get_peers" -> GetPeersKind(m, a)
        [] q = "announce_peer" ->
             IF AnnouncedPeer(n, src, a) = NoAddr THEN "bad_announce" ELSE "announce"
        [] OTHER -> "unknown_query"

(* handleRequest *)
RequestKind(n, src, m) ==
  LET a == Get(m, "a")
  IN  IF ~(Has(m, "q", "string") /\ Has(m, "a", "map") /\ HasId(a, "id")) THEN "malformed"
      ELSE IF Equal(n.id, IdIn(a, "id")) THEN "own_id"
      ELSE QueryKind(n, src, m, a)

(* handleResponse *)
ResponseKind(n, m) ==
  LET r == Get(m, "r")
  IN  IF ~(Has(m, "r", "map") /\ HasId(r, "id")) THEN "malformed"
      ELSE IF Has(r, "nodes", "string")
        THEN IF WrongLength(n, Get(r, "nodes")) THEN "bad_nodes" ELSE "nodes"
      ELSE IF Has(r, "values", "list")
        THEN IF \A i \in DOMAIN Get(r, "values") : Get(r, "values")[i][1] = "string"
               THEN "values" ELSE "odd_values"
      ELSE "empty_response"

(* handleError *)
ErrorKind(m) ==
  IF ~Has(m, "e", "list") THEN "bad_error"
  ELSE LET e == Get(m, "e")
       IN  IF Len(e) # 2 THEN "bad_error"
           ELSE IF e[1][1] = "int" /\ e[2][1] = "string" THEN "error" ELSE "odd_error"

(* processPacket *)
Kind(n, src, m) ==
  IF ~Has(m, "y", "string") THEN "junk"
  ELSE CASE Get(m, "y") = "q" -> RequestKind(n, src, m)
         [] Get(m, "y") = "r" -> ResponseKind(n, m)
         [] Get(m, "y") = "e" -> ErrorKind(m)
         [] OTHER -> "malformed"

(* The sender's id and the nodes that a message carries, for its path. *)
SenderId(n, src, m) ==
  CASE Kind(n, src, m) \notin Added -> n.id
    [] Kind(n, src, m) \in Added /\ Get(m, "y") = "q" -> IdIn(Get(m, "a"), "id")
    [] OTHER -> IdIn(Get(m, "r"), "id")

NodesIn(n, src, m) ==
  IF Kind(n, src, m) = "nodes" THEN ListedNodes(n, Get(Get(m, "r"), "nodes")) ELSE << >>
=============================================================================
