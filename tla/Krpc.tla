------------------------------- MODULE Krpc --------------------------------
(***************************************************************************)
(* krpc/krpc.go: reading a decoded bencode dictionary, and the compact     *)
(* form of addresses.  A dictionary is a function from keys to values, a   *)
(* value a pair <<type, content>> with the type that bencode decodes to.   *)
(*                                                                         *)
(* The text of an address, "host:port", is the record of what net's        *)
(* parsers find in it: the bytes of the IP (IPv4len or IPv6len of them,    *)
(* none when the host is no IP) and the number that is the port.           *)
(***************************************************************************)
EXTENDS Infohash

CONSTANTS
  IPv4len, IPv6len,  \* 4 and 16
  V4Prefix           \* what precedes an IPv4 address that is mapped into IPv6

ASSUME KrpcAssumption ==
  /\ IPv4len \in Nat \ {0} /\ IPv6len \in Nat
  /\ IPv4len + Len(V4Prefix) = IPv6len
  /\ V4Prefix \in Seq(Byte) \ {<< >>}

(* GetString, GetInt, GetMap and GetList succeed if the key is there with  *)
(* a value of the type.                                                    *)
Has(data, key, type) == key \in DOMAIN data /\ data[key][1] = type
Get(data, key) == data[key][2]

(* What bencode.DecodeDict fails on is taken as a dictionary without keys. *)
NoDict == << >>

-----------------------------------------------------------------------------
ByteBase == HexBase * HexBase
MaxPort == ByteBase * ByteBase - 1
NoAddr == [host |-> << >>, port |-> 0]

(* net.IP.To4; net.IP.String prints an address as IPv4 by the same rule. *)
Mapped(ip) == Len(ip) = IPv6len /\ SubSeq(ip, 1, Len(V4Prefix)) = V4Prefix
To4(ip) == IF Mapped(ip) THEN SubSeq(ip, Len(V4Prefix) + 1, IPv6len) ELSE ip

PortOf(b) == ByteBase * b[1] + b[2]

DecodeCompactNodeAddr(cni) ==
  LET n == Len(cni) - 2
  IN  IF n \in {IPv4len, IPv6len}
        THEN [host |-> To4(SubSeq(cni, 1, n)), port |-> PortOf(SubSeq(cni, n + 1, n + 2))]
        ELSE NoAddr

(* strconv.ParseUint(port, 10, 16) with its error ignored: a number that   *)
(* is too large becomes the largest one, what is no number becomes zero.   *)
ParsePort(port) == IF port < 0 THEN 0 ELSE IF port > MaxPort THEN MaxPort ELSE port

EncodeCompactNodeAddr(addr) ==
  LET c == ParsePort(addr.port)
  IN  IF addr.host = << >> THEN << >> ELSE To4(addr.host) \o <<c \div ByteBase, c % ByteBase>>
=============================================================================
