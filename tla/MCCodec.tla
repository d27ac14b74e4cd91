------------------------------ MODULE MCCodec ------------------------------
(***************************************************************************)
(* A small instance of Codec: ids of three two-bit bytes, hex digits of    *)
(* one bit (a byte that is no digit, two for the same value), IPv4         *)
(* addresses of one byte and IPv6 addresses of two.                        *)
(***************************************************************************)
EXTENDS Codec

MCHexValue == (1 :> 0) @@ (2 :> 1) @@ (3 :> 1)
MCHexDigit == (0 :> 1) @@ (1 :> 2)
MCBits == [b \in 0 .. 3 |-> [k \in 1 .. 2 |-> (b \div 2 ^ (2 - k)) % 2]]
MCPrefix == <<3>>

Words(n) == UNION {[1 .. k -> Byte] : k \in 0 .. n}
MCStrings == Words(2 * InfohashLength + 1)
MCCompacts == Words(IPv6len + 3)
Hosts == [1 .. IPv4len -> Byte] \cup [1 .. IPv6len -> Byte]
MCTexts == [host : Hosts \cup {<< >>}, port : -1 .. MaxPort + 1]

Self == <<1, 2, 2>>
SelfHex == <<1, 3, 2, 1, 3, 1>>
Other == <<2, 1, 3>>
MCReceivers == [id : {Self}, family : {"udp4", "udp6"}]
MCSources == [host : {<<2>>, <<1, 2>>}, port : {0, 7}]

Nodes == [id : {Self, Other}, addr : [host : {<<2>>, <<1, 2>>, <<3, 1>>}, port : {0, 9}]]
MCLists == UNION {[1 .. k -> Nodes] : k \in 0 .. 3}

Absent == <<"absent">>
Str(x) == <<"string", x>>
Num(x) == <<"int", x>>
Map(fields) == <<"map", [k \in {x \in DOMAIN fields : fields[x] # Absent} |-> fields[k]]>>
Ids == {Absent, Num(0), Str(<<1>>), Str(Self), Str(SelfHex), Str(Other)}
Args == {Map(f) : f \in [id : Ids, info_hash : {Absent, Num(0), Str(<<1>>), Str(Other)},
                         port : {Absent, Str(<< >>), Num(0), Num(5), Num(MaxPort + 1)},
                         implied_port : {Absent, Num(0), Num(1)}]}
Wire == {<< >>, <<1>>, Compact([id |-> Other, addr |-> [host |-> <<2>>, port |-> 9]])}
Results == {Map(f) : f \in [id : Ids, nodes : {Absent, Num(0)} \cup {Str(w) : w \in Wire},
                            values : {Absent, Num(0)} \cup
                              {<<"list", l>> : l \in {<< >>, <<Str(<<2, 1, 1>>)>>, <<Str(<<2>>), Num(0)>>}}]}
Ts == {Absent, Num(0), Str(<<1>>)}
Queries == {"ping", "find_node", "get_peers", "announce_peer"}
Errors == {<<Num(201), Str("no")>>, <<Num(201)>>, <<Str("no"), Num(201)>>, <<Num(201), Num(0)>>}

Requests == [y : {Str("q")}, t : Ts, q : {Absent, Num(0)} \cup {Str(q) : q \in Queries},
             a : Args \cup {Absent, Num(0)}]
Responses == [y : {Str("r")}, t : Ts, r : Results \cup {Absent, Num(0)}]
ErrorMsgs == [y : {Absent, Num(0), Str("e"), Str("x")}, t : Ts,
              e : {<<"list", e>> : e \in Errors} \cup {Absent, Num(0)}]
MCMessages ==
  {Map(f)[2] : f \in Requests} \cup {Map(f)[2] : f \in Responses} \cup {Map(f)[2] : f \in ErrorMsgs}
  \cup {NoDict}

Paths == {Absent, Num(0)} \cup {<<"list", p>> : p \in {<< >>, <<Str("a")>>, <<Str("a"), Num(0)>>}}
Files == {Map(f) : f \in [path : Paths, length : {Absent, Str(""), Num(2), Num(3)}]} \cup {Num(0)}
MCInfos ==
  {Map(f)[2] : f \in [name : {Absent, Num(0), Str("n")}, length : {Absent, Str(""), Num(4)},
     files : {Absent, Num(0)} \cup {<<"list", l>> : l \in UNION {[1 .. k -> Files] : k \in 0 .. 2}}]}
=============================================================================
