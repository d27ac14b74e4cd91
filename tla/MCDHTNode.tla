----------------------------- MODULE MCDHTNode -----------------------------
(* Small instances of DHTNode for TLC: ids of two bytes of two bits.       *)
EXTENDS DHTNode, TLC

MCHexValue == (1 :> 0) @@ (2 :> 1) @@ (3 :> 1)
MCHexDigit == (0 :> 1) @@ (1 :> 2)
MCBits == [b \in 0 .. 3 |-> [k \in 1 .. 2 |-> (b \div 2 ^ (2 - k)) % 2]]
MCPrefix == <<3>>

MCself == <<0, 0>>
At(host, port) == [host |-> <<host>>, port |-> port]
MClocal == At(0, 6)
MCRouters == {At(3, 1)}

Str(x) == <<"string", x>>
Msg(fields) == [t |-> Str("aa")] @@ fields
Arg(id) == <<"map", [id |-> Str(id)]>>
Search(id) == <<"map", [id |-> Str(id), info_hash |-> Str(<<2, 2>>)]>>
Query(q, a) == [y |-> Str("q"), q |-> Str(q), a |-> a]
Answer(nodes) == [y |-> Str("r"), r |-> <<"map", [id |-> Str(<<2, 1>>), nodes |-> Str(nodes)]>>]

(* Two senders.  The second one's answer lists a node that shares the      *)
(* first half of our id, one without a port, one at the unspecified        *)
(* address, and ourselves.                                                 *)
MCList == <<0, 1, 1, 0, 3>> \o <<2, 1, 2, 0, 0>> \o <<1, 1, 0, 1, 2>> \o <<0, 0, 2, 0, 3>>

MCPackets ==
  {[src |-> At(1, 1), msg |-> m] :
     m \in {NoDict, [y |-> Str("x")], Msg(Query("ping", Arg(<<0, 0>>))),
            Msg(Query("ping", Arg(<<1, 1>>))), Query("ping", Arg(<<1, 1>>)),
            Msg(Query("announce_peer", Search(<<1, 1>>))), Query("get_peers", Search(<<1, 1>>))}}
  \cup {[src |-> At(2, 1), msg |-> Msg(m)] :
     m \in {Query("get_peers", Search(<<2, 1>>)), Answer(MCList), Answer(<<1>>)}}
=============================================================================
