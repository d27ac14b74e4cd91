----------------------------- MODULE Infohash ------------------------------
(***************************************************************************)
(* models/infohash.go: parsing, printing and comparing node ids and        *)
(* infohashes, and the neighbour ids that the node shows to others.        *)
(* Lengths are parameters (20 bytes of 8 bits in the program), and so is   *)
(* the alphabet: a string is a sequence of bytes, some of them hex digits. *)
(***************************************************************************)
EXTENDS Integers, Sequences

CONSTANTS
  InfohashLength,  \* bytes: 20
  Half,            \* bytes that GenerateNeighbour takes of the other id: 10
  ByteBits,        \* 8
  HexBase,         \* values of a hex digit: 16
  HexValue,        \* hex.DecodeString: a partial function from bytes to digits
  HexDigit,        \* hex.EncodeToString: the (lower case) digit of a value
  Bits             \* the bits of a byte, the highest first

Byte == 0 .. HexBase * HexBase - 1

ASSUME InfohashAssumption ==
  /\ {InfohashLength, Half, ByteBits, HexBase} \subseteq Nat \ {0}
  /\ Half < InfohashLength
  /\ DOMAIN HexValue \subseteq Byte
  /\ HexValue \in [DOMAIN HexValue -> 0 .. HexBase - 1]
  /\ HexDigit \in [0 .. HexBase - 1 -> DOMAIN HexValue]
  /\ \A v \in 0 .. HexBase - 1 : HexValue[HexDigit[v]] = v
  /\ Bits \in [Byte -> [1 .. ByteBits -> {0, 1}]]
  /\ \A b, c \in Byte : Bits[b] = Bits[c] => b = c

Id == [1 .. InfohashLength -> Byte]
Invalid == << >>

-----------------------------------------------------------------------------
\* Mutant of FromHex: the digits of a byte are swapped.
FromHexSwapped(s) ==
  [i \in 1 .. InfohashLength |-> HexBase * HexValue[s[2 * i]] + HexValue[s[2 * i - 1]]]

FromHex(s) ==
  [i \in 1 .. InfohashLength |-> HexBase * HexValue[s[2 * i - 1]] + HexValue[s[2 * i]]]

(* A string of InfohashLength bytes is the id itself, one of twice that    *)
(* length has to be hexadecimal, any other is an error.                    *)
InfohashFromString(s) ==
  CASE Len(s) = InfohashLength -> s
    [] /\ Len(s) = 2 * InfohashLength
       /\ \A i \in DOMAIN s : s[i] \in DOMAIN HexValue -> FromHex(s)
    [] OTHER -> Invalid

(* Infohash.String *)
ToHex(ih) ==
  [i \in 1 .. 2 * InfohashLength |->
     LET b == ih[(i + 1) \div 2]
     IN  HexDigit[IF i % 2 = 1 THEN b \div HexBase ELSE b % HexBase]]

Valid(ih) == Len(ih) = InfohashLength

Equal(ih, other) == Len(ih) = Len(other) /\ \A i \in 1 .. Len(ih) : ih[i] = other[i]

(* The first of n places where f and g differ, if any: the loops of        *)
(* Distance, over the bytes and then over the bits of the xor.             *)
Differ(f, g, n) == {i \in 1 .. n : f[i] # g[i]}
First(S) == CHOOSE i \in S : \A k \in S : i <= k

\* Mutant of Distance: the bits are counted from the low end.
DistanceLowBits(ih, other) ==
  LET i == First(Differ(ih, other, InfohashLength))
      bits == Differ(Bits[ih[i]], Bits[other[i]], ByteBits)
  IN  IF Differ(ih, other, InfohashLength) = {}
        THEN ByteBits * InfohashLength
        ELSE ByteBits * (i - 1) + ByteBits - (CHOOSE j \in bits : \A k \in bits : k <= j)

Distance(ih, other) ==
  LET i == First(Differ(ih, other, InfohashLength))
      j == First(Differ(Bits[ih[i]], Bits[other[i]], ByteBits))
  IN  IF Differ(ih, other, InfohashLength) = {}
        THEN ByteBits * InfohashLength
        ELSE ByteBits * (i - 1) + j - 1

\* Mutant of GenerateNeighbour: the halves of the two ids are swapped.
GenerateNeighbourSwapped(first, second) ==
  [i \in 1 .. InfohashLength |-> IF i <= Half THEN first[i] ELSE second[i]]

(* append(second[:10], first[10:]...): all ids have the capacity, so that  *)
(* the result is written into second's own array, and second changes.      *)
GenerateNeighbour(first, second) ==
  [i \in 1 .. InfohashLength |-> IF i <= Half THEN second[i] ELSE first[i]]
=============================================================================
