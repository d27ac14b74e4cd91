--------------------------- MODULE InfohashProofs ---------------------------
(***************************************************************************)
(* Lemmas about the operators of Infohash, for ids of any length, bytes of *)
(* any number of bits and any alphabet of hex digits.  CodecProofs and     *)
(* DHTNodeProofs rest on them.                                             *)
(***************************************************************************)
EXTENDS Infohash, TLAPS, WellFoundedInduction

(* First is the least member of a nonempty set of naturals: the loops of   *)
(* Distance stop at the first difference.                                  *)
LEMMA FirstIsLeast ==
  ASSUME NEW S, S \subseteq Nat, S # {}
  PROVE  First(S) \in S /\ \A k \in S : First(S) <= k
<1>1. PICK x \in S : \A y \in S : <<y, x>> \notin OpToRel(<, Nat)
  BY NatLessThanWellFounded, WFMin, Zenon
<1>2. \A y \in S : ~(y < x)
  <2>1. ASSUME NEW y \in S, y < x PROVE FALSE
    <3>1. <<y, x>> \in Nat \X Nat /\ <<y, x>>[1] < <<y, x>>[2]
      BY <2>1
    <3>2. <<y, x>> \in OpToRel(<, Nat)
      BY <3>1 DEF OpToRel
    <3> QED BY <1>1, <2>1, <3>2
  <2> QED BY <2>1
<1>3. x \in Nat /\ \A y \in S : y \in Nat
  OBVIOUS
<1>4. \A y \in S : x <= y
  BY <1>2, <1>3
<1> QED BY <1>4, Zenon DEF First

(* There is only one least member. *)
LEMMA FirstIsUnique ==
  ASSUME NEW S, S \subseteq Nat, NEW m \in S, \A k \in S : m <= k
  PROVE  First(S) = m
<1>1. First(S) \in S /\ First(S) <= m /\ m <= First(S)
  BY FirstIsLeast
<1>2. First(S) \in Nat /\ m \in Nat
  BY <1>1
<1> QED BY <1>1, <1>2

(* Functions that agree everywhere are the same. *)
LEMMA SameFunction ==
  ASSUME NEW D, NEW R, NEW f \in [D -> R], NEW g \in [D -> R], \A k \in D : f[k] = g[k]
  PROVE  f = g
OBVIOUS

(* The lengths, one by one. *)
LEMMA Lengths ==
  /\ InfohashLength \in Nat /\ Half \in Nat /\ ByteBits \in Nat /\ HexBase \in Nat
  /\ InfohashLength > 0 /\ ByteBits > 0 /\ HexBase > 0 /\ Half < InfohashLength
BY InfohashAssumption

-----------------------------------------------------------------------------
(***************************************************************************)
(* GenerateNeighbour and the cached distance                               *)
(***************************************************************************)

(* The other id differs from ours in the half that is kept: the neighbour  *)
(* has its distance, whatever the bytes behind the first difference.       *)
LEMMA NeighbourDiffers ==
  ASSUME NEW a, NEW b, NEW h \in 1 .. Half, a[h] # b[h]
  PROVE  Distance(a, GenerateNeighbour(a, b)) = Distance(a, b)
<1> DEFINE g == GenerateNeighbour(a, b)
           S == Differ(a, b, InfohashLength)
           T == Differ(a, g, InfohashLength)
           i == First(S)
<1>1. \A k \in 1 .. InfohashLength : g[k] = IF k <= Half THEN b[k] ELSE a[k]
  BY DEF GenerateNeighbour
<1> HIDE DEF g
<1>2. h \in S /\ S \subseteq Nat /\ T \subseteq Nat
  BY Lengths DEF Differ
<1>3. i \in S /\ \A k \in S : i <= k
  BY <1>2, FirstIsLeast
<1>4. i \in 1 .. InfohashLength /\ a[i] # b[i] /\ i <= Half
  <2>1. i <= h
    BY <1>2, <1>3
  <2>2. i \in 1 .. InfohashLength /\ a[i] # b[i]
    BY <1>3 DEF Differ
  <2> HIDE DEF i
  <2> QED BY <2>1, <2>2, Lengths
<1>5. g[i] = b[i] /\ i \in T
  <2>1. g[i] = b[i]
    BY <1>1, <1>4
  <2> QED BY <1>4, <2>1 DEF Differ
<1>6. ASSUME NEW k \in T PROVE i <= k
  <2>1. k \in 1 .. InfohashLength /\ a[k] # g[k]
    BY DEF Differ
  <2>2. k \in S
    BY <1>1, <2>1 DEF Differ
  <2> QED BY <1>3, <2>2
<1>7. First(T) = i
  BY <1>2, <1>5, <1>6, FirstIsUnique
<1>8. S # {} /\ T # {}
  BY <1>2, <1>5
<1> QED BY <1>5, <1>7, <1>8 DEF Distance, g

(* It does not: the neighbour is our own id. *)
LEMMA NeighbourIsSelf ==
  ASSUME NEW a \in Id, NEW b, \A h \in 1 .. Half : a[h] = b[h]
  PROVE  GenerateNeighbour(a, b) = a
<1>1. \A k \in 1 .. InfohashLength : (IF k <= Half THEN b[k] ELSE a[k]) = a[k]
  BY Lengths
<1>2. a = [k \in 1 .. InfohashLength |-> a[k]]
  BY DEF Id
<1> QED BY <1>1, <1>2 DEF GenerateNeighbour

(* The loops of Distance: either the ids are the same, or they agree       *)
(* before some byte and differ there, first at some bit.                   *)
LEMMA DistancePlace ==
  ASSUME NEW a \in Id, NEW b \in Id
  PROVE  \/ /\ Distance(a, b) = ByteBits * InfohashLength
            /\ \A k \in 1 .. InfohashLength : a[k] = b[k]
         \/ \E i \in 1 .. InfohashLength, j \in 1 .. ByteBits :
              /\ Distance(a, b) = ByteBits * (i - 1) + j - 1
              /\ a[i] # b[i] /\ \A k \in 1 .. InfohashLength : a[k] # b[k] => i <= k
              /\ Bits[a[i]][j] # Bits[b[i]][j]
              /\ \A k \in 1 .. ByteBits : Bits[a[i]][k] # Bits[b[i]][k] => j <= k
<1> DEFINE S == Differ(a, b, InfohashLength)
           i == First(S)
           B == Differ(Bits[a[i]], Bits[b[i]], ByteBits)
           j == First(B)
<1>1. CASE S = {}
  <2>1. Distance(a, b) = ByteBits * InfohashLength
    BY <1>1 DEF Distance
  <2>2. \A k \in 1 .. InfohashLength : a[k] = b[k]
    BY <1>1 DEF Differ
  <2> QED BY <2>1, <2>2
<1>2. CASE S # {}
  <2>1. i \in S /\ \A k \in S : i <= k
    <3>1. S \subseteq Nat
      BY Lengths DEF Differ
    <3> QED BY <1>2, <3>1, FirstIsLeast
  <2>2. i \in 1 .. InfohashLength /\ a[i] # b[i] /\ \A k \in 1 .. InfohashLength : a[k] # b[k] => i <= k
    BY <2>1 DEF Differ
  <2>3. B \subseteq 1 .. ByteBits /\ B # {}
    <3>1. a[i] \in Byte /\ b[i] \in Byte
      BY <2>2 DEF Id
    <3>2. Bits[a[i]] # Bits[b[i]]
      BY <2>2, <3>1, InfohashAssumption
    <3>3. Bits[a[i]] \in [1 .. ByteBits -> {0, 1}] /\ Bits[b[i]] \in [1 .. ByteBits -> {0, 1}]
      BY <3>1, InfohashAssumption
    <3>4. \E k \in 1 .. ByteBits : Bits[a[i]][k] # Bits[b[i]][k]
      <4> DEFINE f == Bits[a[i]]
                 g == Bits[b[i]]
                 D == 1 .. ByteBits
                 R == {0, 1}
      <4>1. f \in [D -> R] /\ g \in [D -> R] /\ f # g
        BY <3>2, <3>3
      <4> HIDE DEF f, g, D, R
      <4>2. \E k \in D : f[k] # g[k]
        BY <4>1, SameFunction
      <4> QED BY <4>2 DEF f, g, D
    <3> QED BY <3>4 DEF Differ
  <2>4. j \in B /\ \A k \in B : j <= k
    <3>1. B \subseteq Nat
      BY <2>3
    <3> QED BY <2>3, <3>1, FirstIsLeast
  <2>5. j \in 1 .. ByteBits /\ Bits[a[i]][j] # Bits[b[i]][j]
        /\ \A k \in 1 .. ByteBits : Bits[a[i]][k] # Bits[b[i]][k] => j <= k
    BY <2>4 DEF Differ
  <2>6. Distance(a, b) = ByteBits * (i - 1) + j - 1
    BY <1>2 DEF Distance
  <2> HIDE DEF S, i, B, j
  <2> QED BY <2>2, <2>5, <2>6
<1> QED BY <1>1, <1>2

(* Distance of ids that agree in their first bytes, and of ids that do not.*)
LEMMA DistanceRange ==
  ASSUME NEW a \in Id, NEW b \in Id
  PROVE  /\ Distance(a, b) \in 0 .. ByteBits * InfohashLength
         /\ (\A h \in 1 .. Half : a[h] = b[h]) => Distance(a, b) >= Half * ByteBits
         /\ (\E h \in 1 .. Half : a[h] # b[h]) => Distance(a, b) < Half * ByteBits
<1>1. CASE Distance(a, b) = ByteBits * InfohashLength /\ \A k \in 1 .. InfohashLength : a[k] = b[k]
  <2>1. \A h \in 1 .. Half : a[h] = b[h]
    BY <1>1, Lengths
  <2>2. ByteBits * InfohashLength \in Nat /\ ByteBits * InfohashLength >= Half * ByteBits
    BY Lengths
  <2> QED BY <1>1, <2>1, <2>2
<1>2. CASE \E i \in 1 .. InfohashLength, j \in 1 .. ByteBits :
             /\ Distance(a, b) = ByteBits * (i - 1) + j - 1
             /\ a[i] # b[i] /\ \A k \in 1 .. InfohashLength : a[k] # b[k] => i <= k
  <2>1. PICK i \in 1 .. InfohashLength, j \in 1 .. ByteBits :
             /\ Distance(a, b) = ByteBits * (i - 1) + j - 1
             /\ a[i] # b[i] /\ \A k \in 1 .. InfohashLength : a[k] # b[k] => i <= k
    BY <1>2
  <2>2. i \in 1 .. InfohashLength /\ a[i] # b[i] /\ \A k \in 1 .. InfohashLength : a[k] # b[k] => i <= k
    BY <2>1
  <2>4. j \in 1 .. ByteBits
    OBVIOUS
  <2>5. Distance(a, b) = ByteBits * (i - 1) + j - 1
    BY <2>1
  <2>6. \A x, y \in Nat : x <= y => ByteBits * x <= ByteBits * y
    BY Lengths
  <2>7. i - 1 \in Nat /\ i \in Nat /\ ByteBits * i = ByteBits * (i - 1) + ByteBits
        /\ ByteBits * (i - 1) \in Nat /\ ByteBits * i \in Nat
    BY <2>2, Lengths
  <2>8. ByteBits * i <= ByteBits * InfohashLength /\ ByteBits * InfohashLength \in Nat
    BY <2>2, <2>6, <2>7, Lengths
  <2>9. Distance(a, b) \in 0 .. ByteBits * InfohashLength
    BY <2>4, <2>5, <2>7, <2>8, Lengths
  <2>10. ASSUME \A h \in 1 .. Half : a[h] = b[h] PROVE Distance(a, b) >= Half * ByteBits
    <3>1. Half <= i - 1
      BY <2>2, <2>10, Lengths
    <3>2. ByteBits * Half <= ByteBits * (i - 1)
      BY <2>6, <2>7, <3>1, Lengths
    <3>3. ByteBits * Half = Half * ByteBits /\ ByteBits * Half \in Nat
      BY Lengths
    <3> QED BY <2>4, <2>5, <2>7, <3>2, <3>3, Lengths
  <2>11. ASSUME \E h \in 1 .. Half : a[h] # b[h] PROVE Distance(a, b) < Half * ByteBits
    <3>1. i <= Half
      BY <2>2, <2>11, Lengths
    <3>2. ByteBits * i <= ByteBits * Half
      BY <2>6, <2>7, <3>1, Lengths
    <3>3. ByteBits * Half = Half * ByteBits /\ ByteBits * Half \in Nat
      BY Lengths
    <3> QED BY <2>4, <2>5, <2>7, <3>2, <3>3, Lengths
  <2> QED BY <2>9, <2>10, <2>11
<1> QED BY <1>1, <1>2, DistancePlace

-----------------------------------------------------------------------------
(***************************************************************************)
(* Printing and parsing                                                    *)
(***************************************************************************)

(* A function on 1 .. n is a sequence of n elements. *)
LEMMA IsSequence ==
  ASSUME NEW n \in Nat, NEW S, NEW f \in [1 .. n -> S]
  PROVE  f \in Seq(S) /\ Len(f) = n /\ DOMAIN f = 1 .. n
OBVIOUS

(* The two digits of a byte, and the byte of two digits. *)
LEMMA ByteOfDigits ==
  ASSUME NEW v \in 0 .. HexBase - 1, NEW w \in 0 .. HexBase - 1
  PROVE  HexBase * v + w \in Byte
<1>1. \A H, x, y \in Nat : x < H /\ y < H => H * x + y \in 0 .. H * H - 1
  OBVIOUS
<1>2. v \in Nat /\ w \in Nat /\ v < HexBase /\ w < HexBase
  BY Lengths
<1> QED BY <1>1, <1>2, Lengths DEF Byte

LEMMA DigitsOfByte ==
  ASSUME NEW b \in Byte
  PROVE  /\ b \div HexBase \in 0 .. HexBase - 1
         /\ b % HexBase \in 0 .. HexBase - 1
         /\ HexBase * (b \div HexBase) + (b % HexBase) = b
<1>1. b \in Nat /\ b < HexBase * HexBase
  BY Lengths DEF Byte
<1>2. \A c \in Nat, H \in Nat \ {0} :
        c % H \in 0 .. H - 1 /\ H * (c \div H) + (c % H) = c
  OBVIOUS
<1>3. \A c \in Nat, H \in Nat \ {0} : c < H * H => c \div H \in 0 .. H - 1
  OBVIOUS
<1>4. HexBase \in Nat \ {0}
  BY Lengths
<1> QED BY <1>1, <1>2, <1>3, <1>4, Zenon

(* String prints two hex digits per byte. *)
LEMMA ToHexDigits ==
  ASSUME NEW ih \in Id
  PROVE  /\ ToHex(ih) \in [1 .. 2 * InfohashLength -> DOMAIN HexValue]
         /\ \A i \in 1 .. InfohashLength :
              /\ ToHex(ih)[2 * i - 1] = HexDigit[ih[i] \div HexBase]
              /\ ToHex(ih)[2 * i] = HexDigit[ih[i] % HexBase]
<1> DEFINE D(i) == LET b == ih[(i + 1) \div 2]
                   IN  HexDigit[IF i % 2 = 1 THEN b \div HexBase ELSE b % HexBase]
<1>1. ToHex(ih) = [i \in 1 .. 2 * InfohashLength |-> D(i)]
  BY DEF ToHex
<1>2. ASSUME NEW i \in 1 .. 2 * InfohashLength PROVE D(i) \in DOMAIN HexValue
  <2>1. (i + 1) \div 2 \in 1 .. InfohashLength
    <3>1. \A L \in Nat : \A k \in 1 .. 2 * L : (k + 1) \div 2 \in 1 .. L
      OBVIOUS
    <3> QED BY <3>1, Lengths
  <2>2. ih[(i + 1) \div 2] \in Byte
    BY <2>1 DEF Id
  <2> DEFINE b == ih[(i + 1) \div 2]
  <2>3. b \div HexBase \in 0 .. HexBase - 1 /\ b % HexBase \in 0 .. HexBase - 1
    BY <2>2, DigitsOfByte
  <2>4. HexDigit[b \div HexBase] \in DOMAIN HexValue /\ HexDigit[b % HexBase] \in DOMAIN HexValue
    BY <2>3, InfohashAssumption
  <2>5. D(i) = IF i % 2 = 1 THEN HexDigit[b \div HexBase] ELSE HexDigit[b % HexBase]
    BY Zenon
  <2> QED BY <2>4, <2>5
<1>3. ASSUME NEW i \in 1 .. InfohashLength
      PROVE  /\ ToHex(ih)[2 * i - 1] = HexDigit[ih[i] \div HexBase]
             /\ ToHex(ih)[2 * i] = HexDigit[ih[i] % HexBase]
  <2>1. /\ 2 * i - 1 \in 1 .. 2 * InfohashLength /\ 2 * i \in 1 .. 2 * InfohashLength
        /\ ((2 * i - 1) + 1) \div 2 = i /\ (2 * i + 1) \div 2 = i
        /\ (2 * i - 1) % 2 = 1 /\ (2 * i) % 2 = 0
    BY Lengths
  <2>2. ToHex(ih)[2 * i - 1] = D(2 * i - 1) /\ ToHex(ih)[2 * i] = D(2 * i)
    BY <1>1, <2>1, Zenon
  <2>3. D(2 * i - 1) = HexDigit[ih[i] \div HexBase]
    BY <2>1
  <2>4. D(2 * i) = HexDigit[ih[i] % HexBase]
    BY <2>1
  <2> QED BY <2>2, <2>3, <2>4
<1> HIDE DEF D
<1> QED BY <1>1, <1>2, <1>3

(* InfohashFromString undoes String. *)
LEMMA FromToHex ==
  ASSUME NEW ih \in Id
  PROVE  InfohashFromString(ToHex(ih)) = ih
<1> DEFINE s == ToHex(ih)
<1>1. /\ s \in [1 .. 2 * InfohashLength -> DOMAIN HexValue]
      /\ \A i \in 1 .. InfohashLength :
           /\ s[2 * i - 1] = HexDigit[ih[i] \div HexBase]
           /\ s[2 * i] = HexDigit[ih[i] % HexBase]
  BY ToHexDigits
<1> HIDE DEF s
<1>2. 2 * InfohashLength \in Nat /\ 2 * InfohashLength # InfohashLength
  BY Lengths
<1>3. Len(s) = 2 * InfohashLength /\ DOMAIN s = 1 .. 2 * InfohashLength
  BY <1>1, <1>2, IsSequence
<1>4. InfohashFromString(s) = FromHex(s)
  <2>1. \A i \in DOMAIN s : s[i] \in DOMAIN HexValue
    BY <1>1, <1>3
  <2> QED BY <1>2, <1>3, <2>1 DEF InfohashFromString
<1>5. ASSUME NEW i \in 1 .. InfohashLength
      PROVE  HexBase * HexValue[s[2 * i - 1]] + HexValue[s[2 * i]] = ih[i]
  <2>1. ih[i] \in Byte
    BY DEF Id
  <2>2. /\ HexValue[HexDigit[ih[i] \div HexBase]] = ih[i] \div HexBase
        /\ HexValue[HexDigit[ih[i] % HexBase]] = ih[i] % HexBase
    BY <2>1, DigitsOfByte, InfohashAssumption
  <2>3. HexBase * (ih[i] \div HexBase) + (ih[i] % HexBase) = ih[i]
    BY <2>1, DigitsOfByte
  <2> QED BY <1>1, <2>2, <2>3
<1>6. FromHex(s) = [i \in 1 .. InfohashLength |-> ih[i]]
  BY <1>5 DEF FromHex
<1>7. ih = [i \in 1 .. InfohashLength |-> ih[i]]
  BY DEF Id
<1> QED BY <1>4, <1>6, <1>7 DEF s

(* What InfohashFromString returns is an id or Invalid. *)
LEMMA ParsedIds ==
  ASSUME NEW s \in Seq(Byte)
  PROVE  /\ InfohashFromString(s) # Invalid => InfohashFromString(s) \in Id
         /\ Len(s) \notin {InfohashLength, 2 * InfohashLength} => InfohashFromString(s) = Invalid
<1>1. CASE Len(s) = InfohashLength
  <2>0. Len(s) # 2 * InfohashLength
    BY <1>1, Lengths
  <2>1. InfohashFromString(s) = s
    BY <1>1, <2>0 DEF InfohashFromString
  <2>2. s \in Id
    BY <1>1 DEF Id
  <2> QED BY <1>1, <2>1, <2>2
<1>2. CASE Len(s) = 2 * InfohashLength /\ \A i \in DOMAIN s : s[i] \in DOMAIN HexValue
  <2>1. Len(s) # InfohashLength
    BY <1>2, Lengths
  <2>2. InfohashFromString(s) = FromHex(s)
    BY <1>2, <2>1 DEF InfohashFromString
  <2>3. ASSUME NEW i \in 1 .. InfohashLength
        PROVE  HexBase * HexValue[s[2 * i - 1]] + HexValue[s[2 * i]] \in Byte
    <3>1. 2 * i - 1 \in DOMAIN s /\ 2 * i \in DOMAIN s
      BY <1>2, Lengths
    <3>2. HexValue[s[2 * i - 1]] \in 0 .. HexBase - 1 /\ HexValue[s[2 * i]] \in 0 .. HexBase - 1
      BY <1>2, <3>1, InfohashAssumption
    <3> QED BY <3>2, ByteOfDigits
  <2>4. FromHex(s) \in Id
    BY <2>3 DEF FromHex, Id
  <2> QED BY <1>2, <2>2, <2>4
<1>3. CASE /\ Len(s) # InfohashLength
           /\ ~(Len(s) = 2 * InfohashLength /\ \A i \in DOMAIN s : s[i] \in DOMAIN HexValue)
  BY <1>3 DEF InfohashFromString
<1> QED BY <1>1, <1>2, <1>3
=============================================================================
