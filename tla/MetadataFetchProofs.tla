------------------------ MODULE MetadataFetchProofs ------------------------
(***************************************************************************)
(* Proofs about MetadataFetch, for every block size, every size limit and  *)
(* whatever sizes, piece numbers and lengths a peer may send.              *)
(***************************************************************************)
EXTENDS MetadataFetch, TLAPS

(* The length that WrongLength lets through. *)
Expected(k) == IF k = total - 1 THEN Rem(size, BlockSize) ELSE BlockSize

(* A piece that was stored has the length its number asks for. *)
PiecesInv ==
  /\ started => total = TotalPieces(size)
  /\ ~started => total = 0
  /\ \A k \in 0 .. total - 1 : pieces[k].len \in {0, Expected(k)}

OkInv == pc = "ok" => started /\ total > 0 /\ IsDone(pieces)

IInv == TypeOK /\ PiecesInv /\ OkInv

-----------------------------------------------------------------------------
(* Euclidean division of natural numbers. *)
LEMMA DivMod ==
  ASSUME NEW a \in Nat, NEW b \in Nat, b > 0
  PROVE  /\ a \div b \in Nat /\ a % b \in Nat /\ a % b < b
         /\ (a \div b) * b + (a % b) = a
OBVIOUS

(* Go's division and remainder are integers, the remainder of a negative   *)
(* number is not positive.                                                 *)
LEMMA QuoRem ==
  ASSUME NEW a \in Int, NEW b \in Nat, b > 0
  PROVE  /\ Quo(a, b) \in Int /\ Rem(a, b) \in Int
         /\ a < 0 => Rem(a, b) <= 0
         /\ a >= 0 => Quo(a, b) * b + Rem(a, b) = a
<1>1. CASE a >= 0
  <2>1. a \in Nat
    BY <1>1
  <2> QED  BY <1>1, <2>1, DivMod DEF Quo, Rem
<1>2. CASE a < 0
  <2>1. -a \in Nat
    BY <1>2
  <2>2. (-a) \div b \in Nat /\ (-a) % b \in Nat
    BY <2>1, DivMod
  <2> QED  BY <1>2, <2>2 DEF Quo, Rem
<1> QED  BY <1>1, <1>2

(* An empty array of pieces satisfies everything. *)
LEMMA EndJobStep ==
  ASSUME IInv, NEW r \in {"none", "new", "bad", "dropped"}, EndJob(r)
  PROVE  IInv'
<1>1. pieces' \in [0 .. total' - 1 -> [len : Nat, right : BOOLEAN]]
  <2>1. 0 .. total' - 1 = 0 .. -1
    BY DEF EndJob
  <2>2. pieces' \in [0 .. -1 -> [len : Nat, right : BOOLEAN]]
    BY DEF EndJob, NoPieces
  <2> QED  BY <2>1, <2>2
<1>2. TypeOK'
  <2>1. /\ pc' = "ready" /\ result' = r /\ silent' = FALSE
        /\ size' = 0 /\ total' = 0 /\ started' = FALSE
        /\ asked' = 0 /\ answered' = {} /\ peer' = peer
    BY DEF EndJob
  <2>2. /\ pc' \in {"ready", "dial", "hello", "loop", "ok", "crashed"} /\ peer' \in Peers
        /\ silent' \in BOOLEAN /\ started' \in BOOLEAN /\ answered' \subseteq Pieces
        /\ result' \in {"none", "new", "bad", "dropped"}
    BY <2>1, Zenon DEF IInv, TypeOK
  <2>3. size' \in Claims \cup {0} /\ total' \in Nat /\ asked' \in 0 .. total'
    BY <2>1
  <2> QED  BY <1>1, <2>2, <2>3 DEF TypeOK
<1>3. PiecesInv' /\ OkInv'
  BY DEF EndJob, PiecesInv, OkInv
<1> QED  BY <1>2, <1>3 DEF IInv

(* The array that the extended handshake creates. *)
LEMMA ExtHandshakeStep ==
  ASSUME IInv, NEW s \in Claims, ExtHandshake(s)
  PROVE  IInv'
<1>1. CASE BadPeer
  BY <1>1, EndJobStep DEF BadPeer
<1>2. CASE Recovered
  BY <1>2, EndJobStep DEF Recovered
<1>3. CASE ~BadPeer /\ ~Recovered
  <2>1. /\ pc = "loop" /\ ~started /\ ~(TotalPieces(s) < 0)
        /\ size' = s /\ total' = TotalPieces(s) /\ started' = TRUE
        /\ pieces' = [k \in 0 .. TotalPieces(s) - 1 |-> Missing]
        /\ UNCHANGED <<pc, peer, silent, asked, answered, result>>
    BY <1>3 DEF ExtHandshake, Listening
  <2>2. TotalPieces(s) \in Nat
    <3>1. s \in Int /\ BlockSize \in Nat /\ BlockSize > 0
      BY FetchAssumption
    <3>2. TotalPieces(s) \in Int
      BY <3>1, QuoRem DEF TotalPieces
    <3> QED  BY <2>1, <3>2
  <2>3. asked' = 0 /\ total = 0
    BY <2>1 DEF IInv, TypeOK, PiecesInv
  <2>4. pieces' \in [0 .. total' - 1 -> [len : Nat, right : BOOLEAN]]
    BY <2>1, <2>2 DEF Missing
  <2>5. TypeOK'
    BY <2>1, <2>2, <2>3, <2>4 DEF IInv, TypeOK
  <2>6. PiecesInv'
    <3>1. \A k \in 0 .. total' - 1 : pieces'[k].len = 0
      BY <2>1, <2>2 DEF Missing
    <3>2. TotalPieces(s) = TotalPieces(size)'
      BY <2>1 DEF TotalPieces
    <3> QED  BY <2>1, <3>1, <3>2 DEF PiecesInv
  <2>7. OkInv'
    BY <2>1 DEF OkInv
  <2> QED  BY <2>5, <2>6, <2>7 DEF IInv
<1> QED  BY <1>1, <1>2, <1>3

(* A data message, from whichever peer. *)
LEMMA StoreStep ==
  ASSUME IInv, NEW piece \in Pieces, NEW len \in Nat, NEW right \in BOOLEAN,
         pc = "loop", Store(piece, len, right), answered' \subseteq Pieces
  PROVE  IInv'
<1>1. CASE BadPeer
  BY <1>1, EndJobStep DEF BadPeer
<1>2. CASE Recovered
  BY <1>2, EndJobStep DEF Recovered
<1>3. CASE ~BadPeer /\ ~Recovered
  <2> DEFINE ps == [pieces EXCEPT ![piece] = [len |-> len, right |-> right]]
  <2>1. /\ started /\ ~WrongLength(piece, len) /\ piece \in 0 .. total - 1
        /\ pieces' = ps
        /\ pc' = IF IsDone(ps) THEN "ok" ELSE "loop"
        /\ UNCHANGED <<peer, silent, size, total, started, asked, result>>
    BY <1>3 DEF Store
  <2>2. /\ ps \in [0 .. total - 1 -> [len : Nat, right : BOOLEAN]]
        /\ ps[piece].len = len
        /\ \A k \in 0 .. total - 1 : k # piece => ps[k] = pieces[k]
    BY <2>1 DEF IInv, TypeOK
  <2>3. len = Expected(piece)
    BY <2>1 DEF WrongLength, Expected, IInv, TypeOK
  <2> HIDE DEF ps
  <2>4. TypeOK'
    BY <2>1, <2>2 DEF IInv, TypeOK
  <2>5. PiecesInv'
    <3>1. \A k \in 0 .. total - 1 : Expected(k)' = Expected(k)
      BY <2>1 DEF Expected
    <3>2. \A k \in 0 .. total - 1 : ps[k].len \in {0, Expected(k)}
      BY <2>1, <2>2, <2>3 DEF IInv, PiecesInv
    <3>3. TotalPieces(size)' = TotalPieces(size)
      BY <2>1 DEF TotalPieces
    <3> QED  BY <2>1, <3>1, <3>2, <3>3 DEF IInv, PiecesInv
  <2>6. OkInv'
    BY <2>1 DEF OkInv, IInv, TypeOK
  <2> QED  BY <2>4, <2>5, <2>6 DEF IInv
<1> QED  BY <1>1, <1>2, <1>3

(* The steps that touch neither the array nor its size. *)
LEMMA QuietStep ==
  ASSUME IInv, UNCHANGED <<size, total, started, pieces, result>>,
         pc' \in {"ready", "dial", "hello", "loop", "ok", "crashed"},
         pc' = "ok" => pc = "ok",
         peer' \in Peers, silent' \in BOOLEAN, asked' \in 0 .. total, answered' \subseteq Pieces
  PROVE  IInv'
<1>1. TypeOK'
  BY DEF IInv, TypeOK
<1>2. PiecesInv'
  BY DEF IInv, PiecesInv, Expected, TotalPieces
<1>3. OkInv'
  BY DEF IInv, OkInv, IsDone
<1> QED  BY <1>1, <1>2, <1>3 DEF IInv

-----------------------------------------------------------------------------
LEMMA InitInv == Init => IInv
<1> SUFFICES ASSUME Init PROVE IInv
  OBVIOUS
<1>1. pieces \in [0 .. total - 1 -> [len : Nat, right : BOOLEAN]]
  <2>1. 0 .. total - 1 = 0 .. -1
    BY DEF Init
  <2>2. pieces \in [0 .. -1 -> [len : Nat, right : BOOLEAN]]
    BY DEF Init, NoPieces
  <2> QED  BY <2>1, <2>2
<1>2. TypeOK
  <2>1. /\ pc \in {"ready", "dial", "hello", "loop", "ok", "crashed"} /\ peer \in Peers
        /\ silent \in BOOLEAN /\ started \in BOOLEAN /\ answered \subseteq Pieces
        /\ result \in {"none", "new", "bad", "dropped"}
    BY Zenon DEF Init
  <2>2. size \in Claims \cup {0} /\ total \in Nat /\ asked \in 0 .. total
    BY DEF Init
  <2> QED  BY <1>1, <2>1, <2>2 DEF TypeOK
<1> QED  BY <1>2 DEF Init, IInv, PiecesInv, OkInv

LEMMA NextInv == IInv /\ [Next]_vars => IInv'
<1> SUFFICES ASSUME IInv, [Next]_vars PROVE IInv'
  OBVIOUS
<1>0. /\ peer \in Peers /\ silent \in BOOLEAN /\ asked \in 0 .. total /\ answered \subseteq Pieces
      /\ pc \in {"ready", "dial", "hello", "loop", "ok", "crashed"} /\ total \in Nat
  BY DEF IInv, TypeOK
<1>1. CASE BadPeer \/ Recovered \/ EndJob("new") \/ EndJob("dropped")
  BY <1>1, EndJobStep DEF BadPeer, Recovered
<1>2. CASE \E p \in Peers : GetWork(p)
  BY <1>0, <1>2, QuietStep DEF GetWork
<1>3. CASE Dial \/ Hello
  BY <1>0, <1>3, QuietStep DEF Dial, Hello, Goto
<1>4. CASE FallSilent
  BY <1>0, <1>4, QuietStep DEF FallSilent
<1>5. CASE \E s \in Claims : ExtHandshake(s)
  BY <1>5, ExtHandshakeStep
<1>6. CASE Ask
  BY <1>0, <1>6, QuietStep DEF Ask
<1>7. CASE \E k \in Pieces, l \in Lengths, r \in BOOLEAN : Data(k, l, r)
  <2>1. PICK k \in Pieces, l \in Lengths, r \in BOOLEAN : Data(k, l, r)
    BY <1>7
  <2>2. l \in Nat /\ answered' \subseteq Pieces
    BY <1>0, <2>1, FetchAssumption DEF Data
  <2>3. pc = "loop" /\ Store(k, l, r)
    BY <2>1 DEF Data, Listening
  <2> QED  BY <2>2, <2>3, StoreStep
<1>8. CASE \E k \in Pieces : Answer(k)
  <2>1. PICK k \in Pieces : Answer(k)
    BY <1>8
  <2>2. answered' \subseteq Pieces
    BY <1>0, <2>1 DEF Answer
  <2>3. pc = "loop" /\ Store(k, PieceLength(k), TRUE)
    BY <2>1 DEF Answer, Listening
  <2>4. PieceLength(k) \in Nat
    <3>1. peer.size \in Nat /\ BlockSize \in Nat /\ BlockSize > 0
      BY <1>0, FetchAssumption DEF Peers
    <3>2. peer.size % BlockSize \in Nat
      BY <3>1, DivMod
    <3> QED  BY <3>1, <3>2 DEF PieceLength
  <2> QED  BY <2>2, <2>3, <2>4, StoreStep
<1>9. CASE Load
  <2>1. CASE EndJob("new") \/ EndJob("dropped")
    BY <1>1, <2>1
  <2>2. CASE ~EndJob("new") /\ ~EndJob("dropped")
    <3>1. pc' = "crashed" /\ UNCHANGED <<peer, silent, size, total, started, pieces, asked, answered, result>>
      BY <1>9, <2>2, <1>0 DEF Load, Peers
    <3> QED  BY <1>0, <3>1, QuietStep
  <2> QED  BY <2>1, <2>2
<1>10. CASE UNCHANGED vars
  <2>1. UNCHANGED <<pc, peer, silent, size, total, started, pieces, asked, answered, result>>
    BY <1>10 DEF vars
  <2> QED  BY <1>0, <2>1, QuietStep
<1> QED
  BY <1>1, <1>2, <1>3, <1>4, <1>5, <1>6, <1>7, <1>8, <1>9, <1>10
  DEF Next, DialFails, BadHello, Timeout, IgnoredMessage, MalformedMessage, NotData, Crashed

THEOREM Invariance == Spec => []IInv
BY InitInv, NextInv, PTL DEF Spec

(* Every variable keeps its type: no announced size makes the piece count  *)
(* or the request counter leave its range.                                 *)
THEOREM TypeCorrect == Spec => []TypeOK
<1>1. IInv => TypeOK
  BY DEF IInv
<1> QED  BY <1>1, Invariance, PTL

(* fetchMetadata returns exactly as many bytes as were announced, for      *)
(* every block size.                                                       *)
THEOREM WholeMetadata == Spec => []ReturnsWholeMetadata
<1>1. IInv => ReturnsWholeMetadata
  <2> SUFFICES ASSUME IInv, pc = "ok"
               PROVE  /\ size > 0 /\ total > 0
                      /\ \A k \in 0 .. total - 2 : pieces[k].len = BlockSize
                      /\ (total - 1) * BlockSize + pieces[total - 1].len = size
    BY DEF ReturnsWholeMetadata
  <2>1. /\ started /\ total \in Nat /\ total > 0 /\ size \in Int
        /\ total = TotalPieces(size)
        /\ \A k \in 0 .. total - 1 : /\ pieces[k].len \in Nat
                                     /\ pieces[k].len # 0
                                     /\ pieces[k].len = Expected(k)
    BY FetchAssumption DEF IInv, TypeOK, PiecesInv, OkInv, IsDone
  <2>2. \A k \in 0 .. total - 2 : pieces[k].len = BlockSize
    BY <2>1 DEF Expected
  <2>3. /\ pieces[total - 1].len = Rem(size, BlockSize)
        /\ Rem(size, BlockSize) \in Nat /\ Rem(size, BlockSize) # 0
    BY <2>1 DEF Expected
  <2>4. size >= 0
    BY <2>1, <2>3, QuoRem, FetchAssumption
  <2>5. total = Quo(size, BlockSize) + 1 /\ Quo(size, BlockSize) \in Int
    BY <2>1, <2>3, QuoRem, FetchAssumption DEF TotalPieces
  <2>6. Quo(size, BlockSize) * BlockSize + Rem(size, BlockSize) = size
    BY <2>1, <2>4, QuoRem, FetchAssumption
  <2>7. total - 1 = Quo(size, BlockSize)
    BY <2>5
  <2>8. size # 0
    BY <2>3, FetchAssumption DEF Rem
  <2> QED  BY <2>1, <2>2, <2>3, <2>4, <2>6, <2>7, <2>8
<1> QED  BY <1>1, Invariance, PTL


-----------------------------------------------------------------------------
(***************************************************************************)
(* Honest peers                                                            *)
(***************************************************************************)

(* An honest peer does not fall silent, not even one whose connection      *)
(* follows a silent one's, and the size it announced is the real one.      *)
HonestInv ==
  /\ pc = "ready" => ~silent /\ ~started
  /\ peer.honest => ~silent /\ (started => size = peer.size)

LEMMA HonestStep == IInv /\ HonestInv /\ [Next]_vars => HonestInv'
<1> SUFFICES ASSUME IInv, HonestInv, [Next]_vars PROVE HonestInv'
  OBVIOUS
<1>1. ASSUME NEW r, EndJob(r) PROVE HonestInv'
  BY <1>1 DEF HonestInv, EndJob
<1>2. CASE \E p \in Peers : GetWork(p)
  BY <1>2 DEF HonestInv, GetWork
<1>3. CASE Dial \/ Hello
  BY <1>3 DEF HonestInv, Dial, Hello, Goto
<1>4. CASE FallSilent
  BY <1>4 DEF HonestInv, FallSilent
<1>5. CASE \E s \in Claims : ExtHandshake(s)
  <2>1. PICK s \in Claims : ExtHandshake(s)
    BY <1>5
  <2>2. CASE BadPeer \/ Recovered
    BY <1>1, <2>2 DEF BadPeer, Recovered
  <2>3. CASE ~BadPeer /\ ~Recovered
    <3>1. /\ pc = "loop" /\ (peer.honest => s = peer.size)
          /\ size' = s /\ UNCHANGED <<pc, peer, silent>>
      BY <2>1, <2>3 DEF ExtHandshake, Listening
    <3> QED  BY <3>1 DEF HonestInv
  <2> QED  BY <2>2, <2>3
<1>6. CASE Ask
  BY <1>6 DEF HonestInv, Ask
<1>7. ASSUME NEW k, NEW l, NEW r, pc = "loop", Store(k, l, r) PROVE HonestInv'
  <2>1. CASE BadPeer \/ Recovered
    BY <1>1, <2>1 DEF BadPeer, Recovered
  <2>2. CASE ~BadPeer /\ ~Recovered
    <3>1. pc' \in {"ok", "loop"} /\ UNCHANGED <<peer, silent, size, started>>
      BY <1>7, <2>2 DEF Store
    <3> QED  BY <3>1 DEF HonestInv
  <2> QED  BY <2>1, <2>2
<1>8. CASE \E k \in Pieces, l \in Lengths, r \in BOOLEAN : Data(k, l, r)
  BY <1>7, <1>8 DEF Data, Listening
<1>9. CASE \E k \in Pieces : Answer(k)
  BY <1>7, <1>9 DEF Answer, Listening
<1>10. CASE Load
  <2>1. CASE EndJob("new") \/ EndJob("dropped")
    BY <1>1, <2>1
  <2>2. CASE ~EndJob("new") /\ ~EndJob("dropped")
    <3>1. pc' = "crashed" /\ UNCHANGED <<peer, silent, size, started>>
      BY <1>10, <2>2 DEF Load, IInv, TypeOK, Peers
    <3> QED  BY <3>1 DEF HonestInv
  <2> QED  BY <2>1, <2>2
<1>11. CASE UNCHANGED vars
  BY <1>11 DEF HonestInv, vars
<1>12. CASE BadPeer
  BY <1>1, <1>12 DEF BadPeer
<1> QED
  BY <1>2, <1>3, <1>4, <1>5, <1>6, <1>8, <1>9, <1>10, <1>11, <1>12
  DEF Next, DialFails, BadHello, Timeout, IgnoredMessage, MalformedMessage, NotData, Crashed

(* For a size that is no multiple of BlockSize, the pieces that an honest  *)
(* peer cuts its metadata into are the ones that fetchMetadata expects.    *)
LEMMA RightLength ==
  ASSUME IInv, HonestInv, peer.honest, started, peer.size % BlockSize # 0,
         NEW k \in 0 .. asked - 1
  PROVE  ~WrongLength(k, PieceLength(k)) /\ k \in 0 .. total - 1
<1> DEFINE q == peer.size \div BlockSize
           r == peer.size % BlockSize
<1>1. /\ peer.size \in Nat /\ BlockSize \in Nat /\ BlockSize > 0 /\ size = peer.size
      /\ total = TotalPieces(size) /\ total \in Nat /\ asked \in 0 .. total
  BY FetchAssumption DEF IInv, TypeOK, PiecesInv, HonestInv, Peers
<1>2. q \in Nat /\ r \in Nat /\ r < BlockSize /\ q * BlockSize + r = peer.size
  BY <1>1, DivMod
<1>3. Quo(size, BlockSize) = q /\ Rem(size, BlockSize) = r
  BY <1>1 DEF Quo, Rem
<1>4. r # 0
  OBVIOUS
<1> HIDE DEF q, r
<1>5. total = q + 1
  BY <1>1, <1>3, <1>4 DEF TotalPieces
<1>6. k \in Nat /\ k <= q
  BY <1>1, <1>2, <1>5
<1>7. CASE k = q
  <2>1. \A a, b, c \in Nat : c < b => ~((a + 1) * b <= a * b + c)
    OBVIOUS
  <2>2. ~((k + 1) * BlockSize <= peer.size)
    BY <1>1, <1>2, <1>7, <2>1
  <2>3. PieceLength(k) = r
    BY <2>2 DEF PieceLength, r
  <2> QED  BY <1>3, <1>5, <1>2, <1>7, <2>3 DEF WrongLength
<1>8. CASE k # q
  <2>1. \A a, b, c, d \in Nat : a < d => (a + 1) * b <= d * b + c
    <3> SUFFICES ASSUME NEW a \in Nat, NEW b \in Nat, NEW c \in Nat, NEW d \in Nat, a < d
                 PROVE  (a + 1) * b <= d * b + c
      OBVIOUS
    <3>1. PICK e \in Nat : d = a + 1 + e
      <4>1. d - (a + 1) \in Nat /\ d = a + 1 + (d - (a + 1))
        OBVIOUS
      <4> QED  BY <4>1
    <3>2. d * b = (a + 1) * b + e * b /\ e * b \in Nat /\ (a + 1) * b \in Nat
      BY <3>1
    <3> QED  BY <3>2
  <2>2. k < q
    BY <1>2, <1>6, <1>8
  <2>3. (k + 1) * BlockSize <= peer.size
    BY <1>1, <1>2, <1>6, <2>1, <2>2
  <2>4. PieceLength(k) = BlockSize
    BY <2>3 DEF PieceLength
  <2>5. k # total - 1 /\ k \in 0 .. total - 1
    BY <1>2, <1>5, <1>6, <1>8
  <2> QED  BY <2>4, <2>5 DEF WrongLength
<1> QED  BY <1>7, <1>8

(***************************************************************************)
(* fetchMetadata rejects no honest peer, for every block size, if the      *)
(* metadata is within the limit and no multiple of BlockSize.  The second  *)
(* condition is needed: worker.go wants a last piece of length 0 then.     *)
(***************************************************************************)
THEOREM HonestAccepted ==
  ASSUME \A s \in Sizes : s % BlockSize # 0 /\ s <= MaxMetadataSize
  PROVE  Spec => HonestNotRejected
<1>1. Init => HonestInv
  BY DEF Init, HonestInv
<1>2. IInv /\ HonestInv /\ [Next]_vars => [pc = "loop" /\ peer.honest => pc' # "ready"]_vars
  <2> SUFFICES ASSUME IInv, HonestInv, Next, pc = "loop", peer.honest PROVE pc' # "ready"
    OBVIOUS
  <2>1. /\ peer.size \in Sizes /\ peer.size \in Nat /\ peer.size % BlockSize # 0
        /\ peer.size <= MaxMetadataSize /\ ~silent
    BY FetchAssumption DEF IInv, TypeOK, HonestInv, Peers
  <2>2. ASSUME NEW s \in Claims, ExtHandshake(s) PROVE pc' # "ready"
    <3>1. s = peer.size /\ ~started
      BY <2>2 DEF ExtHandshake
    <3>2. ~(s > MaxMetadataSize) /\ ~(TotalPieces(s) < 0)
      <4>1. peer.size \div BlockSize \in Nat
        BY <2>1, DivMod, FetchAssumption
      <4>2. TotalPieces(s) \in Nat
        BY <2>1, <3>1, <4>1 DEF TotalPieces, Quo
      <4> QED  BY <2>1, <3>1, <4>2, FetchAssumption
    <3>3. pc' = pc
      BY <2>2, <3>1, <3>2 DEF ExtHandshake
    <3> QED  BY <3>3
  <2>3. ASSUME NEW k \in Pieces, Answer(k) PROVE pc' # "ready"
    <3>1. k \in 0 .. asked - 1 /\ started /\ Store(k, PieceLength(k), TRUE)
      BY <2>3 DEF Answer
    <3>2. ~WrongLength(k, PieceLength(k)) /\ k \in 0 .. total - 1
      BY <2>1, <3>1, RightLength
    <3>3. pc' \in {"ok", "loop"}
      BY <3>1, <3>2 DEF Store
    <3> QED  BY <3>3
  <2> QED  BY <2>1, <2>2, <2>3
           DEF Next, GetWork, Dial, DialFails, Hello, BadHello, Timeout, FallSilent, IgnoredMessage,
               MalformedMessage, NotData, Ask, Data, Load, Crashed, Listening, vars
<1> QED  BY <1>1, <1>2, HonestStep, Invariance, PTL DEF Spec, HonestNotRejected
=============================================================================
