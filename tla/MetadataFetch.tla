--------------------------- MODULE MetadataFetch ---------------------------
(***************************************************************************)
(* bt/worker.go: one BitTorrent worker.  It offers its channel to the      *)
(* pool, gets a peer, fetches the metadata of the peer's infohash piece by *)
(* piece over TCP and hands the torrent, or the bad peer, to a callback.   *)
(*                                                                         *)
(* The peer is the environment.  A message is what fetchMetadata can tell  *)
(* about it; a piece is its length and whether its bytes are the right     *)
(* ones.  An honest peer keeps to the protocol and answers every request;  *)
(* another one may send anything in any order.  BEP 10 lets a peer send    *)
(* its extended handshake again, which the worker refuses: an honest peer  *)
(* here is one that does not.                                              *)
(***************************************************************************)
EXTENDS Integers

CONSTANTS
  BlockSize,        \* 2^14
  MaxMetadataSize,  \* 1000 blocks
  Sizes,            \* metadata sizes of the torrents that peers have
  Claims,           \* metadata_size values that a peer may announce
  Pieces, Lengths   \* piece numbers and lengths that a peer may send

ASSUME FetchAssumption ==
  /\ BlockSize \in Nat /\ BlockSize > 0
  /\ MaxMetadataSize \in Nat
  /\ Sizes \subseteq Nat \ {0}
  /\ Claims \subseteq Int /\ Pieces \subseteq Int /\ Lengths \subseteq Nat

VARIABLES
  pc,         \* "ready", "dial", "hello", "loop", "ok" (fetchMetadata has
              \* returned the metadata), "crashed"
  peer,       \* [honest, size, meta]: the peer and the torrent it announced
  silent,     \* the peer will send nothing any more
  size,       \* metadataSize
  total,      \* totalPieces
  started,    \* pieces != nil
  pieces,     \* piece number -> [len, right]
  asked,      \* requestPieces: requests sent
  answered,   \* the honest peer: pieces sent
  result      \* how the last job ended: "none", "new", "bad", "dropped"

vars == <<pc, peer, silent, size, total, started, pieces, asked, answered, result>>

Missing == [len |-> 0, right |-> FALSE]
NoPieces == [k \in 0 .. -1 |-> Missing]

Peers == [honest : BOOLEAN, size : Sizes, meta : {"torrent", "undecodable", "misfit"}]

Init ==
  /\ pc = "ready"
  /\ peer \in Peers
  /\ silent = FALSE
  /\ size = 0 /\ total = 0 /\ started = FALSE /\ pieces = NoPieces
  /\ asked = 0 /\ answered = {}
  /\ result = "none"

-----------------------------------------------------------------------------
(***************************************************************************)
(* Run: the ends of a job                                                  *)
(***************************************************************************)
EndJob(r) ==
  /\ pc' = "ready"
  /\ result' = r
  /\ silent' = FALSE
  /\ size' = 0 /\ total' = 0 /\ started' = FALSE /\ pieces' = NoPieces
  /\ asked' = 0 /\ answered' = {}
  /\ UNCHANGED peer

(* fetchMetadata returns an error: OnBadPeer. *)
BadPeer == EndJob("bad")

(* fetchMetadata panics: recover makes it return no error and no metadata, *)
(* whose hash does not match.  Nobody is told.                             *)
Recovered == EndJob("dropped")

(* Signal we are ready for work, and get some. *)
GetWork(p) ==
  /\ pc = "ready"
  /\ pc' = "dial"
  /\ peer' = p
  /\ UNCHANGED <<silent, size, total, started, pieces, asked, answered, result>>

Goto(l) == pc' = l /\ UNCHANGED <<peer, silent, size, total, started, pieces, asked, answered, result>>
Dial == pc = "dial" /\ Goto("hello")
DialFails == pc = "dial" /\ ~peer.honest /\ BadPeer

-----------------------------------------------------------------------------
(***************************************************************************)
(* fetchMetadata                                                           *)
(***************************************************************************)

(* Both handshakes went well. *)
Hello == pc = "hello" /\ ~silent /\ Goto("loop")
(* Wrong prefix, no extension bit, or a failed write. *)
BadHello == pc = "hello" /\ ~peer.honest /\ BadPeer

\* Mutant of Timeout: the read is tried again.
TimeoutRetry == pc \in {"hello", "loop"} /\ silent /\ UNCHANGED vars

(* read: nothing within TCPTimeout, or the connection is closed. *)
Timeout == pc \in {"hello", "loop"} /\ silent /\ BadPeer

FallSilent ==
  /\ pc \in {"hello", "loop"} /\ ~peer.honest /\ ~silent
  /\ silent' = TRUE
  /\ UNCHANGED <<pc, peer, size, total, started, pieces, asked, answered, result>>

Listening == pc = "loop" /\ ~silent

(* Length 0, or a message that is not extended: dropped. *)
IgnoredMessage == Listening /\ UNCHANGED vars

(* An extended message that is too short, does not decode, or lacks a key  *)
(* that is asked for.                                                      *)
MalformedMessage == Listening /\ ~peer.honest /\ BadPeer

(* Go's integer division truncates towards zero. *)
Quo(a, b) == IF a >= 0 THEN a \div b ELSE -((-a) \div b)
Rem(a, b) == IF a >= 0 THEN a % b ELSE -((-a) % b)

TotalPieces(s) == Quo(s, BlockSize) + (IF Rem(s, BlockSize) # 0 THEN 1 ELSE 0)

(* The extended handshake (extendedID 0): getUTMetaSize, then              *)
(* requestPieces in a goroutine of its own.                                *)
ExtHandshake(s) ==
  /\ Listening
  /\ peer.honest => s = peer.size /\ ~started
  /\ IF started \/ s > MaxMetadataSize THEN BadPeer
     ELSE IF TotalPieces(s) < 0 THEN Recovered      \* make([][]byte, -1)
     ELSE /\ size' = s
          /\ total' = TotalPieces(s)
          /\ started' = TRUE
          /\ pieces' = [k \in 0 .. TotalPieces(s) - 1 |-> Missing]
          /\ UNCHANGED <<pc, peer, silent, asked, answered, result>>

\* Mutant of Ask: one request too many.
AskBeyond ==
  /\ pc = "loop" /\ started
  /\ asked <= total
  /\ asked' = asked + 1
  /\ UNCHANGED <<pc, peer, silent, size, total, started, pieces, answered, result>>

\* Mutant of Ask: the last piece is not requested.
AskShort ==
  /\ pc = "loop" /\ started
  /\ asked < total - 1
  /\ asked' = asked + 1
  /\ UNCHANGED <<pc, peer, silent, size, total, started, pieces, answered, result>>

(* requestPieces: the next request goes out. *)
Ask ==
  /\ pc = "loop" /\ started
  /\ asked < total
  /\ asked' = asked + 1
  /\ UNCHANGED <<pc, peer, silent, size, total, started, pieces, answered, result>>

(* A request or a reject: only before the handshake does it matter. *)
NotData ==
  /\ Listening /\ ~peer.honest
  /\ IF ~started THEN BadPeer ELSE UNCHANGED vars

IsDone(ps) == \A k \in DOMAIN ps : ps[k].len # 0

\* Mutant of WrongLength: any last piece will do.
WrongLengthFull(piece, len) ==
  total > 1 /\ piece # total - 1 /\ len # BlockSize

\* Mutant of WrongLength: the last of several pieces must be full too.
WrongLengthStrict(piece, len) ==
  \/ total > 1 /\ len # BlockSize
  \/ piece = total - 1 /\ len # Rem(size, BlockSize)

(* Not last piece? should be full block.  Last piece needs to equal        *)
(* remainder.                                                              *)
WrongLength(piece, len) ==
  \/ total > 1 /\ piece # total - 1 /\ len # BlockSize
  \/ piece = total - 1 /\ len # Rem(size, BlockSize)

(* A data message, as fetchMetadata treats it. *)
Store(piece, len, right) ==
  LET ps == [pieces EXCEPT ![piece] = [len |-> len, right |-> right]]
  IN  IF ~started \/ WrongLength(piece, len) THEN BadPeer
      ELSE IF piece \notin 0 .. total - 1 THEN Recovered   \* out of range
      ELSE /\ pieces' = ps
           /\ pc' = IF IsDone(ps) THEN "ok" ELSE "loop"
           /\ UNCHANGED <<peer, silent, size, total, started, asked, result>>

Data(piece, len, right) ==
  /\ Listening /\ ~peer.honest
  /\ Store(piece, len, right)
  /\ answered' = IF pc' = "ready" THEN {} ELSE answered

(* An honest peer sends the pieces it was asked for, in any order: full    *)
(* blocks and what is left.                                                *)
PieceLength(k) == IF (k + 1) * BlockSize <= peer.size THEN BlockSize ELSE peer.size % BlockSize
Answer(k) ==
  /\ Listening /\ peer.honest /\ started
  /\ k \in (0 .. asked - 1) \ answered
  /\ Store(k, PieceLength(k), TRUE)
  /\ answered' = IF pc' = "ready" THEN {} ELSE answered \cup {k}

-----------------------------------------------------------------------------
(* TorrentFromMetadata: the hash, then the dictionary.  A file entry of an *)
(* unexpected type panics outside of fetchMetadata's recover.              *)
HashMatches == size = peer.size /\ \A k \in DOMAIN pieces : pieces[k].right

Load ==
  /\ pc = "ok"
  /\ CASE ~HashMatches -> EndJob("dropped")
       [] HashMatches /\ peer.meta = "undecodable" -> EndJob("dropped")
       [] HashMatches /\ peer.meta = "torrent" -> EndJob("new")
       [] HashMatches /\ peer.meta = "misfit" ->
            pc' = "crashed" /\ UNCHANGED <<peer, silent, size, total, started, pieces, asked, answered, result>>

Crashed == pc = "crashed" /\ UNCHANGED vars

Next ==
  \/ \E p \in Peers : GetWork(p)
  \/ Dial \/ DialFails \/ Hello \/ BadHello \/ Timeout \/ FallSilent
  \/ IgnoredMessage \/ MalformedMessage \/ NotData
  \/ \E s \in Claims : ExtHandshake(s)
  \/ Ask
  \/ \E k \in Pieces, l \in Lengths, r \in BOOLEAN : Data(k, l, r)
  \/ \E k \in Pieces : Answer(k)
  \/ Load \/ Crashed

Spec == Init /\ [][Next]_vars

(***************************************************************************)
(* The worker goroutine and requestPieces run, deadlines expire, and an    *)
(* honest peer says what it has to say.                                    *)
(***************************************************************************)
Fairness ==
  /\ WF_vars(Dial) /\ WF_vars(Hello) /\ WF_vars(Timeout) /\ WF_vars(Ask) /\ WF_vars(Load)
  /\ \A s \in Claims : WF_vars(peer.honest /\ ExtHandshake(s))
  /\ \A k \in Pieces : WF_vars(Answer(k))

LiveSpec == Spec /\ Fairness

-----------------------------------------------------------------------------
(***************************************************************************)
(* Properties                                                              *)
(***************************************************************************)

TypeOK ==
  /\ pc \in {"ready", "dial", "hello", "loop", "ok", "crashed"}
  /\ peer \in Peers
  /\ silent \in BOOLEAN
  /\ size \in Claims \cup {0}
  /\ total \in Nat
  /\ started \in BOOLEAN
  /\ pieces \in [0 .. total - 1 -> [len : Nat, right : BOOLEAN]]
  /\ asked \in 0 .. total
  /\ answered \subseteq Pieces
  /\ result \in {"none", "new", "bad", "dropped"}

(***************************************************************************)
(* Whatever the peer announced and however it ordered and repeated its     *)
(* pieces, the metadata that fetchMetadata returns is as long as           *)
(* announced: every block but the last is full and the last is the rest.   *)
(***************************************************************************)
ReturnsWholeMetadata ==
  pc = "ok" =>
    /\ size > 0 /\ total > 0
    /\ \A k \in 0 .. total - 2 : pieces[k].len = BlockSize
    /\ (total - 1) * BlockSize + pieces[total - 1].len = size

(***************************************************************************)
(* "Last piece needs to equal remainder" (worker.go:239): an honest peer   *)
(* that answered every request is not reported as bad or dropped.  Sizes   *)
(* in the run that checks it are no multiples of BlockSize.                *)
(***************************************************************************)
HonestNotRejected ==
  [][pc = "loop" /\ peer.honest => pc' # "ready"]_vars

(***************************************************************************)
(* Every fetch from an honest peer ends with the metadata.                 *)
(***************************************************************************)
HonestFetched == pc = "dial" /\ peer.honest ~> pc = "ok"

(***************************************************************************)
(* Every job ends and the worker is ready again, unless it is held for     *)
(* ever by a peer that keeps talking and breaks the protocol: there is a   *)
(* deadline for every read and none for the job.                           *)
(***************************************************************************)
HeldOnlyByTalk ==
  []<>(pc = "ready") \/ <>(pc = "crashed") \/ <>[](pc = "loop" /\ ~silent /\ ~peer.honest)
=============================================================================
