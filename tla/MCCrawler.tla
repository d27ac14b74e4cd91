----------------------------- MODULE MCCrawler -----------------------------
(* Instances of Crawler for TLC: the torrent of infohash 2 has a file that *)
(* matches the tag to skip.                                                *)
EXTENDS Crawler

MCMatch == [tag \in Tag |-> {"file"}]
MCTexts == [ih \in Infohash |-> IF ih = 2 THEN {"name", "file"} ELSE {"name"}]
=============================================================================
