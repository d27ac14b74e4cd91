-------------------------- MODULE MCMetadataFetch --------------------------
(* Small instances of MetadataFetch for TLC: blocks of two bytes.          *)
EXTENDS MetadataFetch

(* From two blocks below zero (where make panics) past the limit. *)
MCClaims == -5 .. 6
MCPieces == -1 .. 3
=============================================================================
