--------------------------- MODULE MCRoutingTable ---------------------------
(* Small instances of RoutingTable for TLC.                                *)
EXTENDS RoutingTable, TLC

(* Ids are named by their distance from self; "me" is self's own id. *)
MCDist == "far" :> 0 @@ "mid" :> 3 @@ "near" :> 7 @@ "best" :> 11 @@ "me" :> 160

(* Six addresses for a table of five: with six items the element that      *)
(* takes the evicted one's place can come from the other half of the heap  *)
(* and rises.  Two ties, one address with two ids, and a node that claims  *)
(* the table's own id.                                                     *)
MCNode ==
  { [addr |-> "a", id |-> "far"],  [addr |-> "b", id |-> "mid"],
    [addr |-> "c", id |-> "near"], [addr |-> "d", id |-> "best"],
    [addr |-> "e", id |-> "near"], [addr |-> "f", id |-> "mid"],
    [addr |-> "f", id |-> "best"], [addr |-> "f", id |-> "me"] }
=============================================================================
