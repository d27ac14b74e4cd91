----------------------------- MODULE Metainfo ------------------------------
(***************************************************************************)
(* models/torrent.go: TorrentFromMetadata, once the hash has matched.  The *)
(* info dictionary is that of Krpc; a file is a value too, <<"map", dict>> *)
(* if it is what it should be, and a path a list of values.  Unchecked     *)
(* assertions make it panic, in the worker's goroutine and outside the     *)
(* recover of fetchMetadata.                                               *)
(***************************************************************************)
EXTENDS Krpc, FiniteSetsExt

FilePanics(item) ==
  \/ item[1] # "map"
  \/ ~Has(item[2], "path", "list")
  \/ \E i \in DOMAIN Get(item[2], "path") : Get(item[2], "path")[i][1] # "string"

FileFails(item) == FilePanics(item) \/ ~Has(item[2], "length", "int")

Refused == [status |-> "error", files |-> 0, size |-> 0]
Panic == [status |-> "panic", files |-> 0, size |-> 0]

\* Mutant of TotalSize: every file sets the size.
TotalSizeLast(files) ==
  IF files = << >> THEN 0 ELSE Get(files[Len(files)][2], "length")

(* Sizes are Go ints; the totals of the model stay below 2^63. *)
TotalSize(files) ==
  LET size[i \in 0 .. Len(files)] ==
        IF i = 0 THEN 0 ELSE size[i - 1] + Get(files[i][2], "length")
  IN  size[Len(files)]

(* The first file that cannot be read decides. *)
FromFiles(files) ==
  LET bad == {i \in DOMAIN files : FileFails(files[i])}
  IN  CASE bad = {} -> [status |-> "ok", files |-> Len(files), size |-> TotalSize(files)]
        [] bad # {} /\ FilePanics(files[Min(bad)]) -> Panic
        [] OTHER -> Refused

TorrentFromMetadata(info) ==
  CASE ~Has(info, "name", "string") -> Refused
    [] Has(info, "name", "string") /\ Has(info, "files", "list") -> FromFiles(Get(info, "files"))
    [] Has(info, "name", "string") /\ ~Has(info, "files", "list") /\ Has(info, "length", "int") ->
         [status |-> "ok", files |-> 0, size |-> Get(info, "length")]
    [] OTHER -> Refused
=============================================================================
