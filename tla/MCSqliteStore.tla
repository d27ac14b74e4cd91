--------------------------- MODULE MCSqliteStore ---------------------------
(* Small instances of SqliteStore for TLC.                                 *)
EXTENDS SqliteStore

MCTagListsShort == {<< >>, <<"hd">>}
=============================================================================
