--------------------------- MODULE MCSqliteEngine ---------------------------
(* The SQLite back end on small instances; the .cfg files give their size. *)
EXTENDS SqliteEngine
=============================================================================
