---------------------------- MODULE MCSyncAgent ----------------------------
(* A file, and one below a directory of the same name.                     *)
EXTENDS SyncAgent

MCPath  == {"a", "a/b"}
MCAbove == {<<"a", "a/b">>}
=============================================================================
