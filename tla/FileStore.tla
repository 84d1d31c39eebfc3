----------------------------- MODULE FileStore -----------------------------
(***************************************************************************)
(* server/src/files: a project's directory on the server, as its writers   *)
(* see it.  A write is two calls with an await between them, mkdir of the  *)
(* directories above the path and then writeFile; a removal is one.  The   *)
(* actions change `disk` alone; each says when the file system refuses it. *)
(***************************************************************************)
EXTENDS Naturals

CONSTANTS
  Path,      \* the project-relative paths that occur
  Above,     \* <<d, p>>: d is one of the directories p lies in
  Content    \* contents of a file; a hash stands for its content

None == "none"   \* nothing at the path
Dir  == "dir"    \* a directory, empty or not

ASSUME StoreAssumption ==
  /\ Above \subseteq Path \X Path
  /\ \A p \in Path : <<p, p>> \notin Above
  /\ \A p, q, r \in Path :
       <<p, q>> \in Above /\ <<q, r>> \in Above => <<p, r>> \in Above
  /\ None \notin Content
  /\ Dir \notin Content

VARIABLE disk

Files == [Path -> Content \cup {None}]   \* a set of files: a manifest, a tree
Store == [Path -> Content \cup {None, Dir}]

(* A path lies in directories.                                             *)
StoreOK ==
  /\ disk \in Store
  /\ \A p, d \in Path : <<d, p>> \in Above /\ disk[p] # None => disk[d] = Dir

(* What a walk of the store finds at p: empty directories leave no trace.  *)
FileAt(p) == IF disk[p] \in Content THEN disk[p] ELSE None

DirsOf(p) == {d \in Path : <<d, p>> \in Above}
Below(p)  == {q \in Path : <<p, q>> \in Above}

-----------------------------------------------------------------------------
(* ensureDir(dirname(p)): refused if a file is in the way.                 *)
CanMkdir(p) == \A d \in DirsOf(p) : disk[d] \notin Content

Mkdir(p) ==
  /\ CanMkdir(p)
  /\ disk' = [q \in Path |-> IF q \in DirsOf(p) THEN Dir ELSE disk[q]]

(* writeFile: refused if the path is a directory, or its own is gone.      *)
CanWrite(p) == disk[p] # Dir /\ \A d \in DirsOf(p) : disk[d] = Dir

WriteFile(p, content) ==
  /\ CanWrite(p)
  /\ disk' = [disk EXCEPT ![p] = content]

(* rm with recursive and force: what is not there is no error, but a file  *)
(* where a directory of the path should be is.                             *)
CanRemove(p) == \A d \in DirsOf(p) : disk[d] \notin Content

Remove(p) ==
  /\ CanRemove(p)
  /\ disk' = [q \in Path |-> IF q = p \/ q \in Below(p) THEN None ELSE disk[q]]

=============================================================================
