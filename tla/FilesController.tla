-------------------------- MODULE FilesController --------------------------
(***************************************************************************)
(* server/src/files/files.controller.ts: the phone's editor saves and      *)
(* deletes files of the store over HTTP.  It knows of no manifest and no   *)
(* repository; the components that read the store compose with it.         *)
(***************************************************************************)
EXTENDS FileStore

CONSTANT MaxSaves   \* bound: PUT and DELETE requests

ASSUME FilesAssumption == MaxSaves \in Nat

VARIABLES
  saving,  \* PUT requests between mkdir and writeFile: <<path, content>>
  saves

FilesTypeOK ==
  /\ saving \subseteq Path \X Content
  /\ saves \in 0..MaxSaves

OneMore == saves < MaxSaves /\ saves' = saves + 1

(* writeText: mkdir, refused if a file is in the way, then writeFile.      *)
Save(p, content) ==
  /\ OneMore
  /\ Mkdir(p)
  /\ saving' = saving \cup {<<p, content>>}

SaveWrites(w) ==
  /\ w \in saving
  /\ WriteFile(w[1], w[2])
  /\ saving' = saving \ {w}
  /\ UNCHANGED saves

(* writeFile is refused, or fails.                                         *)
SaveThrows(w) ==
  /\ w \in saving
  /\ saving' = saving \ {w}
  /\ UNCHANGED <<disk, saves>>

Delete(p) ==
  /\ OneMore
  /\ Remove(p)
  /\ UNCHANGED saving

=============================================================================
