---------------------------- MODULE MCGitService ----------------------------
(* A file, and one below a directory of the same name.                     *)
EXTENDS GitService, TLC

MCPath  == {"a", "a/b"}
MCAbove == {<<"a", "a/b">>}

(* Requests are interchangeable.                                           *)
Symmetry == Permutations(Request)
=============================================================================
