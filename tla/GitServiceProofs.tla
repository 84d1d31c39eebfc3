-------------------------- MODULE GitServiceProofs --------------------------
(***************************************************************************)
(* What TLAPS proves of the git requests of a project, for any number of   *)
(* requests, any paths and contents, and however often the editor saves    *)
(* and the server dies.                                                    *)
(***************************************************************************)
EXTENDS GitService, TLAPS

-----------------------------------------------------------------------------
(* The file store: none of its operations leaves anything but a tree.      *)

LEMMA ParentsOf ==
  ASSUME NEW p \in Path, NEW d \in Path
  PROVE  /\ d \in DirsOf(p) <=> <<d, p>> \in Above
         /\ d \in Below(p) <=> <<p, d>> \in Above
BY DEF DirsOf, Below

LEMMA MkdirKeepsStore ==
  ASSUME StoreOK, NEW p \in Path, Mkdir(p)
  PROVE  StoreOK'
<1>1. disk' \in Store
  BY DEF StoreOK, Mkdir, Store
<1>2. ASSUME NEW q \in Path, NEW d \in Path, <<d, q>> \in Above, disk'[q] # None
      PROVE  disk'[d] = Dir
  <2>1. CASE q \in DirsOf(p)
    BY <1>2, <2>1, ParentsOf, StoreAssumption DEF Mkdir
  <2>2. CASE q \notin DirsOf(p)
    BY <1>2, <2>2 DEF Mkdir, StoreOK
  <2>3. QED
    BY <2>1, <2>2
<1>3. QED
  BY <1>1, <1>2 DEF StoreOK

LEMMA WriteKeepsStore ==
  ASSUME StoreOK, NEW p \in Path, NEW content \in Content, WriteFile(p, content)
  PROVE  StoreOK'
<1>1. disk' \in Store
  BY DEF StoreOK, WriteFile, Store
<1>2. ASSUME NEW q \in Path, NEW d \in Path, <<d, q>> \in Above, disk'[q] # None
      PROVE  disk'[d] = Dir
  <2>1. d # q
    BY <1>2, StoreAssumption
  <2>2. CASE q = p
    BY <1>2, <2>1, <2>2, ParentsOf DEF WriteFile, CanWrite, StoreOK, Store
  <2>3. CASE q # p
    BY <1>2, <2>3 DEF WriteFile, CanWrite, StoreOK, Store
  <2>4. QED
    BY <2>2, <2>3
<1>3. QED
  BY <1>1, <1>2 DEF StoreOK

LEMMA RemoveKeepsStore ==
  ASSUME StoreOK, NEW p \in Path, Remove(p)
  PROVE  StoreOK'
<1>1. disk' \in Store
  BY DEF StoreOK, Remove, Store
<1>2. ASSUME NEW q \in Path, NEW d \in Path, <<d, q>> \in Above, disk'[q] # None
      PROVE  disk'[d] = Dir
  <2>1. q # p /\ q \notin Below(p) /\ disk[q] # None
    BY <1>2 DEF Remove
  <2>2. d # p /\ d \notin Below(p)
    BY <1>2, <2>1, ParentsOf, StoreAssumption
  <2>3. QED
    BY <1>2, <2>1, <2>2 DEF Remove, StoreOK
<1>3. QED
  BY <1>1, <1>2 DEF StoreOK

LEMMA StoreStutter ==
  ASSUME StoreOK, UNCHANGED disk
  PROVE  StoreOK'
BY DEF StoreOK

(* The editor's requests leave the store a tree.                           *)
LEMMA EditorKeepsStore ==
  ASSUME StoreOK, FilesTypeOK,
         \/ \E p \in Path, content \in Content : Save(p, content)
         \/ \E w \in saving : SaveWrites(w) \/ SaveThrows(w)
         \/ \E p \in Path : Delete(p)
  PROVE  StoreOK' /\ FilesTypeOK'
<1>1. ASSUME NEW p \in Path, NEW content \in Content, Save(p, content)
      PROVE  StoreOK' /\ FilesTypeOK'
  BY <1>1, MkdirKeepsStore, FilesAssumption DEF Save, OneMore, FilesTypeOK
<1>2. ASSUME NEW w \in saving, SaveWrites(w)
      PROVE  StoreOK' /\ FilesTypeOK'
  <2>1. w[1] \in Path /\ w[2] \in Content
    BY DEF FilesTypeOK
  <2>2. StoreOK'
    BY <1>2, <2>1, WriteKeepsStore DEF SaveWrites
  <2>3. QED
    BY <1>2, <2>2 DEF SaveWrites, FilesTypeOK
<1>3. ASSUME NEW w \in saving, SaveThrows(w)
      PROVE  StoreOK' /\ FilesTypeOK'
  BY <1>3, StoreStutter DEF SaveThrows, FilesTypeOK
<1>4. ASSUME NEW p \in Path, Delete(p)
      PROVE  StoreOK' /\ FilesTypeOK'
  BY <1>4, RemoveKeepsStore, FilesAssumption DEF Delete, OneMore, FilesTypeOK
<1>5. QED
  BY <1>1, <1>2, <1>3, <1>4

-----------------------------------------------------------------------------
(* The requests                                                            *)

PcOK == pc \in [Request -> Pc]

(* A request goes from one call to its next one.                           *)
LEMMA GoesStep ==
  ASSUME PcOK, NEW r \in Request, NEW from, NEW to \in Pc, Goes(r, from, to)
  PROVE  /\ PcOK' /\ pc[r] = from /\ pc'[r] = to
         /\ \A q \in Request \ {r} : pc'[q] = pc[q]
BY DEF PcOK, Goes

(* The calls of a request r, but for the ones its add is made of: what     *)
(* they change besides where r waits.                                      *)
Calls(r) ==
  \/ Arrives(r) \/ Ends(r) \/ CheckIsRepo(r) \/ GitInit(r) \/ InitFails(r)
  \/ AddConfig(r) \/ AddConfigSwallowed(r) \/ GetRemotes(r) \/ WriteRemote(r) \/ RemoteRefused(r)
  \/ Commit(r) \/ CommitRefused(r)

LEMMA CallStep ==
  ASSUME PcOK, NEW r \in Request, Calls(r)
  PROVE  /\ PcOK'
         /\ UNCHANGED <<disk, saving, saves, index, stale, adding>>
         /\ \A q \in Request \ {r} : pc'[q] = pc[q] /\ seen'[q] = seen[q]
         /\ pc[r] # "adding" /\ pc'[r] \notin {"adding", "commit"}
         /\ pc'[r] # pc[r]
         /\ \/ UNCHANGED seen /\ UnderWay(r)
            \/ /\ pc[r] = "idle"
               /\ seen' = [seen EXCEPT ![r] = [p \in Path |-> {FileAt(p)}]]
<1>1. CASE Arrives(r)
  <2>1. PICK to \in {"checkInit", "getRemotes", "add", "failed"} : Begins(r, to)
    BY <1>1 DEF Arrives
  <2>2. to \in Pc
    BY DEF Pc
  <2>3. QED
    BY <2>1, <2>2, GoesStep DEF Begins, objects, PcOK
<1>2. CASE Calls(r) /\ ~Arrives(r)
  <2>1. PICK from \in Pc, to \in Pc :
          /\ Goes(r, from, to)
          /\ from \notin {"idle", "done", "failed", "adding"}
          /\ to \notin {"adding", "commit"} /\ to # from
    BY <1>2
    DEF Calls, Ends, CheckIsRepo, GitInit, InitThen, InitFails, AddConfig, AddsConfig, AddConfigSwallowed,
        GetRemotes, WriteRemote, RemoteRefused, Commit, CommitRefused, Pc
  <2>2. UNCHANGED <<disk, saving, saves, seen, index, stale, adding>>
    BY <1>2
    DEF Calls, Ends, CheckIsRepo, GitInit, InitThen, InitFails, AddConfig, AddsConfig, AddConfigSwallowed,
        GetRemotes, WriteRemote, RemoteRefused, Commit, CommitRefused, files, objects
  <2>3. QED
    BY <2>1, <2>2, GoesStep DEF UnderWay
<1>3. QED
  BY <1>1, <1>2

LEMMA NextCases ==
  ASSUME Next
  PROVE  \/ Edits \/ ServerDies
         \/ \E r \in Request :
              Calls(r) \/ AddStarts(r) \/ AddEnds(r) \/ \E p \in Path : AddPath(r, p)
BY DEF Next, Calls

-----------------------------------------------------------------------------
(* Types                                                                   *)

Seens == [Request -> [Path -> SUBSET (Content \cup {None})]]

LEMMA FileIsContent ==
  ASSUME StoreOK, NEW p \in Path
  PROVE  FileAt(p) \in Content \cup {None}
BY DEF FileAt

LEMMA EditsStep ==
  ASSUME TypeOK, Edits
  PROVE  StoreOK' /\ FilesTypeOK' /\ seen' \in Seens
<1>1. StoreOK' /\ FilesTypeOK'
  BY EditorKeepsStore DEF Edits, TypeOK
<1>2. \A p \in Path : FileAt(p)' \in Content \cup {None}
  BY <1>1 DEF FileAt
<1>3. QED
  BY <1>1, <1>2 DEF Edits, Watch, TypeOK, Seens

(* A file that is looked at takes the place of what is above and below it. *)
LEMMA AddPathTree ==
  ASSUME TypeOK, NEW r \in Request, NEW p \in Path, AddPath(r, p), IsTree(staged[r])
  PROVE  /\ staged' = [staged EXCEPT ![r] = staged'[r]]
         /\ staged'[r] \in Files /\ IsTree(staged'[r])
         /\ staged'[r][p] = FileAt(p)
         /\ \A q \in Path \ {p} :
              \/ staged'[r][q] = staged[r][q]
              \/ staged'[r][q] = None /\ FileAt(p) # None /\ q \in DirsOf(p) \cup Below(p)
<1>1. /\ staged' = [staged EXCEPT ![r] = staged'[r]]
      /\ \A q \in Path : staged'[r][q] =
           IF q = p THEN FileAt(p)
           ELSE IF FileAt(p) # None /\ q \in DirsOf(p) \cup Below(p) THEN None
           ELSE staged[r][q]
      /\ staged'[r] = [q \in Path |-> staged'[r][q]]
  BY DEF AddPath, TypeOK
<1>2. staged'[r] \in Files
  BY <1>1, FileIsContent DEF TypeOK, Files
<1>3. ASSUME NEW q \in Path, staged'[r][q] # None, NEW d \in DirsOf(q)
      PROVE  staged'[r][d] = None
  <2>1. d \in Path /\ d # q /\ q \in Below(d)
    BY StoreAssumption DEF DirsOf, Below
  <2>2. CASE q = p
    BY <1>1, <1>3, <2>1, <2>2
  <2>3. CASE q # p
    <3>1. staged[r][q] # None /\ staged[r][d] = None
      BY <1>1, <1>3, <2>1, <2>3 DEF IsTree
    <3>2. CASE d = p
      BY <1>1, <1>3, <2>1, <2>3, <3>2
    <3>3. QED
      BY <1>1, <2>1, <3>1, <3>2
  <2>4. QED
    BY <2>2, <2>3
<1>4. QED
  BY <1>1, <1>2, <1>3 DEF IsTree

LEMMA NoFilesTree == NoFiles \in Files /\ IsTree(NoFiles)
BY DEF NoFiles, Files, IsTree, DirsOf

LEMMA TypesStep ==
  ASSUME TypeOK, StagedTrees, [Next]_gitvars
  PROVE  TypeOK' /\ StagedTrees'
<1>0. /\ PcOK /\ MaxFaults \in Nat
      /\ IsTree(index) /\ index \in Files
  BY GitAssumption DEF TypeOK, PcOK
<1>1. CASE Edits
  <2>1. UNCHANGED <<config, objects, adding, pc, faults>>
    BY <1>1 DEF Edits
  <2>2. QED
    BY <1>1, <2>1, EditsStep
    DEF TypeOK, StagedTrees, Seens, config, objects, adding
<1>2. ASSUME NEW r \in Request, Calls(r)
      PROVE  TypeOK' /\ StagedTrees'
  <2>1. PcOK' /\ UNCHANGED <<disk, saving, saves, index, stale, adding>>
    BY <1>0, <1>2, CallStep
  <2>2. StoreOK' /\ FilesTypeOK'
    BY <2>1, StoreStutter DEF TypeOK, FilesTypeOK
  <2>3. seen' \in Seens
    <3>1. [p \in Path |-> {FileAt(p)}] \in [Path -> SUBSET (Content \cup {None})]
      BY FileIsContent DEF TypeOK
    <3>2. QED
      BY <1>0, <1>2, <3>1, CallStep DEF TypeOK, Seens
  <2>4. head' = index \/ head' = head
    <3>1. CASE Commit(r)
      BY <3>1 DEF Commit
    <3>2. CASE Arrives(r)
      BY <3>2 DEF Arrives, Begins, objects
    <3>3. CASE ~Commit(r) /\ ~Arrives(r)
      BY <1>2, <3>3
      DEF Calls, Ends, CheckIsRepo, GitInit, InitThen, InitFails, AddConfig, AddsConfig, AddConfigSwallowed,
          GetRemotes, WriteRemote, RemoteRefused, CommitRefused, objects
    <3>4. QED
      BY <3>1, <3>2, <3>3
  <2>5. /\ repo' \in BOOLEAN /\ swallowed' \subseteq Key
        /\ origin' \in Request \cup {NoRequest} /\ faults' \in 0..MaxFaults
    <3>1. repo' \in BOOLEAN
      BY <1>2
      DEF Calls, Arrives, Begins, Ends, CheckIsRepo, GitInit, InitThen, InitFails, AddConfig, AddsConfig,
          AddConfigSwallowed, GetRemotes, WriteRemote, RemoteRefused, Commit, CommitRefused,
          config, TypeOK
    <3>2. swallowed' \subseteq Key
      BY <1>2
      DEF Calls, Arrives, Begins, Ends, CheckIsRepo, GitInit, InitThen, InitFails, AddConfig, AddsConfig,
          AddConfigSwallowed, GetRemotes, WriteRemote, RemoteRefused, Commit, CommitRefused,
          config, TypeOK, Key
    <3>3. origin' \in Request \cup {NoRequest}
      BY <1>2
      DEF Calls, Arrives, Begins, Ends, CheckIsRepo, GitInit, InitThen, InitFails, AddConfig, AddsConfig,
          AddConfigSwallowed, GetRemotes, WriteRemote, RemoteRefused, Commit, CommitRefused,
          config, TypeOK
    <3>4. faults' \in 0..MaxFaults
      <4>1. faults' = faults \/ Fault
        BY <1>2
        DEF Calls, Arrives, Begins, Ends, CheckIsRepo, GitInit, InitThen, InitFails, AddConfig, AddsConfig,
          AddConfigSwallowed, GetRemotes, WriteRemote, RemoteRefused, Commit, CommitRefused,
          config, Refused
      <4>2. QED
        BY <1>0, <4>1 DEF Fault, TypeOK
    <3>5. QED
      BY <3>1, <3>2, <3>3, <3>4
  <2>6. identity' \subseteq Key
    BY <1>2
    DEF Calls, Arrives, Begins, Ends, CheckIsRepo, GitInit, InitThen, InitFails, AddConfig, AddsConfig,
        AddConfigSwallowed, GetRemotes, WriteRemote, RemoteRefused, Commit, CommitRefused,
        config, TypeOK, Key
  <2>7. QED
    BY <2>1, <2>2, <2>3, <2>4, <2>5, <2>6 DEF TypeOK, PcOK, Seens, StagedTrees, adding
<1>3. ASSUME NEW r \in Request, AddStarts(r)
      PROVE  TypeOK' /\ StagedTrees'
  <2>1. PcOK'
    BY <1>0, <1>3, GoesStep DEF AddStarts, Pc
  <2>2. /\ UNCHANGED <<files, config, objects, faults>>
        /\ todo' = [todo EXCEPT ![r] = Path] /\ staged' = [staged EXCEPT ![r] = index]
    BY <1>3 DEF AddStarts
  <2>3. todo' \in [Request -> SUBSET Path] /\ staged' \in [Request -> Files] /\ StagedTrees'
    BY <1>0, <2>2 DEF TypeOK, StagedTrees
  <2>4. QED
    BY <2>1, <2>2, <2>3
    DEF TypeOK, StoreOK, FilesTypeOK, PcOK, files, config, objects
<1>4. ASSUME NEW r \in Request, NEW p \in Path, AddPath(r, p)
      PROVE  TypeOK' /\ StagedTrees'
  <2>1. /\ UNCHANGED <<files, config, objects, pc, faults>>
        /\ todo' \in [Request -> SUBSET Path]
    BY <1>4 DEF AddPath, TypeOK
  <2>2. staged' \in [Request -> Files] /\ StagedTrees'
    BY <1>4, AddPathTree DEF TypeOK, StagedTrees
  <2>3. QED
    BY <2>1, <2>2 DEF TypeOK, StoreOK, FilesTypeOK, files, config, objects
<1>5. ASSUME NEW r \in Request, AddEnds(r)
      PROVE  TypeOK' /\ StagedTrees'
  <2>1. PcOK'
    BY <1>0, <1>5, GoesStep DEF AddEnds, AddWrites, Pc
  <2>2. /\ UNCHANGED <<files, config, head, stale, adding, faults>>
        /\ index' = staged[r]
    BY <1>5 DEF AddEnds, AddWrites
  <2>3. index' \in Files /\ IsTree(index')
    BY <2>2 DEF TypeOK, StagedTrees
  <2>4. QED
    BY <2>1, <2>2, <2>3
    DEF TypeOK, StoreOK, FilesTypeOK, StagedTrees, PcOK, files, config, adding
<1>6. CASE ServerDies
  <2>1. PcOK'
    BY <1>0, <1>6 DEF ServerDies, PcOK, Pc
  <2>2. StoreOK' /\ FilesTypeOK'
    BY <1>6 DEF ServerDies, TypeOK, StoreOK, FilesTypeOK
  <2>3. faults' \in 0..MaxFaults
    BY <1>0, <1>6 DEF ServerDies, Fault, TypeOK
  <2>4. stale' \in BOOLEAN
    BY <1>6 DEF ServerDies, TypeOK
  <2>5. swallowed' \subseteq Key /\ repo' \in BOOLEAN
    BY <1>6 DEF ServerDies, TypeOK
  <2>6. QED
    BY <1>6, <2>1, <2>2, <2>3, <2>4, <2>5
    DEF ServerDies, TypeOK, PcOK, StagedTrees, adding
<1>7. CASE UNCHANGED gitvars
  BY <1>7 DEF gitvars, TypeOK, StoreOK, FilesTypeOK, StagedTrees
<1>8. QED
  BY <1>1, <1>2, <1>3, <1>4, <1>5, <1>6, <1>7, NextCases

LEMMA InitTypes ==
  ASSUME Init
  PROVE  TypeOK /\ GitInv
<1>1. StoreOK /\ FilesTypeOK
  BY FilesAssumption DEF Init, StoreOK, Store, FilesTypeOK
<1>2. /\ index \in Files /\ IsTree(index) /\ head \in Files /\ IsTree(head)
      /\ StagedTrees /\ staged \in [Request -> Files]
  BY NoFilesTree DEF Init, StagedTrees
<1>3. pc \in [Request -> Pc] /\ seen \in Seens
  BY DEF Init, Pc, Seens
<1>4. TypeOK
  <2>1. {repo, stale} \subseteq BOOLEAN /\ swallowed \subseteq Key
    BY DEF Init
  <2>2. faults \in 0..MaxFaults /\ identity \subseteq Key
    BY GitAssumption DEF Init
  <2>3. origin \in Request \cup {NoRequest} /\ todo \in [Request -> SUBSET Path]
    BY DEF Init
  <2>4. QED
    BY <1>1, <1>2, <1>3, <2>1, <2>2, <2>3 DEF TypeOK, Seens
<1>5. OneAdds /\ SeenInv
  BY DEF Init, OneAdds, SeenInv, UnderWay
<1>6. QED
  BY <1>2, <1>4, <1>5 DEF GitInv

(* The type invariant.  Its part about the index and HEAD, that they are   *)
(* trees, rests on the same of whatever an add is about to write.          *)
THEOREM TypeInvariant == Spec => []TypeOK
<1>1. Init => TypeOK /\ StagedTrees
  BY InitTypes DEF GitInv
<1>2. TypeOK /\ StagedTrees /\ [Next]_gitvars => (TypeOK /\ StagedTrees)'
  BY TypesStep
<1>3. QED
  BY <1>1, <1>2, PTL DEF Spec

-----------------------------------------------------------------------------
(* Commits                                                                 *)

(* What is above or below a file in the store is no file.                  *)
LEMMA NoFileAround ==
  ASSUME StoreOK, NEW p \in Path, FileAt(p) # None, NEW q \in DirsOf(p) \cup Below(p)
  PROVE  FileAt(q) = None
BY StoreAssumption DEF StoreOK, Store, FileAt, DirsOf, Below

LEMMA OneAddsStep ==
  ASSUME TypeOK, OneAdds, [Next]_gitvars
  PROVE  OneAdds'
<1>0. PcOK
  BY DEF TypeOK, PcOK
<1>1. ASSUME \A r \in Request : pc'[r] = "adding" => pc[r] = "adding"
      PROVE  OneAdds'
  BY <1>1 DEF OneAdds
<1>2. CASE Edits \/ ServerDies \/ UNCHANGED gitvars
  BY <1>1, <1>2 DEF Edits, ServerDies, gitvars, UnderWay
<1>3. ASSUME NEW r \in Request, Calls(r)
      PROVE  OneAdds'
  BY <1>0, <1>1, <1>3, CallStep
<1>4. ASSUME NEW r \in Request, AddEnds(r) \/ \E p \in Path : AddPath(r, p)
      PROVE  OneAdds'
  BY <1>0, <1>1, <1>4, GoesStep DEF AddEnds, AddWrites, AddPath, Pc
<1>5. ASSUME NEW r \in Request, AddStarts(r)
      PROVE  OneAdds'
  <2>1. \A q \in Request \ {r} : pc'[q] = pc[q] /\ pc[q] # "adding"
    BY <1>0, <1>5, GoesStep DEF AddStarts, Locked, Pc
  <2>2. QED
    BY <2>1 DEF OneAdds
<1>6. QED
  BY <1>2, <1>3, <1>4, <1>5, NextCases

LEMMA SeenStep ==
  ASSUME TypeOK, GitInv, [Next]_gitvars
  PROVE  SeenInv'
<1>0. PcOK /\ StoreOK /\ OneAdds /\ SeenInv /\ StagedTrees
  BY DEF TypeOK, PcOK, GitInv
<1>1. CASE Edits
  <2>1. /\ UNCHANGED <<pc, todo, staged, index>>
        /\ \A r \in Request, p \in Path : seen[r][p] \subseteq seen'[r][p]
        /\ \A r \in Request, p \in Path : UnderWay(r) => FileAt(p)' \in seen'[r][p]
    BY <1>1 DEF Edits, Watch, objects, adding, TypeOK
  <2>2. QED
    BY <1>0, <2>1 DEF SeenInv, UnderWay
<1>2. ASSUME NEW r \in Request, Calls(r)
      PROVE  SeenInv'
  <2>1. /\ UNCHANGED <<disk, index, todo, staged>>
        /\ \A q \in Request \ {r} : pc'[q] = pc[q] /\ seen'[q] = seen[q]
        /\ pc'[r] \notin {"adding", "commit"}
    BY <1>0, <1>2, CallStep DEF adding
  <2>2. \A p \in Path : FileAt(p)' = FileAt(p)
    BY <2>1 DEF FileAt
  <2>3. ASSUME UnderWay(r)', NEW p \in Path
        PROVE  FileAt(p) \in seen'[r][p]
    <3>1. CASE UNCHANGED seen /\ UnderWay(r)
      BY <1>0, <3>1 DEF SeenInv
    <3>2. CASE seen' = [seen EXCEPT ![r] = [q \in Path |-> {FileAt(q)}]]
      BY <3>2 DEF TypeOK
    <3>3. QED
      BY <1>0, <1>2, <3>1, <3>2, CallStep
  <2>4. QED
    BY <1>0, <2>1, <2>2, <2>3 DEF SeenInv, UnderWay
<1>3. ASSUME NEW r \in Request, AddStarts(r)
      PROVE  SeenInv'
  <2>1. /\ UNCHANGED <<disk, index, seen>>
        /\ pc[r] = "add" /\ pc'[r] = "adding" /\ \A q \in Request \ {r} : pc'[q] = pc[q]
        /\ todo'[r] = Path
        /\ \A q \in Request \ {r} : pc[q] # "adding"
    BY <1>0, <1>3, GoesStep DEF AddStarts, Locked, files, objects, TypeOK, Pc
  <2>2. \A p \in Path : FileAt(p)' = FileAt(p)
    BY <2>1 DEF FileAt
  <2>3. QED
    BY <1>0, <2>1, <2>2 DEF SeenInv, UnderWay
<1>4. ASSUME NEW r \in Request, NEW p \in Path, AddPath(r, p)
      PROVE  SeenInv'
  <2>1. /\ UNCHANGED <<disk, index, seen, pc>> /\ pc[r] = "adding"
        /\ todo' = [todo EXCEPT ![r] = @ \ {p}]
    BY <1>4 DEF AddPath, files, objects
  <2>2. \A q \in Path : FileAt(q)' = FileAt(q)
    BY <2>1 DEF FileAt
  <2>3. ASSUME NEW t \in Request, pc[t] = "commit" \/ t = r, NEW q \in Path \ todo'[r]
        PROVE  staged'[r][q] \in seen[t][q]
    <3>1. \A o \in Path : FileAt(o) \in seen[t][o]
      BY <1>0, <2>1, <2>3 DEF SeenInv, UnderWay
    <3>2. CASE q = p
      BY <1>0, <1>4, <3>1, <3>2, AddPathTree DEF StagedTrees
    <3>3. CASE q # p
      <4>1. q \notin todo[r]
        BY <2>1, <2>3, <3>3 DEF TypeOK
      <4>2. staged[r][q] \in seen[t][q]
        BY <1>0, <2>1, <2>3, <4>1 DEF SeenInv
      <4>3. \/ staged'[r][q] = staged[r][q]
            \/ staged'[r][q] = None /\ FileAt(p) # None /\ q \in DirsOf(p) \cup Below(p)
        BY <1>0, <1>4, <3>3, AddPathTree DEF StagedTrees
      <4>4. QED
        BY <1>0, <3>1, <4>2, <4>3, NoFileAround
    <3>4. QED
      BY <3>2, <3>3
  <2>4. \A o \in Request \ {r} : pc[o] # "adding"
    BY <1>0, <2>1 DEF OneAdds
  <2>5. QED
    BY <1>0, <2>1, <2>2, <2>3, <2>4 DEF SeenInv, UnderWay
<1>5. ASSUME NEW r \in Request, AddEnds(r)
      PROVE  SeenInv'
  <2>1. /\ UNCHANGED <<disk, seen, todo, staged>>
        /\ pc[r] = "adding" /\ pc'[r] = "commit" /\ \A q \in Request \ {r} : pc'[q] = pc[q]
        /\ todo[r] = {} /\ index' = staged[r]
    BY <1>0, <1>5, GoesStep DEF AddEnds, AddWrites, files, adding, Pc
  <2>2. \A p \in Path : FileAt(p)' = FileAt(p)
    BY <2>1 DEF FileAt
  <2>3. \A q \in Request \ {r} : pc[q] # "adding"
    BY <1>0, <2>1 DEF OneAdds
  <2>4. ASSUME NEW t \in Request, pc'[t] = "commit", NEW p \in Path
        PROVE  staged[r][p] \in seen[t][p]
    BY <1>0, <2>1, <2>4 DEF SeenInv
  <2>5. QED
    BY <1>0, <2>1, <2>2, <2>3, <2>4 DEF SeenInv, UnderWay
<1>6. CASE ServerDies
  <2>1. /\ \A r \in Request : pc'[r] \in {"idle", "done", "failed"}
    BY <1>0, <1>6 DEF ServerDies, UnderWay, PcOK
  <2>2. QED
    BY <2>1 DEF SeenInv, UnderWay
<1>7. CASE UNCHANGED gitvars
  BY <1>0, <1>7 DEF gitvars, SeenInv, UnderWay, FileAt
<1>8. QED
  BY <1>1, <1>2, <1>3, <1>4, <1>5, <1>6, <1>7, NextCases

(* A commit that is answered holds what its request has seen.              *)
THEOREM CommitsAreCurrent == Spec => CommitIsCurrent
<1>1. Init => TypeOK /\ GitInv
  BY InitTypes
<1>2. TypeOK /\ GitInv /\ [Next]_gitvars => (TypeOK /\ GitInv)'
  BY TypesStep, OneAddsStep, SeenStep DEF GitInv
<1>3. ASSUME TypeOK, GitInv, [Next]_gitvars,
             NEW r \in Request, pc[r] = "commit", pc'[r] = "status"
      PROVE  \A p \in Path : head'[p] \in seen[r][p]
  <2>1. ~UNCHANGED pc
    BY <1>3
  <2>2. PICK q \in Request :
          Calls(q) \/ AddStarts(q) \/ AddEnds(q)
    BY <1>3, <2>1, NextCases DEF Edits, ServerDies, AddPath, gitvars, UnderWay, TypeOK
  <2>3. PcOK
    BY <1>3 DEF TypeOK, PcOK
  <2>4. q = r
    BY <1>3, <2>2, <2>3, CallStep, GoesStep DEF AddStarts, AddEnds, AddWrites, Pc
  <2>5. Commit(r)
    BY <1>3, <2>2, <2>3, <2>4
    DEF Calls, Arrives, Begins, Ends, CheckIsRepo, GitInit, InitThen, InitFails, AddConfig, AddsConfig,
        AddConfigSwallowed, GetRemotes, WriteRemote, RemoteRefused, CommitRefused,
        AddStarts, AddEnds, AddWrites, Goes, PcOK
  <2>6. QED
    BY <1>3, <2>5 DEF Commit, GitInv, SeenInv
<1>4. TypeOK /\ GitInv /\ [Next]_gitvars =>
        [\A r \in Request :
           pc[r] = "commit" /\ pc'[r] = "status" => \A p \in Path : head'[p] \in seen[r][p]]_gitvars
  BY <1>3
<1>5. QED
  BY <1>1, <1>2, <1>4, PTL DEF Spec, CommitIsCurrent

-----------------------------------------------------------------------------
(* Identity                                                                *)

LEMMA IdentityStep ==
  ASSUME TypeOK, IdentityInv, [Next]_gitvars
  PROVE  IdentityInv'
<1>0. PcOK
  BY DEF TypeOK, PcOK
<1>1. ASSUME UNCHANGED <<repo, swallowed, identity>>,
             \A r \in Request : pc[r] \in {"name", "email"} => pc'[r] = pc[r]
      PROVE  IdentityInv'
  BY <1>1 DEF IdentityInv
<1>2. CASE Edits \/ UNCHANGED gitvars
  BY <1>1, <1>2 DEF Edits, config, gitvars
<1>3. ASSUME NEW r \in Request, GitInit(r)
      PROVE  IdentityInv'
  BY <1>0, <1>3, GoesStep DEF GitInit, InitThen, IdentityInv, Pc
<1>4. ASSUME NEW r \in Request, NEW key \in Key,
             \/ key = "name" /\ Goes(r, "name", "email")
             \/ key = "email" /\ Goes(r, "email", "status"),
             UNCHANGED repo,
             identity' \cup swallowed' = identity \cup swallowed \cup {key}
      PROVE  IdentityInv'
  <2>1. /\ pc[r] = key /\ (key = "name" => pc'[r] = "email")
        /\ \A q \in Request \ {r} : pc'[q] = pc[q]
    BY <1>0, <1>4, GoesStep DEF Pc
  <2>2. QED
    BY <1>4, <2>1 DEF IdentityInv, Key
<1>5. ASSUME NEW r \in Request, AddConfig(r) \/ AddConfigSwallowed(r)
      PROVE  IdentityInv'
  <2>1. UNCHANGED repo
    BY <1>5 DEF AddConfig, AddsConfig, AddConfigSwallowed
  <2>2. CASE Goes(r, "name", "email")
    <3>1. identity' \cup swallowed' = identity \cup swallowed \cup {"name"}
      BY <1>5, <2>2 DEF AddConfig, AddsConfig, AddConfigSwallowed, Goes
    <3>2. QED
      BY <1>4, <2>1, <2>2, <3>1 DEF Key
  <2>3. CASE Goes(r, "email", "status")
    <3>1. identity' \cup swallowed' = identity \cup swallowed \cup {"email"}
      BY <1>5, <2>3 DEF AddConfig, AddsConfig, AddConfigSwallowed, Goes
    <3>2. QED
      BY <1>4, <2>1, <2>3, <3>1 DEF Key
  <2>4. QED
    BY <1>5, <2>2, <2>3 DEF AddConfig, AddsConfig, AddConfigSwallowed
<1>6. CASE ServerDies
  <2>1. repo' => \A key \in Key :
          (\E r \in Request : pc[r] \in {"init", "name", key}) => key \in swallowed'
    BY <1>6 DEF ServerDies
  <2>2. repo' /\ ~repo => \E r \in Request : pc[r] = "init"
    BY <1>6 DEF ServerDies, TypeOK
  <2>3. identity' = identity /\ swallowed \subseteq swallowed' /\ (repo => repo')
    BY <1>6 DEF ServerDies
  <2>4. QED
    BY <2>1, <2>2, <2>3 DEF IdentityInv, Key
<1>7. ASSUME NEW r \in Request, NEW from \in Pc \ {"name", "email"}, NEW to \in Pc,
             Goes(r, from, to), UNCHANGED <<repo, swallowed, identity>>
      PROVE  IdentityInv'
  BY <1>0, <1>1, <1>7, GoesStep
<1>8. ASSUME NEW r \in Request,
             \/ Arrives(r) \/ Ends(r) \/ CheckIsRepo(r) \/ GetRemotes(r) \/ WriteRemote(r)
             \/ RemoteRefused(r) \/ AddStarts(r) \/ AddEnds(r) \/ Commit(r) \/ CommitRefused(r)
      PROVE  IdentityInv'
  <2>1. UNCHANGED <<repo, swallowed, identity>>
    BY <1>8
    DEF Arrives, Begins, Ends, CheckIsRepo, GetRemotes, WriteRemote, RemoteRefused,
        AddStarts, AddEnds, AddWrites, Commit, CommitRefused, config
  <2>2. \E from \in Pc \ {"name", "email"}, to \in Pc : Goes(r, from, to)
    BY <1>8
    DEF Arrives, Begins, Ends, CheckIsRepo, GetRemotes, WriteRemote, RemoteRefused,
        AddStarts, AddEnds, AddWrites, Commit, CommitRefused, Pc
  <2>3. QED
    BY <1>7, <2>1, <2>2
<1>9. ASSUME NEW r \in Request, NEW p \in Path, AddPath(r, p)
      PROVE  IdentityInv'
  BY <1>1, <1>9 DEF AddPath, config
<1>10. ASSUME NEW r \in Request, InitFails(r)
       PROVE  IdentityInv'
  <2>1. \A q \in Request : pc[q] \in {"name", "email"} => pc'[q] = pc[q]
    BY <1>0, <1>10, GoesStep DEF InitFails, Pc
  <2>2. UNCHANGED identity /\ (UNCHANGED <<repo, swallowed>> \/ swallowed' = Key)
    BY <1>10 DEF InitFails
  <2>3. QED
    BY <1>1, <2>1, <2>2 DEF IdentityInv, Key
<1>11. QED
  BY <1>2, <1>3, <1>5, <1>10, <1>6, <1>8, <1>9 DEF Next

(* An initialised repository has an identity, but for swallowed failures.  *)
THEOREM InitMakesReady == Spec => []InitializedMeansReady
<1>1. Init => IdentityInv
  BY DEF Init, IdentityInv
<1>2. TypeOK /\ IdentityInv /\ [Next]_gitvars => IdentityInv'
  BY IdentityStep
<1>3. TypeOK /\ IdentityInv => InitializedMeansReady
  BY DEF TypeOK, IdentityInv, InitializedMeansReady, Key
<1>4. QED
  BY <1>1, <1>2, <1>3, TypeInvariant, PTL DEF Spec

=============================================================================
