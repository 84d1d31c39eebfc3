-------------------------- MODULE SyncAgentProofs --------------------------
(***************************************************************************)
(* What TLAPS proves of the sync agent and its gateway, for any set of     *)
(* paths, contents and sockets and any number of edits and failures.       *)
(***************************************************************************)
EXTENDS SyncAgent, TLAPS

-----------------------------------------------------------------------------
(* The file store: none of its operations leaves anything but a tree.      *)

LEMMA ParentsOf ==
  ASSUME NEW p \in Path, NEW d \in Path
  PROVE  /\ d \in DirsOf(p) <=> <<d, p>> \in Above
         /\ d \in Below(p) <=> <<p, d>> \in Above
BY DEF DirsOf, Below

LEMMA MkdirKeepsStore ==
  ASSUME StoreOK, NEW p \in Path, Mkdir(p)
  PROVE  StoreOK'
<1>1. disk' \in Store
  BY DEF StoreOK, Mkdir, Store
<1>2. ASSUME NEW q \in Path, NEW d \in Path, <<d, q>> \in Above, disk'[q] # None
      PROVE  disk'[d] = Dir
  <2>1. CASE q \in DirsOf(p)
    BY <1>2, <2>1, ParentsOf, StoreAssumption DEF Mkdir
  <2>2. CASE q \notin DirsOf(p)
    BY <1>2, <2>2 DEF Mkdir, StoreOK
  <2>3. QED
    BY <2>1, <2>2
<1>3. QED
  BY <1>1, <1>2 DEF StoreOK

LEMMA WriteKeepsStore ==
  ASSUME StoreOK, NEW p \in Path, NEW content \in Content, WriteFile(p, content)
  PROVE  StoreOK'
<1>1. disk' \in Store
  BY DEF StoreOK, WriteFile, Store
<1>2. ASSUME NEW q \in Path, NEW d \in Path, <<d, q>> \in Above, disk'[q] # None
      PROVE  disk'[d] = Dir
  <2>1. d # q
    BY <1>2, StoreAssumption
  <2>2. CASE q = p
    BY <1>2, <2>1, <2>2, ParentsOf DEF WriteFile, CanWrite, StoreOK, Store
  <2>3. CASE q # p
    BY <1>2, <2>3 DEF WriteFile, CanWrite, StoreOK, Store
  <2>4. QED
    BY <2>2, <2>3
<1>3. QED
  BY <1>1, <1>2 DEF StoreOK

LEMMA RemoveKeepsStore ==
  ASSUME StoreOK, NEW p \in Path, Remove(p)
  PROVE  StoreOK'
<1>1. disk' \in Store
  BY DEF StoreOK, Remove, Store
<1>2. ASSUME NEW q \in Path, NEW d \in Path, <<d, q>> \in Above, disk'[q] # None
      PROVE  disk'[d] = Dir
  <2>1. q # p /\ q \notin Below(p) /\ disk[q] # None
    BY <1>2 DEF Remove
  <2>2. d # p /\ d \notin Below(p)
    BY <1>2, <2>1, ParentsOf, StoreAssumption
  <2>3. QED
    BY <1>2, <2>1, <2>2 DEF Remove, StoreOK
<1>3. QED
  BY <1>1, <1>2 DEF StoreOK

LEMMA StoreStutter ==
  ASSUME StoreOK, UNCHANGED disk
  PROVE  StoreOK'
BY DEF StoreOK

(* The editor's requests leave the store a tree.                           *)
LEMMA EditorKeepsStore ==
  ASSUME StoreOK, FilesTypeOK,
         \/ \E p \in Path, content \in Content : Save(p, content)
         \/ \E w \in saving : SaveWrites(w) \/ SaveThrows(w)
         \/ \E p \in Path : Delete(p)
  PROVE  StoreOK' /\ FilesTypeOK'
<1>1. ASSUME NEW p \in Path, NEW content \in Content, Save(p, content)
      PROVE  StoreOK' /\ FilesTypeOK'
  BY <1>1, MkdirKeepsStore, FilesAssumption DEF Save, OneMore, FilesTypeOK
<1>2. ASSUME NEW w \in saving, SaveWrites(w)
      PROVE  StoreOK' /\ FilesTypeOK'
  <2>1. w[1] \in Path /\ w[2] \in Content
    BY DEF FilesTypeOK
  <2>2. StoreOK'
    BY <1>2, <2>1, WriteKeepsStore DEF SaveWrites
  <2>3. QED
    BY <1>2, <2>2 DEF SaveWrites, FilesTypeOK
<1>3. ASSUME NEW w \in saving, SaveThrows(w)
      PROVE  StoreOK' /\ FilesTypeOK'
  BY <1>3, StoreStutter DEF SaveThrows, FilesTypeOK
<1>4. ASSUME NEW p \in Path, Delete(p)
      PROVE  StoreOK' /\ FilesTypeOK'
  BY <1>4, RemoveKeepsStore, FilesAssumption DEF Delete, OneMore, FilesTypeOK
<1>5. QED
  BY <1>1, <1>2, <1>3, <1>4

-----------------------------------------------------------------------------
(* Handlers                                                                *)

LEMMA EditorStutter ==
  ASSUME FilesTypeOK, UNCHANGED editor
  PROVE  FilesTypeOK'
BY DEF FilesTypeOK, editor

LEMMA HandlerFields ==
  ASSUME NEW h \in Handler
  PROVE  /\ h.on \in Sock
         /\ h.at \in {"manifest", "done"} => h.files \in Files
         /\ h.at \in {"mkdir", "write"} => h.path \in Path /\ h.content \in Content
         /\ h.at = "remove" => h.path \in Path
         /\ h.at = "mkdir" => [h EXCEPT !.at = "write"] \in Handler
BY DEF Handler

LEMMA SendType ==
  ASSUME reply \in [Sock -> {"none", "diff", "synced"}], NEW s, NEW msg \in {"diff", "synced"},
         Send(s, msg)
  PROVE  reply' \in [Sock -> {"none", "diff", "synced"}]
BY DEF Send

LEMMA CloseType ==
  ASSUME wire \in [Sock -> Wire], NEW s, Close(s)
  PROVE  wire' \in [Sock -> Wire]
BY DEF Close, Wire

LEMMA DiffType ==
  ASSUME NEW server, NEW client
  PROVE  computeDiff(server, client) \in [changed : SUBSET Path, removed : SUBSET Path]
BY DEF computeDiff

LEMMA ServerKeepsType ==
  ASSUME GatewayTypeOK, GatewayNext
  PROVE  GatewayTypeOK'
<1> USE GatewayAssumption
<1>1. ASSUME NEW h \in handlers, OnManifest(h) PROVE GatewayTypeOK'
  <2>1. h \in Handler
    BY DEF GatewayTypeOK
  <2>2. reply' \in [Sock -> {"none", "diff", "synced"}]
    BY <1>1, SendType DEF OnManifest, GatewayTypeOK
  <2>3. /\ diff' \in [Sock -> [changed : SUBSET Path, removed : SUBSET Path]]
        /\ unsure' \subseteq Path
    BY <1>1, <2>1, DiffType DEF OnManifest, GatewayTypeOK
  <2>4. QED
    BY <1>1, <2>2, <2>3, StoreStutter, EditorStutter DEF OnManifest, GatewayTypeOK, Ends
<1>2. ASSUME NEW h \in handlers, OnFileMkdir(h) PROVE GatewayTypeOK'
  <2>1. h \in Handler /\ h.path \in Path /\ [h EXCEPT !.at = "write"] \in Handler
    BY <1>2, HandlerFields DEF GatewayTypeOK, OnFileMkdir
  <2>2. StoreOK'
    BY <1>2, <2>1, MkdirKeepsStore DEF OnFileMkdir, GatewayTypeOK
  <2>3. QED
    BY <1>2, <2>1, <2>2, EditorStutter DEF OnFileMkdir, GatewayTypeOK, GoesOn
<1>3. ASSUME NEW h \in handlers, OnFileWrite(h) PROVE GatewayTypeOK'
  <2>1. h.path \in Path /\ h.content \in Content
    BY <1>3, HandlerFields DEF GatewayTypeOK, OnFileWrite
  <2>2. StoreOK'
    BY <1>3, <2>1, WriteKeepsStore DEF OnFileWrite, GatewayTypeOK
  <2>3. QED
    BY <1>3, <2>2, EditorStutter DEF OnFileWrite, GatewayTypeOK, Ends
<1>4. ASSUME NEW h \in handlers, OnRemoved(h) PROVE GatewayTypeOK'
  <2>1. h.path \in Path
    BY <1>4, HandlerFields DEF GatewayTypeOK, OnRemoved
  <2>2. StoreOK'
    BY <1>4, <2>1, RemoveKeepsStore DEF OnRemoved, GatewayTypeOK
  <2>3. unsure' \subseteq Path
    BY <1>4 DEF OnRemoved, GatewayTypeOK, Below
  <2>4. QED
    BY <1>4, <2>2, <2>3, EditorStutter DEF OnRemoved, GatewayTypeOK, Ends
<1>5. ASSUME NEW h \in handlers, OnDone(h) PROVE GatewayTypeOK'
  <2>2. h.files \in Files
    BY <1>5, HandlerFields DEF OnDone, GatewayTypeOK
  <2>3. reply' \in [Sock -> {"none", "diff", "synced"}]
    BY <1>5, SendType DEF OnDone, GatewayTypeOK
  <2>4. QED
    BY <1>5, <2>2, <2>3, StoreStutter, EditorStutter DEF OnDone, GatewayTypeOK, Ends
<1>6. ASSUME NEW h \in handlers, HandlerThrows(h) PROVE GatewayTypeOK'
  <2>1. unsure' \subseteq Path
    BY <1>6 DEF HandlerThrows, GatewayTypeOK
  <2>2. wire' \in [Sock -> Wire]
    BY <1>6, CloseType DEF HandlerThrows, GatewayTypeOK
  <2>3. faults' \in 0..MaxFaults
    BY <1>6 DEF HandlerThrows, Fault, GatewayTypeOK
  <2>4. QED
    BY <1>6, <2>1, <2>2, <2>3, StoreStutter, EditorStutter DEF HandlerThrows, GatewayTypeOK, Ends
<1>7. ASSUME NEW s \in Sock, Cut(s) PROVE GatewayTypeOK'
  BY <1>7, StoreStutter, EditorStutter DEF Cut, Fault, GatewayTypeOK, Wire
<1>8. CASE ServerDies
  BY <1>8, StoreStutter DEF ServerDies, Fault, GatewayTypeOK, FilesTypeOK, Wire
<1>9. CASE Edits
  <2>1. StoreOK' /\ FilesTypeOK'
    BY <1>9, EditorKeepsStore DEF Edits, GatewayTypeOK
  <2>2. unsure' \subseteq Path
    <3>1. unsure \subseteq Path
      BY DEF GatewayTypeOK
    <3>2. ASSUME NEW w \in saving PROVE unsure \cup {w[1]} \subseteq Path
      BY <3>1 DEF GatewayTypeOK, FilesTypeOK
    <3>3. ASSUME NEW p \in Path PROVE unsure \cup {p} \cup Below(p) \subseteq Path
      BY <3>1 DEF Below
    <3>4. QED
      BY <1>9, <3>1, <3>2, <3>3 DEF Edits
  <2>3. QED
    BY <1>9, <2>1, <2>2 DEF Edits, GatewayTypeOK
<1>10. QED
  BY <1>1, <1>2, <1>3, <1>4, <1>5, <1>6, <1>7, <1>8, <1>9 DEF GatewayNext

-----------------------------------------------------------------------------
(* The agent                                                               *)

(* The part of TypeOK that is about the agent's own variables.             *)
AgentTypeOK ==
  /\ local \in Files /\ IsTree(local)
  /\ watch \in {"initial", "syncing", "starting", "on"}
  /\ {unseen, timer, running, queued, lastOk} \subseteq BOOLEAN
  /\ phase \in [Sock -> Phase]
  /\ todo \in [Sock -> SUBSET Path]
  /\ claim \in [Sock -> Files]
  /\ unnoticed \subseteq Path
  /\ edits \in 0..MaxEdits

LEMMA TypeParts == TypeOK <=> GatewayTypeOK /\ AgentTypeOK
BY DEF TypeOK, AgentTypeOK

LEMMA OneOfThem ==
  ASSUME NEW S
  PROVE  OneOf(S) \subseteq S
BY DEF OneOf

LEMMA UnusedSockets == OneOf(Unused) \subseteq Sock
BY OneOfThem DEF Unused

LEMMA RunType ==
  ASSUME AgentTypeOK, Run
  PROVE  /\ {running', queued'} \subseteq BOOLEAN
         /\ phase' \in [Sock -> Phase]
         /\ todo' \in [Sock -> SUBSET Path]
BY UnusedSockets DEF AgentTypeOK, Run, Begin, Phase

LEMMA NoFilesType == NoFiles \in Files
BY DEF NoFiles, Files

LEMMA NoDiffType == NoDiff \in [changed : SUBSET Path, removed : SUBSET Path]
BY DEF NoDiff

LEMMA RoundEndsType ==
  ASSUME TypeOK, NEW s \in Sock, NEW ok \in BOOLEAN, RoundEnds(s, ok)
  PROVE  TypeOK'
<1>1. GatewayTypeOK /\ AgentTypeOK
  BY TypeParts
<1>2. /\ phase' \in [Sock -> Phase]
      /\ todo' \in [Sock -> SUBSET Path]
      /\ running' \in BOOLEAN
  <2>1. CASE queued
    <3>1. PICK r \in OneOf(Unused \cup {q \in {s} : \A h \in handlers : h.on # q}) :
            /\ phase' = [phase EXCEPT ![s] = "idle", ![r] = "walking"]
            /\ todo' = [todo EXCEPT ![s] = {}, ![r] = Path]
            /\ UNCHANGED running
      BY <2>1 DEF RoundEnds
    <3>2. QED
      BY <1>1, <3>1 DEF AgentTypeOK, Phase
  <2>2. CASE ~queued
    BY <1>1, <2>2 DEF RoundEnds, AgentTypeOK, Phase
  <2>3. QED
    BY <2>1, <2>2
<1>3. claim' \in [Sock -> Files]
  BY <1>1, NoFilesType DEF RoundEnds, AgentTypeOK
<1>4. AgentTypeOK'
  BY <1>1, <1>2, <1>3 DEF RoundEnds, AgentTypeOK, tree
<1>5. diff' \in [Sock -> [changed : SUBSET Path, removed : SUBSET Path]]
  BY <1>1, NoDiffType DEF RoundEnds, GatewayTypeOK
<1>6. GatewayTypeOK'
  BY <1>1, <1>5, StoreStutter, EditorStutter DEF RoundEnds, GatewayTypeOK, Wire, stored
<1>7. QED
  BY <1>4, <1>6 DEF TypeOK, AgentTypeOK

LEMMA PostType ==
  ASSUME handlers \subseteq Handler, NEW s, NEW frames \in SUBSET Handler, Post(s, frames)
  PROVE  handlers' \subseteq Handler
BY DEF Post

LEMMA GatewayStutter ==
  ASSUME GatewayTypeOK, UNCHANGED gvars
  PROVE  GatewayTypeOK'
BY StoreStutter, EditorStutter DEF GatewayTypeOK, gvars, editor

(* Every variable of agent and gateway keeps its type; the developer's     *)
(* files form a tree, and on the server every path that is taken lies in   *)
(* directories, whatever handlers interleave between mkdir and writeFile.  *)
THEOREM TypeInvariant == Spec => []TypeOK
<1>1. Init => TypeOK
  <2>1. SUFFICES ASSUME Init PROVE TypeOK
    OBVIOUS
  <2>2. GatewayTypeOK
    BY <2>1, NoDiffType, GatewayAssumption, FilesAssumption
    DEF Init, GatewayInit, GatewayTypeOK, StoreOK, Store, Files, Wire, FilesTypeOK
  <2>3. AgentTypeOK
    <3>1. edits \in 0..MaxEdits
      BY <2>1, AgentAssumption DEF Init
    <3>2. QED
      BY <2>1, <3>1, NoFilesType DEF Init, AgentTypeOK, Phase
  <2>4. QED
    BY <2>2, <2>3, TypeParts
<1>2. TypeOK /\ [Next]_vars => TypeOK'
  <2>1. SUFFICES ASSUME GatewayTypeOK, AgentTypeOK, TypeOK, [Next]_vars
                 PROVE  GatewayTypeOK' /\ AgentTypeOK'
    BY TypeParts DEF TypeOK, AgentTypeOK
  <2> USE <2>1
  <2>2. ASSUME NEW p \in Path, NEW content \in Content \cup {None}, Edit(p, content)
        PROVE  GatewayTypeOK' /\ AgentTypeOK'
    <3>1. GatewayTypeOK'
      BY <2>2, GatewayStutter DEF Edit
    <3>2. local' \in Files /\ edits' \in 0..MaxEdits
      BY <2>2, AgentAssumption DEF Edit, AgentTypeOK, Files
    <3>3. IsTree(local)' /\ unnoticed' \subseteq Path /\ unseen' \in BOOLEAN
      BY <2>2 DEF Edit, AgentTypeOK, IsTree
    <3>4. QED
      BY <2>2, <3>1, <3>2, <3>3 DEF Edit, AgentTypeOK, round
  <2>3. CASE InitialSync \/ DebounceExpires
    BY <2>3, RunType, GatewayStutter
    DEF InitialSync, DebounceExpires, AgentTypeOK, IsTree, tree
  <2>4. CASE WatcherReady \/ Schedule
    BY <2>4, GatewayStutter DEF WatcherReady, Schedule, AgentTypeOK, IsTree, tree, round
  <2>5. ASSUME NEW s \in Sock, NEW p \in Path, Walk(s, p)
        PROVE  GatewayTypeOK' /\ AgentTypeOK'
    <3>1. claim' \in [Sock -> Files] /\ todo' \in [Sock -> SUBSET Path]
      BY <2>5 DEF Walk, AgentTypeOK, Files
    <3>2. QED
      BY <2>5, <3>1, GatewayStutter DEF Walk, AgentTypeOK, IsTree, command
  <2>5a. ASSUME NEW s \in Sock, NEW S \in Hidden, WalkOmits(s, S)
         PROVE  GatewayTypeOK' /\ AgentTypeOK'
    <3>1. claim' \in [Sock -> Files] /\ todo' \in [Sock -> SUBSET Path]
      BY <2>5a DEF WalkOmits, AgentTypeOK, Files
    <3>2. faults' \in 0..MaxFaults
      BY <2>5a, GatewayAssumption DEF WalkOmits, Fault, GatewayTypeOK
    <3>3. GatewayTypeOK'
      BY <2>5a, <3>2, StoreStutter, EditorStutter DEF WalkOmits, GatewayTypeOK
    <3>4. AgentTypeOK'
      BY <2>5a, <3>1 DEF WalkOmits, AgentTypeOK, IsTree, command
    <3>5. QED
      BY <3>3, <3>4
  <2>6. ASSUME NEW s \in Sock, Advertise(s) PROVE GatewayTypeOK' /\ AgentTypeOK'
    <3>1. [on |-> s, at |-> "manifest", files |-> claim[s]] \in Handler
      BY DEF Handler, AgentTypeOK
    <3>2. GatewayTypeOK'
      BY <2>6, <3>1, StoreStutter, EditorStutter DEF Advertise, GatewayTypeOK, Wire, stored
    <3>3. AgentTypeOK'
      BY <2>6 DEF Advertise, AgentTypeOK, Phase, IsTree, command, tree
    <3>4. QED
      BY <3>2, <3>3
  <2>7. ASSUME NEW s \in Sock, TakeDiff(s) PROVE GatewayTypeOK' /\ AgentTypeOK'
    <3>1. GatewayTypeOK'
      BY <2>7, StoreStutter, EditorStutter DEF TakeDiff, GatewayTypeOK, stored
    <3>2. AgentTypeOK'
      BY <2>7 DEF TakeDiff, AgentTypeOK, Phase, IsTree, command, tree
    <3>3. QED
      BY <3>1, <3>2
  <2>8. ASSUME NEW s \in Sock, NEW p \in Path, PushFile(s, p) \/ PushSkips(s, p)
        PROVE  GatewayTypeOK' /\ AgentTypeOK'
    <3>1. PICK frames \in SUBSET Handler, doubt \in BOOLEAN : Turn(s, p, frames, doubt)
      <4>1. CASE PushFile(s, p)
        <5>1. FileFrame(s, p) \in Handler
          BY <4>1 DEF PushFile, FileFrame, Handler, AgentTypeOK, Files
        <5>2. QED
          BY <4>1, <5>1 DEF PushFile
      <4>2. CASE PushSkips(s, p)
        BY <4>2 DEF PushSkips
      <4>3. QED
        BY <2>8, <4>1, <4>2
    <3>2. handlers' \subseteq Handler
      BY <3>1, PostType DEF Turn, GatewayTypeOK
    <3>3. /\ diff' \in [Sock -> [changed : SUBSET Path, removed : SUBSET Path]]
          /\ unsure' \subseteq Path
      BY <3>1 DEF Turn, GatewayTypeOK
    <3>4. faults' \in 0..MaxFaults
      <4>1. faults \in 0..MaxFaults /\ (UNCHANGED faults \/ Fault)
        BY <2>8 DEF PushFile, PushSkips, GatewayTypeOK
      <4>2. QED
        BY <4>1, GatewayAssumption DEF Fault
    <3>5. GatewayTypeOK'
      BY <3>1, <3>2, <3>3, <3>4, StoreStutter, EditorStutter DEF Turn, GatewayTypeOK
    <3>6. AgentTypeOK'
      BY <3>1 DEF Turn, AgentTypeOK, IsTree, command, tree, round
    <3>7. QED
      BY <3>5, <3>6
  <2>9. ASSUME NEW s \in Sock, PushRest(s) PROVE GatewayTypeOK' /\ AgentTypeOK'
    <3>1. diff[s].removed \subseteq Path
      BY DEF GatewayTypeOK
    <3>2. /\ \A p \in diff[s].removed : [on |-> s, at |-> "remove", path |-> p] \in Handler
          /\ [on |-> s, at |-> "done", files |-> claim[s]] \in Handler
      BY <3>1 DEF Handler, AgentTypeOK
    <3>3. handlers' \subseteq Handler
      BY <2>9, <3>2, PostType DEF PushRest, GatewayTypeOK
    <3>4. diff' \in [Sock -> [changed : SUBSET Path, removed : SUBSET Path]]
      BY <2>9, NoDiffType DEF PushRest, GatewayTypeOK
    <3>5. GatewayTypeOK'
      BY <2>9, <3>3, <3>4, StoreStutter, EditorStutter DEF PushRest, GatewayTypeOK, stored
    <3>6. AgentTypeOK'
      BY <2>9 DEF PushRest, AgentTypeOK, Phase, IsTree, command, tree
    <3>7. QED
      BY <3>5, <3>6
  <2>10. ASSUME NEW s \in Sock, Resolved(s) \/ Rejected(s)
         PROVE  GatewayTypeOK' /\ AgentTypeOK'
    <3>1. PICK ok \in BOOLEAN : RoundEnds(s, ok)
      BY <2>10 DEF Resolved, Rejected
    <3>2. TypeOK'
      BY <3>1, RoundEndsType
    <3>3. QED
      BY <3>2 DEF TypeOK, AgentTypeOK
  <2>11. CASE Server
    <3>1. GatewayTypeOK'
      BY <2>11, ServerKeepsType DEF Server
    <3>2. AgentTypeOK'
      BY <2>11 DEF Server, AgentTypeOK, IsTree, avars
    <3>3. QED
      BY <3>1, <3>2
  <2>12. CASE UNCHANGED vars
    BY <2>12, GatewayStutter DEF vars, avars, AgentTypeOK, IsTree
  <2>13. QED
    BY <2>2, <2>3, <2>4, <2>5, <2>5a, <2>6, <2>7, <2>8, <2>9, <2>10, <2>11, <2>12
    DEF Next, Agent
<1>3. QED
  BY <1>1, <1>2, PTL DEF Spec

-----------------------------------------------------------------------------
(* What a step makes of a path                                             *)

LEMMA MkdirKeepsFiles ==
  ASSUME StoreOK, NEW p \in Path, Mkdir(p)
  PROVE  \A q \in Path : FileAt(q)' = FileAt(q)
BY StoreAssumption DEF StoreOK, Store, Mkdir, CanMkdir, FileAt

LEMMA WriteChangesOne ==
  ASSUME StoreOK, NEW p \in Path, NEW content \in Content, WriteFile(p, content)
  PROVE  /\ FileAt(p)' = content
         /\ \A q \in Path \ {p} : FileAt(q)' = FileAt(q)
BY DEF StoreOK, Store, WriteFile, FileAt

LEMMA RemoveChanges ==
  ASSUME StoreOK, NEW p \in Path, Remove(p)
  PROVE  /\ FileAt(p)' = None
         /\ \A q \in Path \ {p} :
              q \notin Below(p) \/ FileAt(q) = None => FileAt(q)' = FileAt(q)
BY StoreAssumption DEF StoreOK, Store, Remove, FileAt

LEMMA GoesOnTo ==
  ASSUME NEW h \in Handler, h.at = "mkdir", NEW g, g = [h EXCEPT !.at = "write"]
  PROVE  /\ g \in Handler /\ g.at = "write" /\ g.on = h.on
         /\ \A p : Aims(g, p) <=> Aims(h, p)
         /\ Makes(g) = Makes(h)
BY DEF Handler, Aims, Makes

(* What is in hand for p stays so, or one handler has done its work.       *)
Stays(p) ==
  /\ FileAt(p)' = FileAt(p) \/ \E g \in handlers' : Aims(g, p)
  /\ \A g \in handlers' : Aims(g, p) => \E h \in handlers : Aims(h, p) /\ Makes(h) = Makes(g)
  /\ \A h \in handlers : Aims(h, p) => \E g \in handlers' : Aims(g, p)

Done(p) ==
  \E h \in handlers :
    /\ Aims(h, p)
    /\ FileAt(p)' = Makes(h)
    /\ handlers' = handlers \ {h}

FilesStep ==
  /\ unsure \subseteq unsure'
  /\ \A p \in Path \ unsure' : Stays(p) \/ Done(p)

LEMMA StaysPut ==
  ASSUME UNCHANGED <<disk, handlers>>
  PROVE  \A p : Stays(p)
BY DEF Stays, FileAt

(* Only handlers that aim at nothing, or at what is unsure now, come to an *)
(* end without effect.                                                     *)
LEMMA EndsQuietly ==
  ASSUME NEW h \in handlers, handlers' = handlers \ {h},
         NEW p, ~Aims(h, p),
         FileAt(p)' = FileAt(p) \/ \E g \in handlers : Aims(g, p)
  PROVE  Stays(p)
BY DEF Stays

LEMMA ServerFiles ==
  ASSUME TypeOK, GatewayNext
  PROVE  FilesStep \/ \E h \in handlers : OnManifest(h)
<1> SUFFICES ASSUME \A h \in handlers : ~OnManifest(h)
             PROVE  FilesStep
  OBVIOUS
<1>1. StoreOK /\ FilesTypeOK /\ handlers \subseteq Handler
  BY DEF TypeOK, GatewayTypeOK
<1>2. ASSUME NEW h \in handlers, OnFileMkdir(h) PROVE FilesStep
  <2>1. PICK g : g = [h EXCEPT !.at = "write"]
    OBVIOUS
  <2>2. h \in Handler /\ h.at = "mkdir" /\ h.path \in Path
    BY <1>1, <1>2, HandlerFields DEF OnFileMkdir
  <2>3. /\ handlers' = (handlers \ {h}) \cup {g}
        /\ UNCHANGED unsure
    BY <1>2, <2>1 DEF OnFileMkdir, GoesOn
  <2>4. \A q \in Path : FileAt(q)' = FileAt(q)
    BY <1>1, <1>2, <2>2, MkdirKeepsFiles DEF OnFileMkdir
  <2>5. (\A p : Aims(g, p) <=> Aims(h, p)) /\ Makes(g) = Makes(h)
    BY <2>1, <2>2, GoesOnTo
  <2>6. QED
    BY <2>3, <2>4, <2>5 DEF FilesStep, Stays
<1>3. ASSUME NEW h \in handlers, OnFileWrite(h) PROVE FilesStep
  <2>1. h \in Handler /\ h.at = "write" /\ h.path \in Path /\ h.content \in Content
    BY <1>1, <1>3, HandlerFields DEF OnFileWrite
  <2>2. handlers' = handlers \ {h} /\ UNCHANGED unsure
    BY <1>3 DEF OnFileWrite, Ends
  <2>3. /\ FileAt(h.path)' = h.content
        /\ \A q \in Path \ {h.path} : FileAt(q)' = FileAt(q)
    BY <1>1, <1>3, <2>1, WriteChangesOne DEF OnFileWrite
  <2>4. Aims(h, h.path) /\ Makes(h) = h.content /\ \A q : q # h.path => ~Aims(h, q)
    BY <2>1 DEF Aims, Makes
  <2>5. Done(h.path)
    BY <2>2, <2>3, <2>4 DEF Done
  <2>6. \A q \in Path \ {h.path} : Stays(q)
    BY <2>2, <2>3, <2>4, EndsQuietly
  <2>7. QED
    BY <2>2, <2>5, <2>6 DEF FilesStep
<1>4. ASSUME NEW h \in handlers, OnRemoved(h) PROVE FilesStep
  <2>1. h \in Handler /\ h.at = "remove" /\ h.path \in Path
    BY <1>1, <1>4, HandlerFields DEF OnRemoved
  <2>2. /\ handlers' = handlers \ {h}
        /\ unsure' = unsure \cup {q \in Below(h.path) :
                                    FileAt(q) # None /\ \A g \in handlers : ~Aims(g, q)}
    BY <1>4 DEF OnRemoved, Ends
  <2>3. /\ FileAt(h.path)' = None
        /\ \A q \in Path \ {h.path} :
             q \notin Below(h.path) \/ FileAt(q) = None => FileAt(q)' = FileAt(q)
    BY <1>1, <1>4, <2>1, RemoveChanges DEF OnRemoved
  <2>4. Aims(h, h.path) /\ Makes(h) = None /\ \A q : q # h.path => ~Aims(h, q)
    BY <2>1 DEF Aims, Makes
  <2>5. Done(h.path)
    BY <2>2, <2>3, <2>4 DEF Done
  <2>6. \A q \in Path \ (unsure' \cup {h.path}) : Stays(q)
    BY <2>2, <2>3, <2>4, EndsQuietly
  <2>7. QED
    BY <2>2, <2>5, <2>6 DEF FilesStep
<1>5. ASSUME NEW h \in handlers, OnDone(h) PROVE FilesStep
  <2>1. \A p : ~Aims(h, p) /\ FileAt(p)' = FileAt(p)
    BY <1>5 DEF OnDone, Aims, FileAt
  <2>2. handlers' = handlers \ {h} /\ UNCHANGED unsure
    BY <1>5 DEF OnDone, Ends
  <2>3. QED
    BY <2>1, <2>2, EndsQuietly DEF FilesStep
<1>6. ASSUME NEW h \in handlers, HandlerThrows(h) PROVE FilesStep
  <2>1. /\ handlers' = handlers \ {h}
        /\ unsure' = unsure \cup {p \in Path : Aims(h, p)}
        /\ \A p : FileAt(p)' = FileAt(p)
    BY <1>6 DEF HandlerThrows, Ends, FileAt
  <2>2. \A p \in Path \ unsure' : ~Aims(h, p)
    BY <2>1
  <2>3. QED
    BY <2>1, <2>2, EndsQuietly DEF FilesStep
<1>7. ASSUME NEW s \in Sock, Cut(s) PROVE FilesStep
  BY <1>7, StaysPut DEF Cut, FilesStep
<1>8. ASSUME Edits PROVE FilesStep
  <2>1. UNCHANGED handlers
    BY <1>8 DEF Edits
  <2>2. ASSUME NEW p, FileAt(p)' = FileAt(p) PROVE Stays(p)
    BY <2>1, <2>2 DEF Stays
  <2>3. ASSUME NEW p \in Path, NEW content \in Content, Save(p, content), UNCHANGED unsure
        PROVE  FilesStep
    BY <1>1, <2>2, <2>3, MkdirKeepsFiles DEF Save, FilesStep
  <2>4. ASSUME NEW w \in saving, SaveWrites(w), unsure' = unsure \cup {w[1]}
        PROVE  FilesStep
    <3>1. w[1] \in Path /\ w[2] \in Content
      BY <1>1 DEF FilesTypeOK
    <3>2. QED
      BY <1>1, <2>2, <2>4, <3>1, WriteChangesOne DEF SaveWrites, FilesStep
  <2>5. ASSUME NEW w \in saving, SaveThrows(w), UNCHANGED unsure
        PROVE  FilesStep
    BY <2>1, <2>5, StaysPut DEF SaveThrows, FilesStep
  <2>6. ASSUME NEW p \in Path, Delete(p), unsure' = unsure \cup {p} \cup Below(p)
        PROVE  FilesStep
    BY <1>1, <2>2, <2>6, RemoveChanges DEF Delete, FilesStep
  <2>7. QED
    BY <1>8, <2>3, <2>4, <2>5, <2>6 DEF Edits
<1>9. ASSUME ServerDies PROVE FilesStep
  <2>1. /\ handlers' = {}
        /\ unsure' = unsure \cup {p \in Path : \E h \in handlers : Aims(h, p)}
        /\ \A p : FileAt(p)' = FileAt(p)
    BY <1>9 DEF ServerDies, FileAt
  <2>2. QED
    BY <2>1 DEF FilesStep, Stays
<1>10. QED
  BY <1>2, <1>3, <1>4, <1>5, <1>6, <1>7, <1>8, <1>9 DEF GatewayNext

LEMMA KeptOn ==
  ASSUME NEW p, NEW content, Kept(p, content), Stays(p) \/ Done(p)
  PROVE  Kept(p, content)'
BY DEF Kept, Stays, Done

LEMMA CarriedKept ==
  ASSUME NEW s, NEW p, Carried(s, p), Stays(p) \/ Done(p),
         claim'[s] = claim[s], diff'[s] = diff[s]
  PROVE  Carried(s, p)'
<1>1. CASE p \in diff[s].changed \cup diff[s].removed
  BY <1>1 DEF Stays, Done, Carried
<1>2. CASE p \notin diff[s].changed \cup diff[s].removed
  <2>1. PICK content : content = claim[s][p]
    OBVIOUS
  <2>2. Kept(p, content)'
    BY <1>2, <2>1, KeptOn DEF Carried
  <2>3. QED
    BY <1>2, <2>1, <2>2 DEF Carried, Kept
<1>3. QED
  BY <1>1, <1>2

-----------------------------------------------------------------------------
(* Rounds and sockets                                                      *)

LEMMA PhaseTypes ==
  ASSUME TypeOK
  PROVE  /\ phase \in [Sock -> Phase]
         /\ wire \in [Sock -> Wire]
         /\ reply \in [Sock -> {"none", "diff", "synced"}]
         /\ todo \in [Sock -> SUBSET Path]
         /\ claim \in [Sock -> Files]
         /\ diff \in [Sock -> [changed : SUBSET Path, removed : SUBSET Path]]
         /\ handlers \subseteq Handler
         /\ \A h \in handlers : h.on \in Sock
         /\ unsure \subseteq Path
         /\ local \in Files
BY HandlerFields DEF TypeOK, GatewayTypeOK

(* A round begins on a socket of which nothing is left.                    *)
Begins(r) ==
  /\ r \in Sock
  /\ \A h \in handlers : h.on # r
  /\ phase' = [phase EXCEPT ![r] = "walking"]
  /\ todo' = [todo EXCEPT ![r] = Path]

LEMMA RunBegins ==
  ASSUME Run
  PROVE  \/ running /\ queued' /\ UNCHANGED <<running, phase, todo>>
         \/ /\ ~running /\ running' /\ UNCHANGED queued
            /\ \E r \in Sock : phase[r] = "idle" /\ Begins(r)
<1>1. CASE running
  BY <1>1 DEF Run
<1>2. CASE ~running
  <2>1. PICK r \in Unused : Begin(r) /\ UNCHANGED queued
    BY <1>2, OneOfThem DEF Run
  <2>2. QED
    BY <1>2, <2>1 DEF Unused, Begin, Begins
<1>3. QED
  BY <1>1, <1>2

(* What the end of a round does, whether it was acknowledged or not.       *)
Over(s) ==
  /\ ~queued'
  /\ \/ /\ queued /\ UNCHANGED running
        /\ \E r \in Sock :
             /\ phase[r] = "idle" \/ r = s
             /\ \A h \in handlers : h.on # r
             /\ phase' = [phase EXCEPT ![s] = "idle", ![r] = "walking"]
             /\ todo' = [todo EXCEPT ![s] = {}, ![r] = Path]
     \/ /\ ~queued /\ ~running'
        /\ phase' = [phase EXCEPT ![s] = "idle"]
        /\ todo' = [todo EXCEPT ![s] = {}]
  /\ claim' = [claim EXCEPT ![s] = NoFiles]
  /\ wire' = [wire EXCEPT ![s] = "closed"]
  /\ reply' = [reply EXCEPT ![s] = "none"]
  /\ diff' = [diff EXCEPT ![s] = NoDiff]
  /\ UNCHANGED <<disk, unsure, handlers, local, unnoticed, unseen, timer>>

LEMMA RoundIsOver ==
  ASSUME NEW s \in Sock, Resolved(s) \/ Rejected(s)
  PROVE  Over(s) /\ phase[s] \in {"advertised", "pushing", "sent"}
<1>1. PICK ok \in BOOLEAN : RoundEnds(s, ok)
  BY DEF Resolved, Rejected
<1>2. phase[s] \in {"advertised", "pushing", "sent"}
  BY DEF Resolved, Rejected
<1>3. CASE queued
  <2>1. PICK r \in Unused \cup {q \in {s} : \A h \in handlers : h.on # q} :
          /\ phase' = [phase EXCEPT ![s] = "idle", ![r] = "walking"]
          /\ todo' = [todo EXCEPT ![s] = {}, ![r] = Path]
          /\ UNCHANGED running
    BY <1>1, <1>3, OneOfThem DEF RoundEnds
  <2>2. r \in Sock /\ (phase[r] = "idle" \/ r = s) /\ \A h \in handlers : h.on # r
    BY <2>1 DEF Unused
  <2>3. QED
    BY <1>1, <1>2, <1>3, <2>1, <2>2 DEF RoundEnds, Over, stored, tree
<1>4. CASE ~queued
  BY <1>1, <1>2, <1>4 DEF RoundEnds, Over, stored, tree
<1>5. QED
  BY <1>3, <1>4

(* The three steps in the middle of a round.                               *)
MovesOn(s, from, to) ==
  /\ phase[s] = from
  /\ phase' = [phase EXCEPT ![s] = to]
  /\ UNCHANGED command

LEMMA MovesOnSteps ==
  ASSUME NEW s \in Sock
  PROVE  /\ Advertise(s) => MovesOn(s, "walking", "advertised")
         /\ TakeDiff(s) => MovesOn(s, "advertised", "pushing")
         /\ PushRest(s) => MovesOn(s, "pushing", "sent")
BY DEF Advertise, TakeDiff, PushRest, MovesOn

(* A file of the diff is sent, or skipped.                                 *)
Pushes(s, p) == PushFile(s, p) \/ PushSkips(s, p)

(* What both do: at most the file's frame is posted, and only if it was    *)
(* posted and is as it was advertised is the path as sure as before.       *)
Pushed(s, p, frames) ==
  /\ phase[s] = "pushing"
  /\ p \in diff[s].changed
  /\ diff' = [diff EXCEPT ![s].changed = @ \ {p}]
  /\ frames \subseteq {FileFrame(s, p)}
  /\ Post(s, frames)
  /\ unsure \subseteq unsure'
  /\ p \in unsure' \/ (frames = {FileFrame(s, p)} /\ local[p] = claim[s][p])
  /\ UNCHANGED <<disk, wire, reply, command, tree, round>>

LEMMA PushesFrames ==
  ASSUME NEW s, NEW p, Pushes(s, p)
  PROVE  \E frames : Pushed(s, p, frames)
BY DEF Pushes, PushFile, PushSkips, Turn, Pushed

LEMMA NextCases ==
  ASSUME [Next]_vars
  PROVE  \/ (InitialSync \/ DebounceExpires) /\ Run
         \/ WatcherReady \/ Schedule
         \/ \E s \in Sock : (\E p \in Path : Walk(s, p)) \/ (\E S \in Hidden : WalkOmits(s, S))
         \/ \E s \in Sock, p \in Path : Pushes(s, p)
         \/ \E s \in Sock : Advertise(s) \/ TakeDiff(s) \/ PushRest(s)
         \/ \E s \in Sock : Resolved(s) \/ Rejected(s)
         \/ Server
         \/ \E p \in Path, content \in Content \cup {None} : Edit(p, content)
         \/ UNCHANGED vars
BY DEF Next, Agent, InitialSync, DebounceExpires, Pushes

LEMMA OneRoundKept ==
  ASSUME TypeOK, OneRound, [Next]_vars
  PROVE  OneRound'
<1>1. phase \in [Sock -> Phase]
  BY PhaseTypes
<1>2. ASSUME Run
      PROVE  OneRound'
  BY <1>1, <1>2, RunBegins DEF OneRound, Begins
<1>3. ASSUME NEW s \in Sock, Over(s), phase[s] # "idle"
      PROVE  OneRound'
  BY <1>1, <1>3 DEF OneRound, Over
<1>4. ASSUME NEW s \in Sock, NEW from, NEW to, MovesOn(s, from, to),
             from # "idle", to # "idle"
      PROVE  OneRound'
  BY <1>1, <1>4 DEF OneRound, MovesOn, command
<1>5. ASSUME UNCHANGED <<phase, running, queued>>
      PROVE  OneRound'
  BY <1>5 DEF OneRound
<1>6. ASSUME NEW s \in Sock, Advertise(s) \/ TakeDiff(s) \/ PushRest(s)
      PROVE  OneRound'
  BY <1>4, <1>6, MovesOnSteps
<1>7. ASSUME NEW s \in Sock, Resolved(s) \/ Rejected(s)
      PROVE  OneRound'
  BY <1>3, <1>7, RoundIsOver
<1>8. ASSUME \/ WatcherReady \/ Schedule \/ Server \/ UNCHANGED vars
             \/ \E s \in Sock, p \in Path : Walk(s, p)
             \/ \E s \in Sock, S \in Hidden : WalkOmits(s, S)
             \/ \E p \in Path, content \in Content \cup {None} : Edit(p, content)
      PROVE  OneRound'
  BY <1>5, <1>8
  DEF WatcherReady, Schedule, Server, vars, avars, Walk, WalkOmits, Edit, round, command
<1>9. ASSUME NEW s \in Sock, NEW p \in Path, Pushes(s, p)
      PROVE  OneRound'
  BY <1>5, <1>9, PushesFrames DEF Pushed, round, command
<1>10. QED
  BY <1>2, <1>6, <1>7, <1>8, <1>9, NextCases

(* SocketInUse says something of each socket and of each handler.          *)
SocketOK(s) ==
  /\ wire[s] # "closed" <=> phase[s] \in {"advertised", "pushing", "sent"}
  /\ reply[s] # "none" => wire[s] \in {"open", "closing"}
  /\ reply[s] = "diff" => phase[s] = "advertised"
  /\ reply[s] = "synced" => phase[s] = "sent"
  /\ phase[s] = "sent" => diff[s] = NoDiff
  /\ phase[s] = "walking" => \A h \in handlers : h.on # s

HandlerOK(h) ==
  wire[h.on] = "open" /\ h.at \in {"manifest", "done"} =>
    /\ phase[h.on] = IF h.at = "manifest" THEN "advertised" ELSE "sent"
    /\ reply[h.on] = "none"
    /\ h.files = claim[h.on]

LEMMA SocketParts ==
  SocketInUse <=> (\A s \in Sock : SocketOK(s)) /\ (\A h \in handlers : HandlerOK(h))
BY DEF SocketInUse, SocketOK, HandlerOK

(* A manifest or `done` whose socket is open is the only one on it.        *)
LEMMA OneAnswer ==
  ASSUME TypeOK, SocketInUse,
         NEW h \in handlers, NEW g \in handlers,
         h.at \in {"manifest", "done"}, g.at \in {"manifest", "done"},
         g.on = h.on, wire[h.on] = "open"
  PROVE  g = h
<1>1. h \in Handler /\ g \in Handler
  BY PhaseTypes
<1>2. h.at = g.at /\ h.files = g.files
  BY DEF SocketInUse
<1>3. QED
  BY <1>1, <1>2 DEF Handler

LEMMA SocketInUseByServer ==
  ASSUME TypeOK, SocketInUse, GatewayNext, UNCHANGED avars
  PROVE  SocketInUse'
<1>1. /\ \A s \in Sock : SocketOK(s)
      /\ \A h \in handlers : HandlerOK(h)
      /\ UNCHANGED <<phase, claim>>
  BY SocketParts DEF avars
<1>2. wire \in [Sock -> Wire] /\ reply \in [Sock -> {"none", "diff", "synced"}]
      /\ diff \in [Sock -> [changed : SUBSET Path, removed : SUBSET Path]]
      /\ handlers \subseteq Handler /\ \A h \in handlers : h.on \in Sock
  BY PhaseTypes
<1>3. ASSUME UNCHANGED <<wire, reply, diff>>, handlers' \subseteq handlers
      PROVE  SocketInUse'
  BY <1>1, <1>3 DEF SocketInUse, SocketOK, HandlerOK
<1>4. ASSUME NEW h \in handlers, OnManifest(h) PROVE SocketInUse'
  <2>1. CASE wire[h.on] # "open"
    BY <1>3, <1>4, <2>1 DEF OnManifest, Ends, Send
  <2>2. CASE wire[h.on] = "open"
    <3>1. /\ phase[h.on] = "advertised" /\ h.on \in Sock
          /\ reply' = [reply EXCEPT ![h.on] = "diff"]
          /\ diff' = [diff EXCEPT ![h.on] = computeDiff(manifest, h.files)]
          /\ handlers' = handlers \ {h}
          /\ UNCHANGED wire
      BY <1>1, <1>2, <1>4, <2>2 DEF OnManifest, Ends, Send, HandlerOK
    <3>2. \A s \in Sock : SocketOK(s)'
      BY <1>1, <1>2, <2>2, <3>1 DEF SocketOK
    <3>3. \A g \in handlers' : HandlerOK(g)'
      <4>1. \A g \in handlers' : g.at \in {"manifest", "done"} => g.on # h.on
        BY <1>4, <2>2, <3>1, OneAnswer DEF OnManifest
      <4>2. QED
        BY <1>1, <1>2, <3>1, <4>1 DEF HandlerOK
    <3>4. QED
      BY <3>2, <3>3 DEF SocketInUse, SocketOK, HandlerOK
  <2>3. QED
    BY <2>1, <2>2
<1>5. ASSUME NEW h \in handlers, OnDone(h) PROVE SocketInUse'
  <2>1. CASE wire[h.on] # "open"
    BY <1>3, <1>5, <2>1 DEF OnDone, Ends, Send
  <2>2. CASE wire[h.on] = "open"
    <3>1. /\ phase[h.on] = "sent" /\ h.on \in Sock
          /\ reply' = [reply EXCEPT ![h.on] = "synced"]
          /\ handlers' = handlers \ {h}
          /\ UNCHANGED <<wire, diff>>
      BY <1>1, <1>2, <1>5, <2>2 DEF OnDone, Ends, Send, HandlerOK
    <3>2. \A s \in Sock : SocketOK(s)'
      BY <1>1, <1>2, <2>2, <3>1 DEF SocketOK
    <3>3. \A g \in handlers' : HandlerOK(g)'
      <4>1. \A g \in handlers' : g.at \in {"manifest", "done"} => g.on # h.on
        BY <1>5, <2>2, <3>1, OneAnswer DEF OnDone
      <4>2. QED
        BY <1>1, <1>2, <3>1, <4>1 DEF HandlerOK
    <3>4. QED
      BY <3>2, <3>3 DEF SocketInUse, SocketOK, HandlerOK
  <2>3. QED
    BY <2>1, <2>2
<1>6. ASSUME NEW h \in handlers, OnFileMkdir(h) PROVE SocketInUse'
  <2>1. PICK g : g = [h EXCEPT !.at = "write"]
    OBVIOUS
  <2>2. g.at = "write" /\ g.on = h.on
    BY <1>2, <1>6, <2>1, GoesOnTo DEF OnFileMkdir
  <2>3. handlers' = (handlers \ {h}) \cup {g} /\ UNCHANGED <<wire, reply, diff>>
    BY <1>6, <2>1 DEF OnFileMkdir, GoesOn
  <2>4. QED
    BY <1>1, <2>2, <2>3 DEF SocketInUse, SocketOK, HandlerOK
<1>7. ASSUME NEW h \in handlers, OnFileWrite(h) \/ OnRemoved(h) PROVE SocketInUse'
  BY <1>3, <1>7 DEF OnFileWrite, OnRemoved, Ends
<1>8. ASSUME NEW h \in handlers, HandlerThrows(h) PROVE SocketInUse'
  <2>1. handlers' = handlers \ {h} /\ UNCHANGED <<reply, diff>>
    BY <1>8 DEF HandlerThrows, Ends
  <2>2. CASE wire[h.on] # "open"
    BY <1>3, <1>8, <2>1, <2>2 DEF HandlerThrows, Close
  <2>3. CASE wire[h.on] = "open"
    <3>1. h.on \in Sock /\ wire' = [wire EXCEPT ![h.on] = "closing"]
      BY <1>2, <1>8, <2>3 DEF HandlerThrows, Close
    <3>2. QED
      BY <1>1, <1>2, <2>1, <2>3, <3>1 DEF SocketInUse, SocketOK, HandlerOK
  <2>4. QED
    BY <2>2, <2>3
<1>9. ASSUME NEW s \in Sock, Cut(s) PROVE SocketInUse'
  BY <1>1, <1>2, <1>9 DEF Cut, SocketInUse, SocketOK, HandlerOK
<1>10. ASSUME ServerDies PROVE SocketInUse'
  BY <1>1, <1>10 DEF ServerDies, SocketInUse, SocketOK
<1>11. ASSUME Edits PROVE SocketInUse'
  BY <1>3, <1>11 DEF Edits
<1>12. QED
  BY <1>4, <1>5, <1>6, <1>7, <1>8, <1>9, <1>10, <1>11 DEF GatewayNext

LEMMA PostIs ==
  ASSUME NEW s, NEW frames, Post(s, frames)
  PROVE  handlers \subseteq handlers' /\ handlers' \subseteq handlers \cup frames
BY DEF Post

LEMMA SocketInUseKept ==
  ASSUME TypeOK, OneRound, SocketInUse, [Next]_vars
  PROVE  SocketInUse'
<1>1. /\ \A s \in Sock : SocketOK(s)
      /\ \A h \in handlers : HandlerOK(h)
  BY SocketParts
<1>2. /\ phase \in [Sock -> Phase] /\ claim \in [Sock -> Files]
      /\ wire \in [Sock -> Wire] /\ reply \in [Sock -> {"none", "diff", "synced"}]
      /\ diff \in [Sock -> [changed : SUBSET Path, removed : SUBSET Path]]
      /\ handlers \subseteq Handler /\ \A h \in handlers : h.on \in Sock
  BY PhaseTypes
<1>3. ASSUME UNCHANGED <<wire, reply, diff, handlers, phase, claim>>
      PROVE  SocketInUse'
  BY <1>3 DEF SocketInUse
<1>4. ASSUME InitialSync \/ DebounceExpires, Run PROVE SocketInUse'
  <2>1. UNCHANGED <<wire, reply, diff, handlers, claim>>
    BY <1>4 DEF InitialSync, DebounceExpires, gvars
  <2>2. CASE UNCHANGED phase
    BY <1>3, <2>1, <2>2
  <2>3. ASSUME NEW r \in Sock, phase[r] = "idle", Begins(r) PROVE SocketInUse'
    BY <1>1, <1>2, <2>1, <2>3 DEF Begins, SocketInUse, SocketOK, HandlerOK
  <2>4. QED
    BY <1>4, <2>2, <2>3, RunBegins
<1>5. ASSUME NEW s \in Sock, Resolved(s) \/ Rejected(s) PROVE SocketInUse'
  <2>1. Over(s) /\ phase[s] \in {"advertised", "pushing", "sent"}
    BY <1>5, RoundIsOver
  <2>2. /\ wire' = [wire EXCEPT ![s] = "closed"]
        /\ reply' = [reply EXCEPT ![s] = "none"]
        /\ diff' = [diff EXCEPT ![s] = NoDiff]
        /\ claim' = [claim EXCEPT ![s] = NoFiles]
        /\ UNCHANGED handlers
    BY <2>1 DEF Over
  <2>3. /\ phase'[s] \in {"idle", "walking"}
        /\ \A r \in Sock : \/ phase'[r] = phase[r]
                           \/ phase'[r] = "idle" /\ r = s
                           \/ /\ phase'[r] = "walking" /\ (r = s \/ phase[r] = "idle")
                              /\ \A h \in handlers : h.on # r
    BY <1>2, <2>1 DEF Over
  <2>4. \A r \in Sock : SocketOK(r)'
    BY <1>1, <1>2, <2>2, <2>3 DEF SocketOK
  <2>5. \A h \in handlers : HandlerOK(h)'
    BY <1>1, <1>2, <2>2, <2>3 DEF HandlerOK
  <2>6. QED
    BY <2>2, <2>4, <2>5 DEF SocketInUse, SocketOK, HandlerOK
<1>6. ASSUME NEW s \in Sock, NEW p \in Path, Walk(s, p) PROVE SocketInUse'
  <2>1. /\ claim' = [claim EXCEPT ![s][p] = local[p]]
        /\ UNCHANGED <<wire, reply, diff, handlers, phase>>
        /\ wire[s] = "closed"
    BY <1>1, <1>6 DEF Walk, gvars, SocketOK
  <2>2. QED
    BY <1>1, <1>2, <2>1 DEF SocketInUse, SocketOK, HandlerOK
<1>6a. ASSUME NEW s \in Sock, NEW S \in Hidden, WalkOmits(s, S) PROVE SocketInUse'
  <2>1. /\ \A r \in Sock \ {s} : claim'[r] = claim[r]
        /\ UNCHANGED <<wire, reply, diff, handlers, phase>>
        /\ wire[s] = "closed"
    BY <1>1, <1>2, <1>6a DEF WalkOmits, SocketOK
  <2>2. QED
    BY <1>1, <1>2, <2>1 DEF SocketInUse, SocketOK, HandlerOK
<1>7. ASSUME NEW s \in Sock, Advertise(s) PROVE SocketInUse'
  <2> DEFINE m == [on |-> s, at |-> "manifest", files |-> claim[s]]
  <2>1. /\ phase[s] = "walking"
        /\ phase' = [phase EXCEPT ![s] = "advertised"]
        /\ wire' = [wire EXCEPT ![s] = "open"]
        /\ handlers' = handlers \cup {m}
        /\ UNCHANGED <<reply, diff, claim>>
    BY <1>7 DEF Advertise
  <2>2. /\ m.on = s /\ m.at = "manifest" /\ m.files = claim[s]
        /\ reply[s] = "none" /\ \A h \in handlers : h.on # s
    BY <1>1, <1>2, <2>1 DEF SocketOK
  <2> HIDE DEF m
  <2>3. QED
    BY <1>1, <1>2, <2>1, <2>2 DEF SocketInUse, SocketOK, HandlerOK
<1>8. ASSUME NEW s \in Sock, TakeDiff(s) PROVE SocketInUse'
  BY <1>1, <1>2, <1>8 DEF TakeDiff, SocketInUse, SocketOK, HandlerOK
<1>9. ASSUME NEW s \in Sock, NEW p \in Path, Pushes(s, p) PROVE SocketInUse'
  <2> DEFINE m == FileFrame(s, p)
  <2>0. PICK frames : Pushed(s, p, frames)
    BY <1>9, PushesFrames
  <2>1. /\ phase[s] = "pushing"
        /\ \A r \in Sock \ {s} : diff'[r] = diff[r]
        /\ UNCHANGED <<wire, reply, phase, claim>>
    BY <1>2, <2>0 DEF Pushed, round
  <2>2. handlers \subseteq handlers' /\ handlers' \subseteq handlers \cup {m}
    BY <2>0, PostIs DEF Pushed
  <2>3. m.on = s /\ m.at = "mkdir"
    BY DEF FileFrame
  <2> HIDE DEF m
  <2>4. \A r \in Sock : SocketOK(r)'
    BY <1>1, <2>1, <2>2, <2>3 DEF SocketOK
  <2>5. \A h \in handlers' : HandlerOK(h)'
    BY <1>1, <2>1, <2>2, <2>3 DEF HandlerOK
  <2>6. QED
    BY <2>4, <2>5 DEF SocketInUse, SocketOK, HandlerOK
<1>10. ASSUME NEW s \in Sock, PushRest(s) PROVE SocketInUse'
  <2> DEFINE d == [on |-> s, at |-> "done", files |-> claim[s]]
             R == {[on |-> s, at |-> "remove", path |-> p] : p \in diff[s].removed}
  <2>1. /\ phase[s] = "pushing"
        /\ phase' = [phase EXCEPT ![s] = "sent"]
        /\ diff' = [diff EXCEPT ![s] = NoDiff]
        /\ UNCHANGED <<wire, reply, claim>>
    BY <1>10 DEF PushRest
  <2>2. handlers \subseteq handlers' /\ handlers' \subseteq handlers \cup R \cup {d}
    BY <1>10, PostIs DEF PushRest
  <2>3. /\ d.on = s /\ d.at = "done" /\ d.files = claim[s]
        /\ \A g \in R : g.on = s /\ g.at = "remove"
    OBVIOUS
  <2> HIDE DEF d, R
  <2>4. reply[s] = "none"
    BY <1>1, <1>2, <2>1 DEF SocketOK
  <2>5. \A r \in Sock : SocketOK(r)'
    BY <1>1, <1>2, <2>1, <2>2, <2>3, <2>4 DEF SocketOK
  <2>6. \A h \in handlers' : HandlerOK(h)'
    BY <1>1, <1>2, <2>1, <2>2, <2>3, <2>4 DEF HandlerOK
  <2>7. QED
    BY <2>5, <2>6 DEF SocketInUse, SocketOK, HandlerOK
<1>11. ASSUME \/ WatcherReady \/ Schedule \/ UNCHANGED vars
              \/ \E p \in Path, content \in Content \cup {None} : Edit(p, content)
       PROVE  SocketInUse'
  BY <1>3, <1>11 DEF WatcherReady, Schedule, vars, gvars, avars, Edit, round
<1>12. CASE Server
  BY <1>12, SocketInUseByServer DEF Server
<1>13. QED
  BY <1>4, <1>5, <1>6, <1>6a, <1>7, <1>8, <1>9, <1>10, <1>11, <1>12, NextCases

-----------------------------------------------------------------------------
(* What the walk saw                                                       *)

LEMMA ClaimIsRecentKept ==
  ASSUME TypeOK, OneRound, ClaimIsRecent, [Next]_vars
  PROVE  ClaimIsRecent'
<1>1. /\ phase \in [Sock -> Phase] /\ claim \in [Sock -> Files]
      /\ todo \in [Sock -> SUBSET Path] /\ local \in Files
  BY PhaseTypes
<1>2. ASSUME UNCHANGED <<phase, todo, claim, local, unnoticed>>, RoundOwed => RoundOwed'
      PROVE  ClaimIsRecent'
  BY <1>2 DEF ClaimIsRecent
<1>3. ASSUME RoundOwed' PROVE ClaimIsRecent'
  BY <1>3 DEF ClaimIsRecent
<1>4. ASSUME InitialSync \/ DebounceExpires, Run PROVE ClaimIsRecent'
  <2>1. CASE queued'
    BY <1>3, <2>1 DEF RoundOwed
  <2>2. ASSUME NEW r \in Sock, ~running, Begins(r) PROVE ClaimIsRecent'
    <3>1. \A s \in Sock : phase[s] = "idle"
      BY <2>2 DEF OneRound
    <3>2. QED
      BY <1>1, <2>2, <3>1 DEF Begins, ClaimIsRecent
  <2>3. QED
    BY <1>4, <2>1, <2>2, RunBegins
<1>5. ASSUME NEW s \in Sock, Resolved(s) \/ Rejected(s) PROVE ClaimIsRecent'
  <2>1. Over(s) /\ phase[s] # "idle"
    BY <1>5, RoundIsOver
  <2>2. \A r \in Sock \ {s} : phase[r] = "idle"
    BY <2>1 DEF OneRound
  <2>3. \A r \in Sock : \/ phase'[r] = "idle"
                        \/ phase'[r] = "walking" /\ todo'[r] = Path
    BY <1>1, <2>1, <2>2 DEF Over
  <2>4. QED
    BY <2>3 DEF ClaimIsRecent
<1>6. ASSUME NEW s \in Sock, NEW p \in Path, Walk(s, p) PROVE ClaimIsRecent'
  <2>1. /\ phase[s] = "walking" /\ \A r \in Sock \ {s} : phase[r] = "idle"
        /\ UNCHANGED <<phase, local, unseen, timer, queued>>
        /\ claim'[s][p] = local[p]
        /\ \A q \in Path \ {p} : /\ claim'[s][q] = claim[s][q]
                                 /\ q \in unnoticed' <=> q \in unnoticed
                                 /\ q \in todo'[s] <=> q \in todo[s]
    BY <1>1, <1>6 DEF Walk, OneRound, command, Files
  <2>2. QED
    BY <2>1 DEF ClaimIsRecent, RoundOwed
<1>6a. ASSUME NEW s \in Sock, NEW S \in Hidden, WalkOmits(s, S) PROVE ClaimIsRecent'
  <2>1. /\ phase[s] = "walking" /\ \A r \in Sock \ {s} : phase[r] = "idle"
        /\ UNCHANGED <<phase, local, unseen, timer, queued>>
        /\ \A q \in Path \cap S : q \in unnoticed' \/ claim'[s][q] = local[q]
        /\ \A q \in Path \ S : /\ claim'[s][q] = claim[s][q]
                               /\ q \in unnoticed' <=> q \in unnoticed
                               /\ q \in todo'[s] <=> q \in todo[s]
    BY <1>1, <1>6a DEF WalkOmits, OneRound, command, Files
  <2>2. QED
    BY <2>1 DEF ClaimIsRecent, RoundOwed
<1>7. ASSUME NEW s \in Sock, Advertise(s) \/ TakeDiff(s) \/ PushRest(s) PROVE ClaimIsRecent'
  <2>1. /\ UNCHANGED <<todo, claim, local, unnoticed, unseen, timer, queued>>
        /\ phase[s] # "idle"
        /\ \A r \in Sock \ {s} : phase'[r] = phase[r]
        /\ phase[s] = "walking" => todo[s] = {}
    BY <1>1, <1>7 DEF Advertise, TakeDiff, PushRest, command, tree
  <2>2. QED
    BY <2>1 DEF ClaimIsRecent, RoundOwed
<1>8. ASSUME NEW p \in Path, NEW content \in Content \cup {None}, Edit(p, content)
      PROVE  ClaimIsRecent'
  <2>1. CASE watch = "on"
    BY <1>3, <1>8, <2>1 DEF Edit, RoundOwed
  <2>2. CASE watch # "on"
    <3>1. /\ UNCHANGED <<phase, todo, claim, unseen, timer, queued>>
          /\ unnoticed' = unnoticed \cup {p}
          /\ \A q \in Path \ {p} : local'[q] = local[q]
      BY <1>1, <1>8, <2>2 DEF Edit, round, Files
    <3>2. QED
      BY <3>1 DEF ClaimIsRecent, RoundOwed
  <2>3. QED
    BY <2>1, <2>2
<1>9. ASSUME \/ WatcherReady \/ Server \/ UNCHANGED vars
             \/ \E s \in Sock, p \in Path : Pushes(s, p)
      PROVE  ClaimIsRecent'
  <2>1. UNCHANGED <<phase, todo, claim, local, unnoticed, unseen, timer, queued>>
    BY <1>9, PushesFrames
    DEF WatcherReady, Server, vars, avars, Pushed, round, tree, command
  <2>2. QED
    BY <1>2, <2>1 DEF RoundOwed
<1>10. CASE Schedule
  BY <1>3, <1>10 DEF Schedule, RoundOwed
<1>11. QED
  BY <1>4, <1>5, <1>6, <1>6a, <1>7, <1>8, <1>9, <1>10, NextCases

-----------------------------------------------------------------------------
(* What becomes of the diff                                                *)

Diffed(s) == phase[s] \in {"pushing", "sent"} \/ reply[s] = "diff"

DiffOK(s) ==
  Diffed(s) =>
    /\ \A p \in diff[s].changed : claim[s][p] # None
    /\ \A p \in diff[s].removed : claim[s][p] = None
    /\ wire[s] # "cut" => \A p \in Path \ unsure : Carried(s, p)

LEMMA DiffParts == DiffIsCarried <=> \A s \in Sock : DiffOK(s)
BY DEF DiffIsCarried, DiffOK, Diffed

LEMMA DiffOKKept ==
  ASSUME NEW s, DiffOK(s), FilesStep, Diffed(s)' => Diffed(s),
         claim'[s] = claim[s], diff'[s] = diff[s],
         wire[s] = "cut" => wire'[s] = "cut"
  PROVE  DiffOK(s)'
<1>1. SUFFICES ASSUME Diffed(s)' PROVE DiffOK(s)'
  BY DEF DiffOK
<1>2. ASSUME wire'[s] # "cut", NEW p \in Path \ unsure' PROVE Carried(s, p)'
  <2>1. Carried(s, p)
    BY <1>1, <1>2 DEF DiffOK, FilesStep
  <2>2. Stays(p) \/ Done(p)
    BY <1>2 DEF FilesStep
  <2>3. QED
    BY <2>1, <2>2, CarriedKept
<1>3. QED
  BY <1>1, <1>2 DEF DiffOK

(* A socket that no round uses, or whose round still walks, has no diff.   *)
LEMMA NotDiffed ==
  ASSUME SocketInUse, NEW s \in Sock, phase[s] \in {"idle", "walking"}
  PROVE  ~Diffed(s) /\ reply[s] = "none" /\ wire[s] = "closed"
BY DEF SocketInUse, Diffed

(* A step that leaves the store and the handlers alone.                    *)
LEMMA NothingCarried ==
  ASSUME UNCHANGED <<disk, handlers>>, unsure \subseteq unsure'
  PROVE  FilesStep
BY StaysPut DEF FilesStep

(* The server's answers: a diff to the manifest, synced to `done`.         *)
LEMMA ServerAnswers ==
  ASSUME TypeOK, GatewayNext
  PROVE  \A s \in Sock :
           /\ wire[s] = "cut" => wire'[s] = "cut"
           /\ \/ reply'[s] \in {reply[s], "none"} /\ diff'[s] = diff[s]
              \/ \E h \in handlers : OnManifest(h) /\ wire[s] = "open" /\ h.on = s
              \/ /\ \E h \in handlers : OnDone(h) /\ wire[s] = "open" /\ h.on = s
                 /\ reply'[s] = "synced" /\ diff'[s] = diff[s]
<1>1. /\ wire \in [Sock -> Wire] /\ reply \in [Sock -> {"none", "diff", "synced"}]
      /\ diff \in [Sock -> [changed : SUBSET Path, removed : SUBSET Path]]
      /\ \A h \in handlers : h.on \in Sock
  BY PhaseTypes
<1> TAKE s \in Sock
<1>2. ASSUME UNCHANGED <<wire, reply, diff>>
      PROVE  /\ wire[s] = "cut" => wire'[s] = "cut"
             /\ reply'[s] \in {reply[s], "none"} /\ diff'[s] = diff[s]
  BY <1>2
<1>3. CASE \E h \in handlers : OnManifest(h)
  BY <1>1, <1>3 DEF OnManifest, Send
<1>4. CASE \E h \in handlers : OnDone(h)
  BY <1>1, <1>4 DEF OnDone, Send
<1>5. CASE \E h \in handlers : OnFileMkdir(h) \/ OnFileWrite(h) \/ OnRemoved(h)
  BY <1>2, <1>5 DEF OnFileMkdir, OnFileWrite, OnRemoved
<1>6. CASE \E h \in handlers : HandlerThrows(h)
  BY <1>1, <1>6 DEF HandlerThrows, Close
<1>7. CASE \E t \in Sock : Cut(t)
  BY <1>1, <1>7 DEF Cut
<1>8. CASE ServerDies
  BY <1>1, <1>8 DEF ServerDies
<1>9. CASE Edits
  BY <1>2, <1>9 DEF Edits
<1>10. QED
  BY <1>3, <1>4, <1>5, <1>6, <1>7, <1>8, <1>9 DEF GatewayNext

(* The diff asks for what the stored manifest does not have as advertised. *)
LEMMA DiffCovers ==
  ASSUME NEW server \in Files, NEW client \in Files
  PROVE  /\ \A p \in computeDiff(server, client).changed : client[p] # None
         /\ \A p \in computeDiff(server, client).removed : client[p] = None
         /\ \A p \in Path : \/ p \in computeDiff(server, client).changed
                            \/ p \in computeDiff(server, client).removed
                            \/ server[p] = client[p]
BY DEF computeDiff

LEMMA ManifestFiles ==
  ASSUME TypeOK, NEW h \in handlers, OnManifest(h), wire[h.on] # "open"
  PROVE  FilesStep
<1>1. UNCHANGED <<disk, unsure>> /\ handlers' = handlers \ {h}
  BY DEF OnManifest, Ends
<1>2. \A p : ~Aims(h, p) /\ FileAt(p)' = FileAt(p)
  BY <1>1 DEF OnManifest, Aims, FileAt
<1>3. QED
  BY <1>1, <1>2, EndsQuietly DEF FilesStep

LEMMA DiffIsSent ==
  ASSUME TypeOK, OneRound, SocketInUse,
         NEW h \in handlers, OnManifest(h), wire[h.on] = "open", UNCHANGED avars
  PROVE  \A s \in Sock : DiffOK(s)' /\ (s # h.on => ~Diffed(s)' /\ reply'[s] = "none")
<1>1. /\ h.on \in Sock /\ diff \in [Sock -> [changed : SUBSET Path, removed : SUBSET Path]]
      /\ reply \in [Sock -> {"none", "diff", "synced"}]
      /\ claim \in [Sock -> Files] /\ manifest \in Files
  BY PhaseTypes DEF TypeOK, GatewayTypeOK
<1>2. phase[h.on] = "advertised" /\ h.files = claim[h.on]
  BY DEF SocketInUse, OnManifest
<1>3. /\ reply' = [reply EXCEPT ![h.on] = "diff"]
      /\ diff' = [diff EXCEPT ![h.on] = computeDiff(manifest, h.files)]
      /\ unsure' = {p \in Path :
                      \/ \E g \in handlers : Aims(g, p) /\ Makes(g) # h.files[p]
                      \/ manifest[p] = h.files[p] /\ ~Kept(p, h.files[p])}
      /\ handlers' = handlers \ {h}
      /\ UNCHANGED <<disk, phase, claim>>
  BY DEF OnManifest, Send, Ends, avars
<1>4. ASSUME NEW s \in Sock, s # h.on
      PROVE  ~Diffed(s)' /\ reply'[s] = "none"
  <2>1. phase[s] = "idle"
    BY <1>1, <1>2, <1>4 DEF OneRound
  <2>2. QED
    BY <1>1, <1>3, <1>4, <2>1, NotDiffed DEF Diffed
<1>5. DiffOK(h.on)'
  <2> DEFINE d == computeDiff(manifest, claim[h.on])
  <2>1. diff'[h.on] = d /\ claim'[h.on] = claim[h.on]
    BY <1>1, <1>2, <1>3
  <2>2. /\ \A p \in d.changed : claim[h.on][p] # None
        /\ \A p \in d.removed : claim[h.on][p] = None
        /\ \A p \in Path : p \in d.changed \/ p \in d.removed \/ manifest[p] = claim[h.on][p]
    BY <1>1, DiffCovers
  <2> HIDE DEF d
  <2>3. ASSUME NEW p \in Path \ unsure' PROVE Carried(h.on, p)'
    <3>1. \A g \in handlers : Aims(g, p) => Makes(g) = claim[h.on][p]
      BY <1>2, <1>3, <2>3
    <3>2. p \in d.changed \/ p \in d.removed \/ Kept(p, claim[h.on][p])
      BY <1>2, <1>3, <2>2, <2>3
    <3>3. ~Aims(h, p) /\ FileAt(p)' = FileAt(p)
      BY <1>3 DEF FileAt, OnManifest, Aims
    <3>4. QED
      BY <1>3, <2>1, <3>1, <3>2, <3>3 DEF Carried, Kept
  <2>4. QED
    BY <2>1, <2>2, <2>3 DEF DiffOK
<1>6. QED
  BY <1>4, <1>5 DEF DiffOK

LEMMA DiffIsCarriedKept ==
  ASSUME TypeOK, OneRound, SocketInUse, DiffIsCarried, [Next]_vars
  PROVE  DiffIsCarried'
<1>1. /\ phase \in [Sock -> Phase] /\ claim \in [Sock -> Files]
      /\ wire \in [Sock -> Wire] /\ reply \in [Sock -> {"none", "diff", "synced"}]
      /\ diff \in [Sock -> [changed : SUBSET Path, removed : SUBSET Path]]
      /\ local \in Files
  BY PhaseTypes
<1>2. \A s \in Sock : DiffOK(s)
  BY DiffParts
<1>3. SUFFICES \A s \in Sock : DiffOK(s)'
  BY DEF DiffIsCarried, DiffOK, Diffed
<1>4. ASSUME FilesStep, UNCHANGED <<phase, claim, wire, reply, diff>>
      PROVE  \A s \in Sock : DiffOK(s)'
  BY <1>2, <1>4, DiffOKKept DEF Diffed
<1>5. ASSUME InitialSync \/ DebounceExpires, Run PROVE \A s \in Sock : DiffOK(s)'
  <2>1. UNCHANGED <<disk, handlers, unsure, claim, wire, reply, diff>>
    BY <1>5 DEF InitialSync, DebounceExpires, gvars
  <2>2. FilesStep
    BY <2>1, NothingCarried
  <2>3. \A s \in Sock : phase'[s] \in {phase[s], "walking"}
    BY <1>1, <1>5, RunBegins DEF Begins
  <2>4. QED
    BY <1>2, <2>1, <2>2, <2>3, DiffOKKept DEF Diffed
<1>6. ASSUME NEW s \in Sock, Resolved(s) \/ Rejected(s) PROVE \A r \in Sock : DiffOK(r)'
  <2>1. Over(s)
    BY <1>6, RoundIsOver
  <2>2. FilesStep
    BY <2>1, NothingCarried DEF Over
  <2>3. \A r \in Sock : phase'[r] \in {phase[r], "idle", "walking"}
    BY <1>1, <2>1 DEF Over
  <2>4. phase'[s] \in {"idle", "walking"} /\ reply'[s] = "none"
    BY <1>1, <2>1 DEF Over
  <2>5. ~Diffed(s)'
    BY <2>4 DEF Diffed
  <2>6. ASSUME NEW r \in Sock \ {s} PROVE DiffOK(r)'
    <3>1. UNCHANGED <<claim[r], diff[r], wire[r], reply[r]>>
      BY <1>1, <2>1 DEF Over
    <3>2. QED
      BY <1>2, <2>2, <2>3, <3>1, DiffOKKept DEF Diffed
  <2>7. QED
    BY <2>5, <2>6 DEF DiffOK
<1>7. ASSUME NEW s \in Sock, NEW p \in Path, Walk(s, p) PROVE \A r \in Sock : DiffOK(r)'
  <2>1. /\ UNCHANGED <<disk, handlers, unsure, phase, wire, reply, diff>>
        /\ \A r \in Sock \ {s} : claim'[r] = claim[r]
        /\ phase[s] = "walking"
    BY <1>1, <1>7 DEF Walk, gvars
  <2>2. FilesStep
    BY <2>1, NothingCarried
  <2>3. ~Diffed(s)'
    BY <2>1, NotDiffed DEF Diffed
  <2>4. \A r \in Sock \ {s} : DiffOK(r)'
    BY <1>2, <2>1, <2>2, DiffOKKept DEF Diffed
  <2>5. QED
    BY <2>3, <2>4 DEF DiffOK
<1>7a. ASSUME NEW s \in Sock, NEW S \in Hidden, WalkOmits(s, S)
       PROVE  \A r \in Sock : DiffOK(r)'
  <2>1. /\ UNCHANGED <<disk, handlers, unsure, phase, wire, reply, diff>>
        /\ \A r \in Sock \ {s} : claim'[r] = claim[r]
        /\ phase[s] = "walking"
    BY <1>1, <1>7a DEF WalkOmits
  <2>2. FilesStep
    BY <2>1, NothingCarried
  <2>3. ~Diffed(s)'
    BY <2>1, NotDiffed DEF Diffed
  <2>4. \A r \in Sock \ {s} : DiffOK(r)'
    BY <1>2, <2>1, <2>2, DiffOKKept DEF Diffed
  <2>5. QED
    BY <2>3, <2>4 DEF DiffOK
<1>8. ASSUME NEW s \in Sock, Advertise(s) PROVE \A r \in Sock : DiffOK(r)'
  <2> DEFINE m == [on |-> s, at |-> "manifest", files |-> claim[s]]
  <2>1. /\ handlers' = handlers \cup {m}
        /\ UNCHANGED <<disk, unsure, reply, diff, claim>>
        /\ wire' = [wire EXCEPT ![s] = "open"]
        /\ phase[s] = "walking" /\ phase' = [phase EXCEPT ![s] = "advertised"]
    BY <1>8 DEF Advertise, stored
  <2>2. \A p : ~Aims(m, p)
    BY DEF Aims
  <2> HIDE DEF m
  <2>3. FilesStep
    BY <2>1, <2>2 DEF FilesStep, Stays, FileAt
  <2>4. ~Diffed(s)'
    BY <1>1, <2>1, NotDiffed DEF Diffed
  <2>5. \A r \in Sock \ {s} : DiffOK(r)'
    BY <1>1, <1>2, <2>1, <2>3, DiffOKKept DEF Diffed
  <2>6. QED
    BY <2>4, <2>5 DEF DiffOK
<1>9. ASSUME NEW s \in Sock, TakeDiff(s) PROVE \A r \in Sock : DiffOK(r)'
  <2>1. /\ UNCHANGED <<disk, handlers, unsure, wire, diff, claim>>
        /\ \A r \in Sock : Diffed(r)' => Diffed(r)
    BY <1>1, <1>9 DEF TakeDiff, stored, Diffed
  <2>2. FilesStep
    BY <2>1, NothingCarried
  <2>3. QED
    BY <1>2, <2>1, <2>2, DiffOKKept
<1>10. ASSUME NEW s \in Sock, NEW p \in Path, Pushes(s, p)
       PROVE  \A r \in Sock : DiffOK(r)'
  <2>0. PICK frames : Pushed(s, p, frames)
    BY <1>10, PushesFrames
  <2>1. /\ phase[s] = "pushing" /\ p \in diff[s].changed
        /\ UNCHANGED <<disk, wire, reply, phase, claim>>
        /\ diff'[s].changed = diff[s].changed \ {p}
        /\ diff'[s].removed = diff[s].removed
        /\ unsure \subseteq unsure'
        /\ p \in unsure' \/ (frames = {FileFrame(s, p)} /\ local[p] = claim[s][p])
        /\ frames \subseteq {FileFrame(s, p)} /\ Post(s, frames)
    BY <1>1, <2>0 DEF Pushed, round
  <2>2. \A r \in Sock \ {s} : ~Diffed(r)'
    <3>1. \A r \in Sock \ {s} : phase[r] = "idle"
      BY <2>1 DEF OneRound
    <3>2. QED
      BY <2>1, <3>1, NotDiffed DEF Diffed
  <2>3. DiffOK(s) /\ Diffed(s)
    BY <1>2, <2>1 DEF Diffed
  <2>4. /\ \A q \in diff'[s].changed : claim'[s][q] # None
        /\ \A q \in diff'[s].removed : claim'[s][q] = None
    BY <2>1, <2>3 DEF DiffOK
  <2>5. ASSUME wire'[s] # "cut", NEW q \in Path \ unsure' PROVE Carried(s, q)'
    <3>1. Carried(s, q) /\ FileAt(q)' = FileAt(q)
      BY <2>1, <2>3, <2>5 DEF DiffOK, FileAt
    <3>2. CASE q # p
      <4>1. ~Aims(FileFrame(s, p), q)
        BY <3>2 DEF Aims, FileFrame
      <4>2. /\ handlers \subseteq handlers'
            /\ \A h \in handlers' : Aims(h, q) => h \in handlers
        BY <2>1, <4>1, PostIs
      <4>3. QED
        BY <2>1, <3>1, <3>2, <4>2 DEF Carried, Kept
    <3>3. CASE q = p
      <4> DEFINE m == FileFrame(s, p)
      <4>1. local[p] = claim[s][p] /\ frames = {m}
        BY <2>1, <2>5, <3>3
      <4>2. handlers' = handlers \cup {m}
        BY <2>1, <2>5, <4>1 DEF Post
      <4>3. Aims(m, p) /\ Makes(m) = local[p]
        BY DEF Aims, Makes, FileFrame
      <4>4. \A h \in handlers : Aims(h, p) => Makes(h) = claim[s][p]
        BY <2>1, <3>1, <3>3 DEF Carried
      <4> HIDE DEF m
      <4>5. QED
        BY <2>1, <3>3, <4>1, <4>2, <4>3, <4>4 DEF Carried, Kept
    <3>4. QED
      BY <3>2, <3>3
  <2>6. DiffOK(s)'
    BY <2>4, <2>5 DEF DiffOK
  <2>7. QED
    BY <2>2, <2>6 DEF DiffOK
<1>11. ASSUME NEW s \in Sock, PushRest(s) PROVE \A r \in Sock : DiffOK(r)'
  <2> DEFINE d == [on |-> s, at |-> "done", files |-> claim[s]]
             R == {[on |-> s, at |-> "remove", path |-> q] : q \in diff[s].removed}
  <2>1. /\ phase[s] = "pushing" /\ diff[s].changed = {}
        /\ UNCHANGED <<disk, unsure, wire, reply, claim>>
        /\ phase' = [phase EXCEPT ![s] = "sent"]
        /\ diff'[s] = NoDiff
        /\ Post(s, R \cup {d})
    BY <1>1, <1>11 DEF PushRest, stored
  <2>2. \A r \in Sock \ {s} : ~Diffed(r)'
    <3>1. \A r \in Sock \ {s} : phase[r] = "idle"
      BY <2>1 DEF OneRound
    <3>2. QED
      BY <1>1, <2>1, <3>1, NotDiffed DEF Diffed
  <2>3. DiffOK(s) /\ Diffed(s)
    BY <1>2, <2>1 DEF Diffed
  <2>4. ASSUME wire'[s] # "cut", NEW q \in Path \ unsure' PROVE Carried(s, q)'
    <3>1. Carried(s, q) /\ FileAt(q)' = FileAt(q)
      BY <2>1, <2>3, <2>4 DEF DiffOK, FileAt
    <3>2. handlers' = handlers \cup R \cup {d}
      BY <2>1, <2>4 DEF Post
    <3>3. /\ ~Aims(d, q)
          /\ \A g \in R : Aims(g, q) => q \in diff[s].removed /\ Makes(g) = None
          /\ q \in diff[s].removed => \E g \in R : Aims(g, q)
      <4> DEFINE r == [on |-> s, at |-> "remove", path |-> q]
      <4>1. Aims(r, q) /\ (q \in diff[s].removed => r \in R)
        BY DEF Aims
      <4>2. /\ ~Aims(d, q)
            /\ \A g \in R : Aims(g, q) => q \in diff[s].removed /\ Makes(g) = None
        BY DEF Aims, Makes
      <4> HIDE DEF r, d, R
      <4>3. QED
        BY <4>1, <4>2
    <3>4. q \in diff[s].removed => claim[s][q] = None
      BY <2>3 DEF DiffOK
    <3> HIDE DEF d, R
    <3>5. QED
      BY <2>1, <3>1, <3>2, <3>3, <3>4 DEF Carried, Kept, NoDiff
  <2>5. DiffOK(s)'
    BY <2>1, <2>4 DEF DiffOK, NoDiff
  <2>6. QED
    BY <2>2, <2>5 DEF DiffOK
<1>12. ASSUME \/ WatcherReady \/ Schedule \/ UNCHANGED vars
              \/ \E p \in Path, content \in Content \cup {None} : Edit(p, content)
       PROVE  \A s \in Sock : DiffOK(s)'
  BY <1>4, <1>12, NothingCarried
  DEF WatcherReady, Schedule, vars, gvars, avars, Edit, round
<1>13. ASSUME Server PROVE \A s \in Sock : DiffOK(s)'
  <2>1. GatewayNext /\ UNCHANGED avars
    BY <1>13 DEF Server
  <2>2. UNCHANGED <<phase, claim>>
    BY <2>1 DEF avars
  <2>3. ASSUME NEW h \in handlers, OnManifest(h), wire[h.on] = "open"
        PROVE  \A s \in Sock : DiffOK(s)'
    BY <2>1, <2>3, DiffIsSent
  <2>5. CASE FilesStep /\ ~\E h \in handlers : OnManifest(h) /\ wire[h.on] = "open"
    <3>1. ASSUME NEW s \in Sock
          PROVE  /\ wire[s] = "cut" => wire'[s] = "cut"
                 /\ diff'[s] = diff[s]
                 /\ reply'[s] = "diff" => reply[s] = "diff"
      BY <2>1, <2>5, ServerAnswers
    <3>2. QED
      BY <1>2, <2>2, <2>5, <3>1, DiffOKKept DEF Diffed
  <2>6. QED
    BY <2>1, <2>3, <2>5, ServerFiles, ManifestFiles
<1>14. QED
  BY <1>5, <1>6, <1>7, <1>7a, <1>8, <1>9, <1>10, <1>11, <1>12, <1>13, NextCases

-----------------------------------------------------------------------------
(* What an acknowledgement is worth                                        *)

SyncedOK(s) ==
  reply[s] = "synced" => \A p \in Path \ unsure : Kept(p, claim[s][p])

LastOK ==
  ~running /\ lastOk =>
    \A p \in Path \ (unsure \cup unnoticed) : RoundOwed \/ Kept(p, local[p])

LEMMA AckParts == AckIsKept <=> (\A s \in Sock : SyncedOK(s)) /\ LastOK
BY DEF AckIsKept, SyncedOK, LastOK

LEMMA SyncedOKKept ==
  ASSUME NEW s, SyncedOK(s), FilesStep, reply'[s] = "synced" => reply[s] = "synced",
         claim'[s] = claim[s]
  PROVE  SyncedOK(s)'
<1>1. SUFFICES ASSUME reply'[s] = "synced", NEW p \in Path \ unsure'
               PROVE  Kept(p, claim[s][p])'
  BY DEF SyncedOK
<1>2. p \in Path \ unsure /\ (Stays(p) \/ Done(p))
  BY <1>1 DEF FilesStep
<1>3. Kept(p, claim[s][p])
  BY <1>1, <1>2 DEF SyncedOK
<1>4. PICK content : content = claim[s][p]
  OBVIOUS
<1>5. Kept(p, content)'
  BY <1>2, <1>3, <1>4, KeptOn
<1>6. QED
  BY <1>4, <1>5 DEF Kept

(* The manifest is persisted: each path is in the store as it was          *)
(* advertised, or in the hands of a handler that makes it so.              *)
LEMMA AckIsEarned ==
  ASSUME TypeOK, SocketInUse, DiffIsCarried,
         NEW h \in handlers, OnDone(h), wire[h.on] = "open", UNCHANGED avars
  PROVE  SyncedOK(h.on)'
<1>1. h.on \in Sock /\ phase[h.on] = "sent" /\ diff[h.on] = NoDiff
  BY PhaseTypes DEF SocketInUse, OnDone
<1>2. handlers' = handlers \ {h} /\ UNCHANGED <<disk, unsure, claim>>
  BY DEF OnDone, Ends, avars
<1>3. ASSUME NEW p \in Path \ unsure'
      PROVE  Kept(p, claim[h.on][p])'
  <2>1. ~Aims(h, p)
    BY DEF Aims, OnDone
  <2>2. Carried(h.on, p)
    BY <1>1, <1>2, <1>3 DEF DiffIsCarried
  <2>3. Kept(p, claim[h.on][p])
    BY <1>1, <2>2 DEF Carried, NoDiff
  <2>4. QED
    BY <1>2, <2>1, <2>3 DEF Kept, FileAt
<1>4. QED
  BY <1>3 DEF SyncedOK

LEMMA SyncedOKByServer ==
  ASSUME TypeOK, OneRound, SocketInUse, DiffIsCarried, \A s \in Sock : SyncedOK(s),
         GatewayNext, UNCHANGED avars, NEW s \in Sock
  PROVE  SyncedOK(s)'
<1>1. UNCHANGED <<phase, claim>>
  BY DEF avars
<1>2. ASSUME NEW h \in handlers, OnManifest(h), wire[h.on] = "open"
      PROVE  SyncedOK(s)'
  <2>1. CASE s = h.on
    <3>1. reply'[s] = "diff"
      BY <1>2, <2>1, PhaseTypes DEF OnManifest, Send
    <3>2. QED
      BY <3>1 DEF SyncedOK
  <2>2. CASE s # h.on
    BY <1>2, <2>2, DiffIsSent DEF SyncedOK
  <2>3. QED
    BY <2>1, <2>2
<1>4. CASE FilesStep /\ ~\E h \in handlers : OnManifest(h) /\ wire[h.on] = "open"
  <2>1. CASE \E h \in handlers : OnDone(h) /\ wire[s] = "open" /\ h.on = s
    BY <2>1, AckIsEarned
  <2>2. CASE reply'[s] \in {reply[s], "none"}
    BY <1>1, <1>4, <2>2, SyncedOKKept
  <2>3. QED
    BY <1>4, <2>1, <2>2, ServerAnswers
<1>5. QED
  BY <1>2, <1>4, ServerFiles, ManifestFiles

LEMMA LastOKByServer ==
  ASSUME TypeOK, OneRound, SocketInUse, LastOK, GatewayNext, UNCHANGED avars
  PROVE  LastOK'
<1>1. SUFFICES ASSUME ~running, lastOk, NEW p \in Path \ (unsure' \cup unnoticed),
                      ~RoundOwed
               PROVE  Kept(p, local[p])'
  BY DEF LastOK, avars, RoundOwed, Kept
<1>2. \A h \in handlers : wire[h.on] # "open"
  BY <1>1, PhaseTypes DEF OneRound, SocketInUse
<1>3. CASE FilesStep
  <2>1. p \notin unsure /\ (Stays(p) \/ Done(p))
    BY <1>1, <1>3 DEF FilesStep
  <2>2. Kept(p, local[p])
    BY <1>1, <2>1 DEF LastOK
  <2>3. PICK content : content = local[p]
    OBVIOUS
  <2>4. Kept(p, content)'
    BY <2>1, <2>2, <2>3, KeptOn
  <2>5. QED
    BY <2>3, <2>4 DEF Kept, avars
<1>4. QED
  BY <1>2, <1>3, ServerFiles, ManifestFiles

LEMMA AckIsKeptOn ==
  ASSUME TypeOK, SyncInv, [Next]_vars
  PROVE  AckIsKept'
<1>1. /\ phase \in [Sock -> Phase] /\ claim \in [Sock -> Files]
      /\ wire \in [Sock -> Wire] /\ reply \in [Sock -> {"none", "diff", "synced"}]
      /\ local \in Files
  BY PhaseTypes
<1>2. /\ OneRound /\ SocketInUse /\ ClaimIsRecent /\ DiffIsCarried /\ LastOK
      /\ \A s \in Sock : SyncedOK(s)
  BY AckParts DEF SyncInv
<1>3. SUFFICES (\A s \in Sock : SyncedOK(s)') /\ LastOK'
  BY DEF AckIsKept, SyncedOK, LastOK
<1>4. ASSUME FilesStep, UNCHANGED <<claim, reply>>
      PROVE  \A s \in Sock : SyncedOK(s)'
  BY <1>2, <1>4, SyncedOKKept
<1>5. ASSUME UNCHANGED <<disk, handlers, unsure>>
      PROVE  FilesStep /\ \A p, content : Kept(p, content)' <=> Kept(p, content)
  BY <1>5, NothingCarried DEF Kept, FileAt
<1>6. ASSUME InitialSync \/ DebounceExpires, Run
      PROVE  (\A s \in Sock : SyncedOK(s)') /\ LastOK'
  <2>1. UNCHANGED <<disk, handlers, unsure, claim, reply>>
    BY <1>6 DEF InitialSync, DebounceExpires, gvars
  <2>2. running'
    BY <1>6, RunBegins
  <2>3. QED
    BY <1>4, <1>5, <2>1, <2>2 DEF LastOK
<1>7. ASSUME NEW s \in Sock, Resolved(s) \/ Rejected(s)
      PROVE  (\A r \in Sock : SyncedOK(r)') /\ LastOK'
  <2>1. Over(s)
    BY <1>7, RoundIsOver
  <2>2. UNCHANGED <<disk, handlers, unsure, local, unnoticed, unseen, timer>>
    BY <2>1 DEF Over
  <2>3. \A r \in Sock : SyncedOK(r)'
    <3>1. reply'[s] = "none"
      BY <1>1, <2>1 DEF Over
    <3>2. ASSUME NEW r \in Sock \ {s} PROVE SyncedOK(r)'
      <4>1. claim'[r] = claim[r] /\ reply'[r] = reply[r]
        BY <1>1, <2>1 DEF Over
      <4>2. QED
        BY <1>2, <1>5, <2>2, <4>1, SyncedOKKept
    <3>3. QED
      BY <3>1, <3>2 DEF SyncedOK
  <2>4. CASE Rejected(s)
    BY <2>3, <2>4 DEF Rejected, RoundEnds, LastOK
  <2>5. CASE Resolved(s)
    <3>1. phase[s] = "sent" /\ reply[s] = "synced"
      BY <2>5 DEF Resolved
    <3>2. CASE queued
      BY <1>2, <2>1, <2>3, <3>2 DEF Over, OneRound, LastOK
    <3>3. ASSUME ~queued, NEW p \in Path \ (unsure \cup unnoticed)
          PROVE  unseen \/ timer \/ Kept(p, local[p])
      <4>1. Kept(p, claim[s][p])
        BY <1>2, <3>1, <3>3 DEF SyncedOK
      <4>2. claim[s][p] = local[p] \/ unseen \/ timer
        BY <1>2, <3>1, <3>3 DEF ClaimIsRecent, RoundOwed
      <4>3. QED
        BY <4>1, <4>2
    <3>4. CASE ~queued
      BY <1>5, <2>2, <2>3, <3>3, <3>4 DEF LastOK, RoundOwed
    <3>5. QED
      BY <3>2, <3>4
  <2>6. QED
    BY <1>7, <2>4, <2>5
<1>8. ASSUME NEW s \in Sock, NEW p \in Path, Walk(s, p)
      PROVE  (\A r \in Sock : SyncedOK(r)') /\ LastOK'
  <2>1. /\ UNCHANGED <<disk, handlers, unsure, reply, running>>
        /\ \A r \in Sock \ {s} : claim'[r] = claim[r]
        /\ phase[s] = "walking"
    BY <1>1, <1>8 DEF Walk, gvars, command
  <2>2. running' /\ reply'[s] = "none"
    BY <1>2, <2>1, NotDiffed DEF OneRound
  <2>3. \A r \in Sock \ {s} : SyncedOK(r)'
    BY <1>2, <1>5, <2>1, SyncedOKKept
  <2>4. QED
    BY <2>2, <2>3 DEF SyncedOK, LastOK
<1>8a. ASSUME NEW s \in Sock, NEW S \in Hidden, WalkOmits(s, S)
       PROVE  (\A r \in Sock : SyncedOK(r)') /\ LastOK'
  <2>1. /\ UNCHANGED <<disk, handlers, unsure, reply, running>>
        /\ \A r \in Sock \ {s} : claim'[r] = claim[r]
        /\ phase[s] = "walking"
    BY <1>1, <1>8a DEF WalkOmits, command
  <2>2. running' /\ reply'[s] = "none"
    BY <1>2, <2>1, NotDiffed DEF OneRound
  <2>3. \A r \in Sock \ {s} : SyncedOK(r)'
    BY <1>2, <1>5, <2>1, SyncedOKKept
  <2>4. QED
    BY <2>2, <2>3 DEF SyncedOK, LastOK
<1>9. ASSUME NEW s \in Sock, Advertise(s) \/ TakeDiff(s) \/ PushRest(s)
             \/ \E p \in Path : Pushes(s, p)
      PROVE  (\A r \in Sock : SyncedOK(r)') /\ LastOK'
  <2>1. phase[s] \notin {"idle", "sent"} /\ UNCHANGED running
    BY <1>9, PushesFrames DEF Advertise, TakeDiff, PushRest, Pushed, command
  <2>2. running'
    BY <1>2, <2>1 DEF OneRound
  <2>3. \A r \in Sock : reply'[r] \in {reply[r], "none"}
    BY <1>1, <1>9, PushesFrames DEF Advertise, TakeDiff, PushRest, Pushed
  <2>4. \A r \in Sock : reply[r] # "synced"
    BY <1>1, <1>2, <2>1 DEF OneRound, SocketInUse
  <2>5. QED
    BY <2>2, <2>3, <2>4 DEF SyncedOK, LastOK
<1>10. ASSUME NEW p \in Path, NEW content \in Content \cup {None}, Edit(p, content)
       PROVE  (\A s \in Sock : SyncedOK(s)') /\ LastOK'
  <2>1. /\ UNCHANGED <<disk, handlers, unsure, reply, claim, running, lastOk, timer, queued>>
        /\ \A q \in Path \ {p} : local'[q] = local[q]
        /\ IF watch = "on"
           THEN unseen' = TRUE
           ELSE unnoticed' = unnoticed \cup {p} /\ UNCHANGED unseen
        /\ unnoticed \subseteq unnoticed'
    BY <1>1, <1>10 DEF Edit, gvars, round, Files
  <2>2. \A s \in Sock : SyncedOK(s)'
    BY <1>4, <1>5, <2>1
  <2>3. CASE watch = "on"
    <3>1. RoundOwed'
      BY <2>1, <2>3 DEF RoundOwed
    <3>2. QED
      BY <2>2, <3>1 DEF LastOK
  <2>4. CASE watch # "on"
    <3>1. RoundOwed => RoundOwed'
      BY <2>1, <2>4 DEF RoundOwed
    <3>2. ASSUME ~running, lastOk, NEW q \in Path \ (unsure \cup unnoticed'), ~RoundOwed
          PROVE  Kept(q, local[q])'
      <4>1. local'[q] = local[q] /\ q \notin unnoticed
        BY <2>1, <2>4, <3>2
      <4>2. Kept(q, local[q])
        BY <1>2, <3>2, <4>1 DEF LastOK
      <4>3. QED
        BY <2>1, <4>1, <4>2 DEF Kept, FileAt
    <3>3. QED
      BY <2>1, <2>2, <3>1, <3>2 DEF LastOK
  <2>5. QED
    BY <2>3, <2>4
<1>11. ASSUME WatcherReady \/ Schedule \/ UNCHANGED vars
       PROVE  (\A s \in Sock : SyncedOK(s)') /\ LastOK'
  <2>1. /\ UNCHANGED <<disk, handlers, unsure, reply, claim, local, unnoticed, running, lastOk>>
        /\ RoundOwed => RoundOwed'
    BY <1>11 DEF WatcherReady, Schedule, vars, gvars, avars, tree, round, RoundOwed
  <2>2. QED
    BY <1>2, <1>4, <1>5, <2>1 DEF LastOK
<1>12. CASE Server
  BY <1>2, <1>12, SyncedOKByServer, LastOKByServer DEF Server
<1>13. QED
  BY <1>6, <1>7, <1>8, <1>8a, <1>9, <1>10, <1>11, <1>12, NextCases

-----------------------------------------------------------------------------
(* cli-agent index.ts:100-103: one round at a time, each file of its diff  *)
(* in the diff, with a handler or right in the store, and a change the     *)
(* walk did not see owed a round, in every reachable state.                *)
THEOREM SyncInvariant == Spec => [](TypeOK /\ SyncInv)
<1>1. Init => SyncInv
  BY DEF Init, GatewayInit, SyncInv, OneRound, SocketInUse, ClaimIsRecent,
         DiffIsCarried, AckIsKept
<1>2. TypeOK /\ SyncInv /\ [Next]_vars => SyncInv'
  <2>1. ASSUME TypeOK, SyncInv, [Next]_vars PROVE SyncInv'
    BY <2>1, OneRoundKept, SocketInUseKept, ClaimIsRecentKept, DiffIsCarriedKept,
       AckIsKeptOn DEF SyncInv
  <2>2. QED
    BY <2>1
<1>3. QED
  BY <1>1, <1>2, TypeInvariant, PTL DEF Spec

(* cli-agent index.ts:100-103, sync.gateway.ts:197-198: when nothing is    *)
(* under way and the last round was acknowledged, the store has the        *)
(* developer's tree, but for the paths it was unsure of.                   *)
THEOREM QuietTree == Spec => []QuietMeansSynced
<1>1. SyncInv => QuietMeansSynced
  BY DEF SyncInv, AckIsKept, QuietMeansSynced, Quiet, RoundOwed, Kept
<1>2. QED
  BY <1>1, SyncInvariant, PTL

=============================================================================
