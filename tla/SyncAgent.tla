----------------------------- MODULE SyncAgent -----------------------------
(***************************************************************************)
(* services/cli-agent in watch mode, with the server it syncs to: a        *)
(* developer edits a tree; chokidar and a debounce timer ask for a sync;   *)
(* makeSerializedSync lets one round run at a time and owes one more to    *)
(* whoever asked meanwhile; syncOnce is the round.                         *)
(*                                                                         *)
(* A round walks the tree path by path, advertises what it saw, and reads  *)
(* the files it is asked for when their turn comes, all while the          *)
(* developer goes on editing.                                              *)
(***************************************************************************)
EXTENDS SyncGateway

CONSTANT MaxEdits   \* bound: changes of the tree after the agent started

ASSUME AgentAssumption == MaxEdits \in Nat

VARIABLES
  local,     \* the developer's tree
  (* the watch command *)
  watch,     \* initial: before its first sync; syncing: awaiting it;
             \* starting: chokidar scans the tree; on: it reports changes
  unseen,    \* a change chokidar has still to report
  timer,     \* the debounce timer is set
  running, queued,   \* makeSerializedSync
  lastOk,    \* whether the last round was resolved
  (* the round on each socket *)
  phase,
  todo,      \* the paths its walk has still to visit
  claim,     \* the manifest it builds and advertises
  (* history *)
  unnoticed, \* paths changed while chokidar did not watch, or which the walk
             \* could not read, and which no walk has read since
  edits

avars == <<local, watch, unseen, timer, running, queued, lastOk, phase, todo,
           claim, unnoticed, edits>>
vars  == <<gvars, avars>>

(* walking: in buildManifest; advertised: awaits the diff; pushing: in     *)
(* pushDiff; sent: awaits `synced`.                                        *)
Phase == {"idle", "walking", "advertised", "pushing", "sent"}

NoFiles == [p \in Path |-> None]

(* No file lies where another one needs a directory.                       *)
IsTree(files) ==
  \A p \in Path : files[p] # None => \A d \in DirsOf(p) : files[d] = None

TypeOK ==
  /\ GatewayTypeOK
  /\ local \in Files /\ IsTree(local)
  /\ watch \in {"initial", "syncing", "starting", "on"}
  /\ {unseen, timer, running, queued, lastOk} \subseteq BOOLEAN
  /\ phase \in [Sock -> Phase]
  /\ todo \in [Sock -> SUBSET Path]
  /\ claim \in [Sock -> Files]
  /\ unnoticed \subseteq Path
  /\ edits \in 0..MaxEdits

Init ==
  /\ GatewayInit
  /\ local \in {files \in Files : IsTree(files)}
  /\ watch = "initial"
  /\ unseen = FALSE /\ timer = FALSE
  /\ running = FALSE /\ queued = FALSE /\ lastOk = FALSE
  /\ phase = [s \in Sock |-> "idle"]
  /\ todo = [s \in Sock |-> {}]
  /\ claim = [s \in Sock |-> NoFiles]
  /\ unnoticed = {}
  /\ edits = 0

command == <<watch, unseen, timer, running, queued, lastOk>>
round   == <<phase, todo, claim>>
tree    == <<local, unnoticed, edits>>
stored  == <<disk, editor, manifest, unsure, faults>>

-----------------------------------------------------------------------------
(* The developer                                                           *)

Edit(p, content) ==
  /\ edits < MaxEdits
  /\ content # local[p]
  /\ local' = [local EXCEPT ![p] = content]
  /\ IsTree(local')
  /\ edits' = edits + 1
  /\ IF watch = "on"
     THEN unseen' = TRUE /\ UNCHANGED unnoticed
     ELSE unnoticed' = unnoticed \cup {p} /\ UNCHANGED unseen
  /\ UNCHANGED <<gvars, watch, timer, running, queued, lastOk, round>>

-----------------------------------------------------------------------------
(* makeSerializedSync                                                      *)

(* A socket of which nothing is left; they differ in nothing, so any one   *)
(* will do.                                                                *)
Unused == {s \in Sock : phase[s] = "idle" /\ \A h \in handlers : h.on # s}
OneOf(S) == IF S = {} THEN {} ELSE {CHOOSE s \in S : TRUE}

(* syncOnce is called: buildManifest begins.                               *)
Begin(s) ==
  /\ phase' = [phase EXCEPT ![s] = "walking"]
  /\ todo' = [todo EXCEPT ![s] = Path]
  /\ running' = TRUE

(* Faulty variant of Run: a burst during a sync is taken to be covered by  *)
(* it.                                                                     *)
RunUnlessRunning ==
  IF running
  THEN UNCHANGED <<queued, phase, todo, running>>
  ELSE \E s \in OneOf(Unused) : Begin(s) /\ UNCHANGED queued

Run ==
  IF running
  THEN queued' = TRUE /\ UNCHANGED <<phase, todo, running>>
  ELSE \E s \in OneOf(Unused) : Begin(s) /\ UNCHANGED queued

(* The round on s is over; the finally block starts the one that is owed.  *)
(* Whatever handlers the round has on the server go on.                    *)
RoundEnds(s, ok) ==
  /\ lastOk' = ok
  /\ watch' = IF watch = "syncing" THEN "starting" ELSE watch
  /\ queued' = FALSE
  /\ IF queued
     THEN \E r \in OneOf(Unused \cup {q \in {s} : \A h \in handlers : h.on # q}) :
            /\ phase' = [phase EXCEPT ![s] = "idle", ![r] = "walking"]
            /\ todo' = [todo EXCEPT ![s] = {}, ![r] = Path]
            /\ UNCHANGED running
     ELSE /\ phase' = [phase EXCEPT ![s] = "idle"]
          /\ todo' = [todo EXCEPT ![s] = {}]
          /\ running' = FALSE
  /\ claim' = [claim EXCEPT ![s] = NoFiles]
  /\ wire' = [wire EXCEPT ![s] = "closed"]
  /\ reply' = [reply EXCEPT ![s] = "none"]
  /\ diff' = [diff EXCEPT ![s] = NoDiff]
  /\ UNCHANGED <<stored, handlers, tree, unseen, timer>>

-----------------------------------------------------------------------------
(* The watch command                                                       *)

InitialSync ==
  /\ watch = "initial"
  /\ watch' = "syncing"
  /\ Run
  /\ UNCHANGED <<gvars, tree, claim, unseen, timer, lastOk>>

(* chokidar is set up after the first sync and reports nothing of what it  *)
(* finds then (ignoreInitial).                                             *)
WatcherReady ==
  /\ watch = "starting"
  /\ watch' = "on"
  /\ UNCHANGED <<gvars, tree, round, unseen, timer, running, queued, lastOk>>

Schedule ==
  /\ unseen
  /\ unseen' = FALSE
  /\ timer' = TRUE
  /\ UNCHANGED <<gvars, tree, round, watch, running, queued, lastOk>>

DebounceExpires ==
  /\ timer
  /\ timer' = FALSE
  /\ Run
  /\ UNCHANGED <<gvars, tree, claim, watch, unseen, lastOk>>

-----------------------------------------------------------------------------
(* syncOnce                                                                *)

Walk(s, p) ==
  /\ phase[s] = "walking"
  /\ p \in todo[s]
  /\ todo' = [todo EXCEPT ![s] = @ \ {p}]
  /\ claim' = [claim EXCEPT ![s][p] = local[p]]
  /\ unnoticed' = unnoticed \ {p}
  /\ UNCHANGED <<gvars, command, phase, local, edits>>

(* What one failure keeps from the walk: a file that cannot be read, or is *)
(* larger than MAX_FILE_BYTES; a directory that cannot be listed, be it    *)
(* the root.                                                               *)
Hidden == {{p} : p \in Path} \cup {Below(d) : d \in Path} \cup {Path}

(* The walk goes on without them: what exists is advertised as absent.     *)
WalkOmits(s, S) ==
  /\ phase[s] = "walking"
  /\ S \subseteq todo[s]
  /\ \E p \in S : local[p] # None
  /\ Fault
  /\ todo' = [todo EXCEPT ![s] = @ \ S]
  /\ claim' = [claim EXCEPT ![s] = [p \in Path |-> IF p \in S THEN None ELSE @[p]]]
  /\ unnoticed' = (unnoticed \ S) \cup {p \in S : local[p] # None}
  /\ UNCHANGED <<disk, editor, manifest, handlers, wire, reply, diff, unsure,
                 command, phase, local, edits>>

Advertise(s) ==
  /\ phase[s] = "walking"
  /\ todo[s] = {}
  /\ phase' = [phase EXCEPT ![s] = "advertised"]
  /\ wire' = [wire EXCEPT ![s] = "open"]
  /\ handlers' = handlers \cup {[on |-> s, at |-> "manifest", files |-> claim[s]]}
  /\ UNCHANGED <<stored, reply, diff, command, tree, todo, claim>>

TakeDiff(s) ==
  /\ phase[s] = "advertised"
  /\ reply[s] = "diff"
  /\ phase' = [phase EXCEPT ![s] = "pushing"]
  /\ reply' = [reply EXCEPT ![s] = "none"]
  /\ UNCHANGED <<stored, handlers, wire, diff, command, tree, todo, claim>>

(* send(): what is sent on a socket that was cut is lost.                  *)
Post(s, frames) ==
  handlers' = IF wire[s] = "cut" THEN handlers ELSE handlers \cup frames

(* The turn of p: frames are posted, and p is unsure or not.               *)
Turn(s, p, frames, doubt) ==
  /\ phase[s] = "pushing"
  /\ p \in diff[s].changed
  /\ diff' = [diff EXCEPT ![s].changed = @ \ {p}]
  /\ Post(s, frames)
  /\ unsure' = IF doubt THEN unsure \cup {p} ELSE unsure
  /\ UNCHANGED <<disk, editor, manifest, wire, reply, command, tree, round>>

FileFrame(s, p) == [on |-> s, at |-> "mkdir", path |-> p, content |-> local[p]]

(* Faulty variant of PushFile: a file that has gone is sent all the same.  *)
PushFileUnchecked(s, p) ==
  Turn(s, p, {FileFrame(s, p)}, local[p] # claim[s][p]) /\ UNCHANGED faults

(* readBase64: the content is the file's by now.  Unsure: what is no       *)
(* longer as it was advertised.                                            *)
PushFile(s, p) ==
  /\ local[p] # None
  /\ Turn(s, p, {FileFrame(s, p)}, local[p] # claim[s][p])
  /\ UNCHANGED faults

(* The file has gone, or cannot be read: it is skipped, and `done` will    *)
(* persist its hash all the same.                                          *)
PushSkips(s, p) ==
  /\ Turn(s, p, {}, TRUE)
  /\ (local[p] = None /\ UNCHANGED faults) \/ Fault

(* The removals and `done` follow the last read without an await.          *)
PushRest(s) ==
  /\ phase[s] = "pushing"
  /\ diff[s].changed = {}
  /\ phase' = [phase EXCEPT ![s] = "sent"]
  /\ diff' = [diff EXCEPT ![s] = NoDiff]
  /\ Post(s, {[on |-> s, at |-> "remove", path |-> p] : p \in diff[s].removed}
               \cup {[on |-> s, at |-> "done", files |-> claim[s]]})
  /\ UNCHANGED <<stored, wire, reply, command, tree, todo, claim>>

Resolved(s) ==
  /\ phase[s] = "sent"
  /\ reply[s] = "synced"
  /\ RoundEnds(s, TRUE)

(* The socket's close event, unless `synced` came before it.               *)
Rejected(s) ==
  /\ phase[s] \in {"advertised", "pushing", "sent"}
  /\ wire[s] \in {"closing", "cut"}
  /\ reply[s] = "none"
  /\ RoundEnds(s, FALSE)

-----------------------------------------------------------------------------
Agent ==
  \/ InitialSync \/ WatcherReady \/ Schedule \/ DebounceExpires
  \/ \E s \in Sock :
       \/ \E p \in Path : Walk(s, p) \/ PushFile(s, p) \/ PushSkips(s, p)
       \/ \E S \in Hidden : WalkOmits(s, S)
       \/ Advertise(s) \/ TakeDiff(s) \/ PushRest(s) \/ Resolved(s) \/ Rejected(s)

Server == GatewayNext /\ UNCHANGED avars

Next ==
  \/ Agent
  \/ Server
  \/ \E p \in Path, content \in Content \cup {None} : Edit(p, content)

Spec == Init /\ [][Next]_vars

(* The agent's process runs; the server's handlers come to an end, one way *)
(* or the other.  The developer owes nothing, and nothing need fail.       *)
FairSpec ==
  /\ Spec
  /\ WF_vars(Agent)
  /\ WF_vars(UNCHANGED avars /\ \E h \in handlers :
       \/ OnManifest(h) \/ OnFileMkdir(h) \/ OnFileWrite(h) \/ OnRemoved(h)
       \/ OnDone(h) \/ HandlerThrows(h))

-----------------------------------------------------------------------------
(* Properties                                                              *)

Quiet ==
  /\ watch = "on"
  /\ ~running /\ ~queued /\ ~timer /\ ~unseen
  /\ handlers = {}

(* cli-agent index.ts:100-103, sync.gateway.ts:197-198: when nothing is    *)
(* under way and the last round was acknowledged, the store has the        *)
(* developer's tree, however edits, rounds, handlers and the phone's       *)
(* editor interleaved.  Excepted are a path that changed before chokidar   *)
(* watched it, a file the walk could not read, and one the round was       *)
(* unsure of: the stored manifest was wrong about it already, an earlier   *)
(* round's handler was still to make something else of it, it changed      *)
(* between hash and read or could not be read again, its handler failed or *)
(* died, a recursive removal took it along, or the editor wrote or deleted *)
(* it since.  That holds of the latest round only: the next one is sure    *)
(* again of what it asks for.                                              *)
QuietMeansSynced ==
  Quiet /\ lastOk =>
    \A p \in Path \ (unnoticed \cup unsure) : FileAt(p) = local[p]

(* What makes it inductive, one part per stage a file passes through.  One *)
(* round at a time, and a second one is owed only while one runs;          *)
OneRound ==
  /\ running <=> \E s \in Sock : phase[s] # "idle"
  /\ \A s, t \in Sock : phase[s] # "idle" /\ phase[t] # "idle" => s = t
  /\ queued => running

(* a socket is in use from the manifest to the end of the round, and a     *)
(* handler left over by an earlier round cannot answer on it;              *)
SocketInUse ==
  /\ \A s \in Sock :
       /\ wire[s] # "closed" <=> phase[s] \in {"advertised", "pushing", "sent"}
       /\ reply[s] # "none" => wire[s] \in {"open", "closing"}
       /\ reply[s] = "diff" => phase[s] = "advertised"
       /\ reply[s] = "synced" => phase[s] = "sent"
       /\ phase[s] = "sent" => diff[s] = NoDiff
       /\ phase[s] = "walking" => \A h \in handlers : h.on # s
  /\ \A h \in handlers :
       wire[h.on] = "open" /\ h.at \in {"manifest", "done"} =>
         /\ phase[h.on] = IF h.at = "manifest" THEN "advertised" ELSE "sent"
         /\ reply[h.on] = "none"
         /\ h.files = claim[h.on]

(* what the walk saw is what the developer has, or a round will follow;    *)
RoundOwed == unseen \/ timer \/ queued

ClaimIsRecent ==
  \A s \in Sock, p \in Path \ unnoticed :
    \/ phase[s] = "idle"
    \/ phase[s] = "walking" /\ p \in todo[s]
    \/ claim[s][p] = local[p]
    \/ RoundOwed

(* once the diff is out, each path that is still sure to come out right is *)
(* in the diff, in the hands of a handler, or right in the store, unless   *)
(* the connection is lost;                                                 *)
Carried(s, p) ==
  IF p \in diff[s].changed \cup diff[s].removed
  THEN \A h \in handlers : Aims(h, p) => Makes(h) = claim[s][p]
  ELSE Kept(p, claim[s][p])

DiffIsCarried ==
  \A s \in Sock : phase[s] \in {"pushing", "sent"} \/ reply[s] = "diff" =>
    /\ \A p \in diff[s].changed : claim[s][p] # None
    /\ \A p \in diff[s].removed : claim[s][p] = None
    /\ wire[s] # "cut" => \A p \in Path \ unsure : Carried(s, p)

(* and an acknowledged round has left it right, or in the hands of its     *)
(* handlers, until the next one begins.                                    *)
AckIsKept ==
  /\ \A s \in Sock : reply[s] = "synced" =>
       \A p \in Path \ unsure : Kept(p, claim[s][p])
  /\ ~running /\ lastOk =>
       \A p \in Path \ (unsure \cup unnoticed) : RoundOwed \/ Kept(p, local[p])

SyncInv == OneRound /\ SocketInUse /\ ClaimIsRecent /\ DiffIsCarried /\ AckIsKept

(* cli-agent index.ts:100-103: a change that is reported while a round     *)
(* runs is picked up by a round that starts after it.                      *)
ChangeStartsRound ==
  unseen ~> \E s \in Sock : phase[s] = "walking" /\ todo[s] = Path

=============================================================================
