---------------------------- MODULE GitService ----------------------------
(***************************************************************************)
(* server/src/git: init, remote and commit of one project, run by `git`    *)
(* processes in the store's directory while the editor writes there.       *)
(* Every request is a row of git calls with an await after each, and       *)
(* nothing keeps two requests apart but git's own lock files, which make   *)
(* the later call fail.                                                    *)
(*                                                                         *)
(* `git add` looks at one path after the other and then replaces the index *)
(* at once; the other calls take effect at one moment.  A call that is in  *)
(* flight may hold its lock, so another one may be refused meanwhile.      *)
(***************************************************************************)
EXTENDS FilesController

CONSTANTS
  Request,        \* the POST requests; each may be sent as any operation
  HostIdentity,   \* the host has a git user configured
  MaxFaults       \* bound: deaths of the server and calls that fail by themselves

ASSUME GitAssumption == HostIdentity \in BOOLEAN /\ MaxFaults \in Nat

VARIABLES
  repo,       \* .git is there
  identity,   \* which of user.name and user.email its config has
  origin,     \* whose URL `origin` has; each request brings its own
  index, head,
  pc,         \* the git call each request waits for
  todo,       \* the paths its `git add .` has still to look at
  staged,     \* the index it is about to write
  stale,      \* index.lock of a git process that died
  faults,
  (* history *)
  seen,       \* what each path held since the request began
  swallowed   \* the keys whose addConfig failed, or died with the server

gitvars == <<disk, saving, repo, identity, origin, index, head, pc, todo,
             staged, stale, saves, faults, seen, swallowed>>

NoRequest == "none"
Key == {"name", "email"}

Pc == {"idle", "done", "failed", "status",
       "checkInit", "init", "name", "email",     \* init
       "getRemotes", "addRemote", "setUrl",      \* setRemote
       "add", "adding", "commit"}                \* commit

NoFiles == [p \in Path |-> None]
IsTree(files) ==
  \A p \in Path : files[p] # None => \A d \in DirsOf(p) : files[d] = None

TypeOK ==
  /\ StoreOK
  /\ FilesTypeOK
  /\ {repo, stale} \subseteq BOOLEAN
  /\ identity \subseteq Key /\ swallowed \subseteq Key
  /\ origin \in Request \cup {NoRequest}
  /\ {index, head} \subseteq {files \in Files : IsTree(files)}
  /\ pc \in [Request -> Pc]
  /\ todo \in [Request -> SUBSET Path]
  /\ staged \in [Request -> Files]
  /\ seen \in [Request -> [Path -> SUBSET (Content \cup {None})]]
  /\ faults \in 0..MaxFaults

Init ==
  /\ disk = [p \in Path |-> None] /\ saving = {}
  /\ repo = FALSE /\ identity = {} /\ origin = NoRequest
  /\ index = NoFiles /\ head = NoFiles
  /\ pc = [r \in Request |-> "idle"]
  /\ todo = [r \in Request |-> {}]
  /\ staged = [r \in Request |-> NoFiles]
  /\ stale = FALSE /\ saves = 0 /\ faults = 0
  /\ seen = [r \in Request |-> [p \in Path |-> {}]]
  /\ swallowed = {}

files   == <<disk, saving, saves, seen>>
config  == <<repo, identity, origin, swallowed>>
objects == <<index, head, stale>>
adding  == <<todo, staged>>

UnderWay(r) == pc[r] \notin {"idle", "done", "failed"}

Goes(r, from, to) == pc[r] = from /\ pc' = [pc EXCEPT ![r] = to]

-----------------------------------------------------------------------------
(* The editor                                                              *)

Watch == seen' = [r \in Request |-> [p \in Path |->
                    IF UnderWay(r) THEN seen[r][p] \cup {FileAt(p)'} ELSE seen[r][p]]]

Edits ==
  /\ \/ \E p \in Path : Delete(p) \/ \E content \in Content : Save(p, content)
     \/ \E w \in saving : SaveWrites(w) \/ SaveThrows(w)
  /\ Watch
  /\ UNCHANGED <<config, objects, adding, pc, faults>>

-----------------------------------------------------------------------------
(* A request comes in: ownership is checked, and checkIsRepo awaited.      *)

Begins(r, to) ==
  /\ Goes(r, "idle", to)
  /\ seen' = [seen EXCEPT ![r] = [p \in Path |-> {FileAt(p)}]]
  /\ UNCHANGED <<disk, saving, saves, config, objects, adding, faults>>

Arrives(r) ==
  \/ Begins(r, "checkInit")
  \/ Begins(r, IF repo THEN "getRemotes" ELSE "failed")
  \/ Begins(r, IF repo THEN "add" ELSE "failed")

Ends(r) ==
  /\ Goes(r, "status", "done")
  /\ UNCHANGED <<files, config, objects, adding, faults>>

-----------------------------------------------------------------------------
(* init: an existing repository is left as it is.                          *)

CheckIsRepo(r) ==
  /\ Goes(r, "checkInit", IF repo THEN "status" ELSE "init")
  /\ UNCHANGED <<files, config, objects, adding, faults>>

(* `git init` leaves a repository it finds as it is.                       *)
InitThen(r, to) ==
  /\ Goes(r, "init", to)
  /\ repo' = TRUE
  /\ UNCHANGED <<files, identity, origin, swallowed, objects, adding, faults>>

(* Faulty variant of GitInit: the answer does not wait for the identity.   *)
GitInitOnly(r) == InitThen(r, "status")

GitInit(r) == InitThen(r, "name")

(* Calls that write .git/config, and may hold config.lock.                 *)
ConfigLocked(r) ==
  \E q \in Request \ {r} : pc[q] \in {"init", "name", "email", "addRemote", "setUrl"}

Fault == faults < MaxFaults /\ faults' = faults + 1

Refused(r) == (ConfigLocked(r) /\ UNCHANGED faults) \/ Fault

(* `git init` fails, and may have come as far as making the repository,    *)
(* which later inits then find without setting the identity.               *)
InitFails(r) ==
  /\ Goes(r, "init", "failed")
  /\ Refused(r)
  /\ repo' \in {repo, TRUE}
  /\ swallowed' = IF repo' = repo THEN swallowed ELSE Key
  /\ UNCHANGED <<files, identity, origin, objects, adding>>

AddsConfig(r, email) ==
  /\ \/ Goes(r, "name", "email") /\ identity' = identity \cup {"name"}
     \/ Goes(r, "email", "status") /\ identity' = identity \cup {email}
  /\ UNCHANGED <<files, repo, origin, swallowed, objects, adding, faults>>

(* Faulty variant of AddConfig: the address under a key git does not read. *)
AddConfigMisnamed(r) == AddsConfig(r, "mail")

AddConfig(r) == AddsConfig(r, "email")

AddConfigSwallowed(r) ==
  /\ \/ Goes(r, "name", "email") /\ swallowed' = swallowed \cup {"name"}
     \/ Goes(r, "email", "status") /\ swallowed' = swallowed \cup {"email"}
  /\ Refused(r)
  /\ UNCHANGED <<files, repo, identity, origin, objects, adding>>

-----------------------------------------------------------------------------
(* setRemote                                                               *)

GetRemotes(r) ==
  /\ Goes(r, "getRemotes", IF origin = NoRequest THEN "addRemote" ELSE "setUrl")
  /\ UNCHANGED <<files, config, objects, adding, faults>>

WriteRemote(r) ==
  /\ \/ Goes(r, "addRemote", "done") /\ origin = NoRequest
     \/ Goes(r, "setUrl", "done")
  /\ origin' = r
  /\ UNCHANGED <<files, repo, identity, swallowed, objects, adding, faults>>

(* Another request has added `origin` meanwhile, or holds the lock.        *)
RemoteRefused(r) ==
  /\ \/ Goes(r, "addRemote", "failed") /\ (origin # NoRequest \/ ConfigLocked(r))
     \/ Goes(r, "setUrl", "failed") /\ ConfigLocked(r)
  /\ UNCHANGED <<files, config, objects, adding, faults>>

-----------------------------------------------------------------------------
(* commit: add('.'), then commit                                           *)

Locked(r) == stale \/ \E q \in Request \ {r} : pc[q] = "adding"

AddStarts(r) ==
  /\ ~Locked(r)
  /\ Goes(r, "add", "adding")
  /\ todo' = [todo EXCEPT ![r] = Path]
  /\ staged' = [staged EXCEPT ![r] = index]
  /\ UNCHANGED <<files, config, objects, faults>>

(* A file takes the place of what the index has above and below it.        *)
AddPath(r, p) ==
  /\ pc[r] = "adding"
  /\ p \in todo[r]
  /\ todo' = [todo EXCEPT ![r] = @ \ {p}]
  /\ staged' = [staged EXCEPT ![r] = [q \in Path |->
                  IF q = p THEN FileAt(p)
                  ELSE IF FileAt(p) # None /\ q \in DirsOf(p) \cup Below(p) THEN None
                  ELSE staged[r][q]]]
  /\ UNCHANGED <<files, config, objects, pc, faults>>

AddWrites(r, new) ==
  /\ todo[r] = {}
  /\ Goes(r, "adding", "commit")
  /\ index' = new
  /\ UNCHANGED <<files, config, head, stale, adding, faults>>

(* Faulty variant of AddEnds: what was added is not kept.                  *)
AddEndsUnwritten(r) == AddWrites(r, index)

AddEnds(r) == AddWrites(r, staged[r])

(* With nothing new in the index it answers `(no changes)`.                *)
Commit(r) ==
  /\ ~Locked(r)
  /\ Goes(r, "commit", "status")
  /\ head' = index
  /\ UNCHANGED <<files, config, index, stale, adding, faults>>

(* index.lock is there, also for the moment of another request's status;   *)
(* or git does not know who commits.                                       *)
CommitRefused(r) ==
  /\ \/ Goes(r, "add", "failed") \/ Goes(r, "commit", "failed")
  /\ \/ Locked(r)
     \/ \E q \in Request \ {r} : pc[q] \in {"commit", "status"}
     \/ pc[r] = "commit" /\ ~HostIdentity /\ identity # Key
  /\ UNCHANGED <<files, config, objects, adding, faults>>

-----------------------------------------------------------------------------
(* The server dies; git processes die with it or finish before.            *)
ServerDies ==
  /\ Fault
  /\ pc' = [r \in Request |-> IF UnderWay(r) THEN "failed" ELSE pc[r]]
  /\ stale' \in {stale, stale \/ \E r \in Request : pc[r] = "adding"}
  /\ repo' \in {repo, repo \/ \E r \in Request : pc[r] = "init"}
  /\ swallowed' = swallowed \cup
       {key \in Key : repo' /\ \E r \in Request : pc[r] \in {"init", "name", key}}
  /\ saving' = {}
  /\ UNCHANGED <<disk, saves, seen, identity, origin, index, head, adding>>

Next ==
  \/ Edits
  \/ \E r \in Request :
       \/ Arrives(r) \/ Ends(r)
       \/ CheckIsRepo(r) \/ GitInit(r) \/ InitFails(r)
       \/ AddConfig(r) \/ AddConfigSwallowed(r)
       \/ GetRemotes(r) \/ WriteRemote(r) \/ RemoteRefused(r)
       \/ AddStarts(r) \/ AddEnds(r) \/ Commit(r) \/ CommitRefused(r)
       \/ \E p \in Path : AddPath(r, p)
  \/ ServerDies

Spec == Init /\ [][Next]_gitvars

-----------------------------------------------------------------------------
(* Properties                                                              *)

(* git.service.ts:98-99: a commit that is answered holds, of every path, a *)
(* content it had since the request came in, though the editor writes and  *)
(* other requests add and commit in between, and whoever's call it was     *)
(* that made the commit.                                                   *)
CommitIsCurrent ==
  [][\A r \in Request :
       pc[r] = "commit" /\ pc'[r] = "status" => \A p \in Path : head'[p] \in seen[r][p]]_gitvars

(* git.service.ts:51-56, so commits work even when the host has no git     *)
(* user: once there is a repository and no init is under way, it has both  *)
(* keys of the identity, whichever inits ran together or failed; except a  *)
(* key whose own addConfig was refused, by the lock of another request or  *)
(* otherwise, or died, which no later init sets.                           *)
InitializedMeansReady ==
  repo /\ (\A r \in Request : pc[r] \notin {"checkInit", "init", "name", "email"})
    => identity \cup swallowed = Key

-----------------------------------------------------------------------------
(* What they rest on                                                       *)

(* A key that is not set yet is one that an init is still to set.          *)
IdentityInv ==
  repo =>
    /\ "name" \in identity \cup swallowed \/ \E r \in Request : pc[r] = "name"
    /\ \/ "email" \in identity \cup swallowed
       \/ \E r \in Request : pc[r] \in {"name", "email"}

(* What index.lock is there for.                                           *)
OneAdds == \A q, r \in Request : pc[q] = "adding" /\ pc[r] = "adding" => q = r

(* A request has seen what is in the store, what it staged, and, once its  *)
(* own add is through, what any other request stages or has put in the     *)
(* index.                                                                  *)
SeenInv ==
  /\ \A r \in Request : UnderWay(r) => \A p \in Path : FileAt(p) \in seen[r][p]
  /\ \A q, r \in Request :
       pc[q] = "adding" /\ (pc[r] = "commit" \/ r = q) =>
         \A p \in Path \ todo[q] : staged[q][p] \in seen[r][p]
  /\ \A r \in Request : pc[r] = "commit" => \A p \in Path : index[p] \in seen[r][p]

StagedTrees == \A r \in Request : IsTree(staged[r])

GitInv == OneAdds /\ SeenInv /\ StagedTrees

=============================================================================
