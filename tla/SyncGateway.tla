---------------------------- MODULE SyncGateway ----------------------------
(***************************************************************************)
(* server/src/sync: the /sync endpoint, over the file store and the        *)
(* project's stored manifest, beside the phone's editor.  Every frame      *)
(* starts a handler that nobody awaits: the handlers of one socket run     *)
(* concurrently, each up to its next await at a time, and `done` does not  *)
(* wait for the files before it.                                           *)
(*                                                                         *)
(* A frame is a handler from the moment it is sent, which only advances    *)
(* the handler's first, synchronous step.  The peer is open: any agent may *)
(* advertise any manifest and send any frame on a socket it has ready.     *)
(***************************************************************************)
EXTENDS FilesController

CONSTANTS
  Sock,      \* WebSocket connections; one is used again when nothing of it is left
  MaxFaults, \* bound: failures of the network, the disks, the database, the server
  MaxUpsets  \* bound: failures and requests of the editor together

ASSUME GatewayAssumption == MaxFaults \in Nat /\ MaxUpsets \in Nat

VARIABLES
  manifest,  \* project.manifest, the JSONB column
  handlers,  \* the message handlers that wait at an await
  wire,      \* what has become of each socket
  reply,     \* the server's last message on it, until the agent has it
  diff,      \* the diff it sent: what of it the agent has still to push
  unsure,    \* history: paths the latest round may leave other than it found
             \* them on the agent's side; the actions that add one say why
  faults

(* The editor's requests.                                                  *)
editor == <<saving, saves>>

gvars == <<disk, saving, saves, manifest, handlers, wire, reply, diff, unsure, faults>>

(* manifest: in projects.findOne; mkdir, write: in the two calls of        *)
(* writeBase64; remove: in rm; done: in updateManifest, with the           *)
(* pendingManifest read before.                                            *)
Handler ==
  [on : Sock, at : {"manifest", "done"}, files : Files]
    \cup [on : Sock, at : {"mkdir", "write"}, path : Path, content : Content]
    \cup [on : Sock, at : {"remove"}, path : Path]

(* closed: not in use; open; closing: the server has called ws.close();    *)
(* cut: nothing passes any more, and the agent has yet to notice.          *)
Wire == {"closed", "open", "closing", "cut"}

NoDiff == [changed |-> {}, removed |-> {}]

GatewayTypeOK ==
  /\ StoreOK /\ FilesTypeOK
  /\ manifest \in Files
  /\ handlers \subseteq Handler
  /\ wire \in [Sock -> Wire]
  /\ reply \in [Sock -> {"none", "diff", "synced"}]
  /\ diff \in [Sock -> [changed : SUBSET Path, removed : SUBSET Path]]
  /\ unsure \subseteq Path
  /\ faults \in 0..MaxFaults

(* A new project.                                                          *)
GatewayInit ==
  /\ disk = [p \in Path |-> None]
  /\ saving = {} /\ saves = 0
  /\ manifest = [p \in Path |-> None]
  /\ handlers = {}
  /\ wire = [s \in Sock |-> "closed"]
  /\ reply = [s \in Sock |-> "none"]
  /\ diff = [s \in Sock |-> NoDiff]
  /\ unsure = {}
  /\ faults = 0

-----------------------------------------------------------------------------
Fault == faults < MaxFaults /\ faults + saves < MaxUpsets /\ faults' = faults + 1

(* h goes on to g, or ends.                                                *)
Ends(h)     == handlers' = handlers \ {h}
GoesOn(h, g) == handlers' = (handlers \ {h}) \cup {g}

(* The catch block of onMessage: the socket is closed and nothing else.    *)
Close(s) ==
  wire' = IF wire[s] = "open" THEN [wire EXCEPT ![s] = "closing"] ELSE wire

(* send(): only on an open socket.                                         *)
Send(s, msg) ==
  reply' = IF wire[s] = "open" THEN [reply EXCEPT ![s] = msg] ELSE reply

(* h is to write or remove p, and what it makes of it.                     *)
Aims(h, p) == h.at \in {"mkdir", "write", "remove"} /\ h.path = p
Makes(h)   == IF h.at = "remove" THEN None ELSE h.content

(* p has that content, or will when the handlers that aim at it are done.  *)
Kept(p, content) ==
  /\ \A h \in handlers : Aims(h, p) => Makes(h) = content
  /\ (\E h \in handlers : Aims(h, p)) \/ FileAt(p) = content

(* Faulty variant of computeDiff: it does not compare the hashes.          *)
computeDiffByName(server, client) ==
  [changed |-> {p \in Path : client[p] # None /\ server[p] = None},
   removed |-> {p \in Path : client[p] = None /\ server[p] # None}]

computeDiff(server, client) ==
  [changed |-> {p \in Path : client[p] # None /\ client[p] # server[p]},
   removed |-> {p \in Path : client[p] = None /\ server[p] # None}]

-----------------------------------------------------------------------------
(* The handlers, from one await to the next                                *)

(* findOne has returned the project's row.  When the diff is sent, a path  *)
(* is unsure if an earlier round's handler is still to make something else *)
(* of it, or if the stored manifest is wrong about it, so that the diff    *)
(* does not ask for it.                                                    *)
OnManifest(h) ==
  /\ h.at = "manifest"
  /\ Send(h.on, "diff")
  /\ IF wire[h.on] = "open"
     THEN /\ diff' = [diff EXCEPT ![h.on] = computeDiff(manifest, h.files)]
          /\ unsure' = {p \in Path :
                          \/ \E g \in handlers : Aims(g, p) /\ Makes(g) # h.files[p]
                          \/ manifest[p] = h.files[p] /\ ~Kept(p, h.files[p])}
     ELSE UNCHANGED <<diff, unsure>>
  /\ Ends(h)
  /\ UNCHANGED <<disk, editor, manifest, wire, faults>>

OnFileMkdir(h) ==
  /\ h.at = "mkdir"
  /\ Mkdir(h.path)
  /\ GoesOn(h, [h EXCEPT !.at = "write"])
  /\ UNCHANGED <<editor, manifest, wire, reply, diff, unsure, faults>>

(* writeFile has finished; the ack that follows is ignored by the agent.   *)
OnFileWrite(h) ==
  /\ h.at = "write"
  /\ WriteFile(h.path, h.content)
  /\ Ends(h)
  /\ UNCHANGED <<editor, manifest, wire, reply, diff, unsure, faults>>

(* Unsure: what a recursive removal takes with it, if nobody is about to   *)
(* write it again.                                                         *)
OnRemoved(h) ==
  /\ h.at = "remove"
  /\ Remove(h.path)
  /\ unsure' = unsure \cup {q \in Below(h.path) :
                              FileAt(q) # None /\ \A g \in handlers : ~Aims(g, q)}
  /\ Ends(h)
  /\ UNCHANGED <<editor, manifest, wire, reply, diff, faults>>

(* updateManifest has finished, whether or not the files have arrived.     *)
OnDone(h) ==
  /\ h.at = "done"
  /\ manifest' = h.files
  /\ Send(h.on, "synced")
  /\ Ends(h)
  /\ UNCHANGED <<disk, editor, wire, diff, unsure, faults>>

Refused(h) ==
  \/ h.at = "mkdir" /\ ~CanMkdir(h.path)
  \/ h.at = "write" /\ ~CanWrite(h.path)
  \/ h.at = "remove" /\ ~CanRemove(h.path)

(* The file system refuses, or a disk or database call fails.  Unsure:     *)
(* what the handler was to write or remove.                                *)
HandlerThrows(h) ==
  /\ \/ Refused(h) /\ UNCHANGED faults
     \/ Fault
  /\ Close(h.on)
  /\ Ends(h)
  /\ unsure' = unsure \cup {p \in Path : Aims(h, p)}
  /\ UNCHANGED <<disk, editor, manifest, reply, diff>>

-----------------------------------------------------------------------------
(* The network goes, with a reply still on its way.                        *)
Cut(s) ==
  /\ wire[s] \in {"open", "closing"}
  /\ Fault
  /\ wire' = [wire EXCEPT ![s] = "cut"]
  /\ reply' = [reply EXCEPT ![s] = "none"]
  /\ UNCHANGED <<disk, editor, manifest, handlers, diff, unsure>>

(* The handlers die with the server.  Unsure: what they were to change.    *)
ServerDies ==
  /\ handlers # {} \/ saving # {}
  /\ Fault
  /\ handlers' = {}
  /\ saving' = {}
  /\ wire' = [s \in Sock |-> IF wire[s] = "closed" THEN "closed" ELSE "cut"]
  /\ reply' = [s \in Sock |-> "none"]
  /\ unsure' = unsure \cup {p \in Path : \E h \in handlers : Aims(h, p)}
  /\ UNCHANGED <<disk, saves, manifest, diff>>

(* The phone's editor writes to the same store, past the manifest.  Unsure: *)
(* what it changed.                                                        *)
Edits ==
  /\ \/ /\ \E p \in Path, content \in Content : Save(p, content)
        /\ UNCHANGED unsure
     \/ \E w \in saving :
          \/ SaveWrites(w) /\ unsure' = unsure \cup {w[1]}
          \/ SaveThrows(w) /\ UNCHANGED unsure
     \/ \E p \in Path : Delete(p) /\ unsure' = unsure \cup {p} \cup Below(p)
  /\ faults + saves' <= MaxUpsets
  /\ UNCHANGED <<manifest, handlers, wire, reply, diff, faults>>

GatewayNext ==
  \/ \E h \in handlers :
       \/ OnManifest(h) \/ OnFileMkdir(h) \/ OnFileWrite(h) \/ OnRemoved(h)
       \/ OnDone(h) \/ HandlerThrows(h)
  \/ \E s \in Sock : Cut(s)
  \/ ServerDies
  \/ Edits

=============================================================================
