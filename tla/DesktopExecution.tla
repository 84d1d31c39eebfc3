-------------------------- MODULE DesktopExecution --------------------------
(***************************************************************************)
(* The DESKTOP path: services/desktop-agent on the developer's machine     *)
(* tells the API by heartbeats that it is there, the API routes jobs to    *)
(* it, phones open shells through the agent's own PtyGateway, and one      *)
(* HTTP request per shell tells the API that it ended.                     *)
(*                                                                         *)
(* Requests are in flight from the moment fetch() is called: they arrive   *)
(* in any order, and are lost when a connection fails or the agent's       *)
(* process ends before they left it.  The agent repeats none of them.      *)
(* resolveSpawn is synchronous here, so a shell starts in the turn that    *)
(* handles `start`.                                                        *)
(***************************************************************************)
EXTENDS PtyGateway, Naturals

CONSTANTS
  MaxBoots,    \* bound: how often the agent is started
  MaxFaults    \* bound: how often a request is lost, a write refused, the API dies

ASSUME DesktopAssumption == {MaxBoots, MaxFaults} \subseteq Nat

VARIABLES
  presence,    \* the DesktopPresence row
  agent,       \* the agent's process, see Agent
  tunnelUrl,   \* whether this start of it has a POCKETDEV_TUNNEL_URL
  beats,       \* heartbeats in flight, each TRUE if it carries a URL
  goodbye,     \* POST /desktop/offline is in flight
  reports,     \* sessions whose close request is in flight
  create,      \* where the POST /jobs of each session waits
  jobRow, sessRow,
  closing,     \* close requests between their two writes
  boots, faults,
  (* history *)
  advertised,  \* a heartbeat with a URL has arrived
  lost         \* sessions the end of which could not be recorded

dvars == <<conn, presence, agent, tunnelUrl, beats, goodbye, reports, create,
           jobRow, sessRow, closing, boots, faults, advertised, lost>>

(* offlining: shutdown() awaits goOffline(); draining: awaits              *)
(* gateway.close(), which takes no new sockets and waits for the old ones. *)
Agent == {"off", "up", "offlining", "draining"}

(* fresh: for whom the last heartbeat is recent enough.  The window of     *)
(* status() is a constant, that of POST /jobs is configured.               *)
Reader == {"status", "jobs"}
Presence == [online : BOOLEAN, tunnelUrl : BOOLEAN, fresh : SUBSET Reader]

TypeOK ==
  /\ conn \in [Conn -> Conns]
  /\ presence \in Presence
  /\ agent \in Agent
  /\ {tunnelUrl, goodbye, advertised} \subseteq BOOLEAN
  /\ beats \subseteq BOOLEAN
  /\ reports \cup closing \cup lost \subseteq Session
  /\ create \in [Session -> {"route", "job", "session", "done", "failed", "cloud"}]
  /\ jobRow \in [Session -> {"none", "RUNNING", "SUCCEEDED"}]
  /\ sessRow \in [Session -> {"none", "ACTIVE", "CLOSED"}]
  /\ boots \in 0..MaxBoots /\ faults \in 0..MaxFaults

Init ==
  /\ GatewayInit
  /\ presence = [online |-> FALSE, tunnelUrl |-> FALSE, fresh |-> {}]
  /\ agent = "off" /\ tunnelUrl = FALSE
  /\ beats = {} /\ goodbye = FALSE /\ reports = {}
  /\ create = [s \in Session |-> "route"]
  /\ jobRow = [s \in Session |-> "none"]
  /\ sessRow = [s \in Session |-> "none"]
  /\ closing = {}
  /\ boots = 0 /\ faults = 0
  /\ advertised = FALSE /\ lost = {}

node    == <<agent, tunnelUrl, boots>>
sent    == <<beats, goodbye, reports>>
routing == <<presence, advertised>>
rows    == <<jobRow, sessRow>>
served  == <<create, rows, closing, faults, lost>>

-----------------------------------------------------------------------------
(* The agent's process                                                     *)

(* It heartbeats at once, then on an interval.                             *)
Boot ==
  /\ agent = "off" /\ boots < MaxBoots
  /\ boots' = boots + 1
  /\ agent' = "up"
  /\ tunnelUrl' \in BOOLEAN
  /\ beats' = beats \cup {tunnelUrl'}
  /\ UNCHANGED <<conn, goodbye, reports, routing, served>>

Beats(state) ==
  /\ agent \in state
  /\ beats' = beats \cup {tunnelUrl}
  /\ UNCHANGED <<conn, node, goodbye, reports, routing, served>>

(* Faulty variant of Heartbeat: shutdown() does not clear the interval.    *)
HeartbeatUncleared == Beats({"up", "offlining", "draining"})

Heartbeat == Beats({"up"})

(* shutdown(): the interval is cleared, goOffline() called.                *)
Shutdown ==
  /\ agent = "up"
  /\ agent' = "offlining"
  /\ goodbye' = TRUE
  /\ UNCHANGED <<conn, tunnelUrl, boots, beats, reports, routing, served>>

CloseGateway ==
  /\ agent = "offlining" /\ ~goodbye
  /\ agent' = "draining"
  /\ UNCHANGED <<conn, tunnelUrl, boots, sent, routing, served>>

(* What had not left the process goes with it.                             *)
ProcessEnds ==
  /\ agent' = "off"
  /\ beats' \in SUBSET beats
  /\ goodbye' \in {goodbye, FALSE}
  /\ reports' \in SUBSET reports
  /\ UNCHANGED <<tunnelUrl, boots, routing, create, rows, closing, faults>>

(* process.exit(0), in the turn in which the last socket has closed.       *)
Exit ==
  /\ agent = "draining"
  /\ \A c \in Conn : conn[c].stage = "unused" \/ conn[c].gone
  /\ ProcessEnds
  /\ lost' = lost \cup (reports \ reports')
  /\ UNCHANGED conn

(* The desktop is switched off, or the process killed.                     *)
Die ==
  /\ agent # "off"
  /\ ProcessEnds
  /\ GatewayDies
  /\ lost' = lost \cup (reports \ reports')
                  \cup {conn[c].sess : c \in {d \in Conn : Reports(d)}}

-----------------------------------------------------------------------------
(* The gateway in the agent                                                *)

(* onSessionExit: void closeSession(...).                                  *)
OnSessionExit(c) ==
  reports' = IF Reports(c) THEN reports \cup {conn[c].sess} ELSE reports

Open(c) ==
  /\ agent \in {"up", "offlining"}
  /\ Accept(c)
  /\ UNCHANGED <<node, sent, routing, served>>

(* `start` with the token that came with the answer to POST /jobs.         *)
StartShell(c, s) ==
  /\ agent # "off"
  /\ conn[c].stage = "open" /\ ~conn[c].gone
  /\ create[s] = "done"
  /\ conn' = [conn EXCEPT ![c].stage = "running", ![c].sess = s]
  /\ UNCHANGED <<node, sent, routing, served>>

(* The owner does not match, or spawnPty throws: finish(1) reports.        *)
StartFails(c, s) ==
  /\ agent # "off"
  /\ conn[c].stage = "open" /\ ~conn[c].gone
  /\ create[s] = "done"
  /\ conn' = [conn EXCEPT ![c].stage = "refused", ![c].sess = s, ![c].exited = TRUE]
  /\ reports' = reports \cup {s}
  /\ UNCHANGED <<node, beats, goodbye, routing, served>>

ShellExits(c) ==
  /\ PtyExit(c)
  /\ OnSessionExit(c)
  /\ UNCHANGED <<node, beats, goodbye, routing, served>>

HangUp(c) ==
  /\ SocketClose(c)
  /\ OnSessionExit(c)
  /\ UNCHANGED <<node, beats, goodbye, routing, served>>

-----------------------------------------------------------------------------
(* The API: presence and routing                                           *)

(* DesktopService.heartbeat; `known` is whether the row has a URL then.    *)
Upserts(url, known) ==
  /\ url \in beats
  /\ beats' = beats \ {url}
  /\ presence' = [online |-> TRUE, tunnelUrl |-> known, fresh |-> Reader]
  /\ advertised' = (advertised \/ url)
  /\ UNCHANGED <<conn, node, goodbye, reports, served>>

(* Faulty variant of HeartbeatArrives: a heartbeat without a URL clears it. *)
HeartbeatClears(url) == Upserts(url, url)

(* Prisma leaves a column alone that is given as undefined: a heartbeat    *)
(* without a URL keeps the one in the row.                                 *)
HeartbeatArrives(url) == Upserts(url, presence.tunnelUrl \/ url)

HeartbeatLost(url) ==
  /\ url \in beats
  /\ beats' = beats \ {url}
  /\ UNCHANGED <<conn, node, goodbye, reports, routing, served>>

OfflineArrives ==
  /\ goodbye
  /\ goodbye' = FALSE
  /\ presence' = [presence EXCEPT !.online = FALSE]
  /\ UNCHANGED <<conn, node, beats, reports, advertised, served>>

OfflineLost ==
  /\ goodbye
  /\ goodbye' = FALSE
  /\ UNCHANGED <<conn, node, beats, reports, routing, served>>

WindowExpires ==
  /\ \E w \in (SUBSET presence.fresh) \ {{}} :
       presence' = [presence EXCEPT !.fresh = @ \ w]
  /\ UNCHANGED <<conn, node, sent, advertised, served>>

(* JobsService.resolveTarget and DesktopService.status read the same row.  *)
resolveTarget ==
  IF presence.online /\ presence.tunnelUrl /\ "jobs" \in presence.fresh
  THEN "DESKTOP" ELSE "CLOUD"

status ==
  IF presence.online /\ "status" \in presence.fresh THEN "DESKTOP" ELSE "CLOUD"

-----------------------------------------------------------------------------
(* The API: a DESKTOP job, from POST /jobs to its close                    *)

Creates(s, from, to) ==
  /\ create[s] = from
  /\ create' = [create EXCEPT ![s] = to]
  /\ UNCHANGED <<conn, node, sent, routing, closing, lost>>

Route(s) ==
  /\ Creates(s, "route", IF resolveTarget = "DESKTOP" THEN "job" ELSE "cloud")
  /\ UNCHANGED <<rows, faults>>

CreatesJob(s, initial) ==
  /\ Creates(s, "job", "session")
  /\ jobRow' = [jobRow EXCEPT ![s] = initial]
  /\ UNCHANGED <<sessRow, faults>>

(* Faulty variant of CreateJob: every job starts QUEUED.                   *)
CreateJobQueued(s) == CreatesJob(s, "QUEUED")

CreateJob(s) == CreatesJob(s, "RUNNING")

OpenSession(s) ==
  /\ Creates(s, "session", "done")
  /\ sessRow' = [sessRow EXCEPT ![s] = "ACTIVE"]
  /\ UNCHANGED <<jobRow, faults>>

Fault == faults < MaxFaults /\ faults' = faults + 1

CreateThrows(s) ==
  /\ \E from \in {"job", "session"} : Creates(s, from, "failed")
  /\ Fault
  /\ UNCHANGED rows

(* Faulty variant of CloseSession: the job row is written first.           *)
CloseJobFirst(s) ==
  /\ jobRow' = [jobRow EXCEPT ![s] = "SUCCEEDED"]
  /\ closing' = closing \cup {s}
  /\ UNCHANGED <<conn, node, beats, goodbye, routing, create, sessRow, faults, lost>>

(* SessionsService.close, asked by the agent or by the user: markClosed's  *)
(* first write.                                                            *)
CloseSession(s) ==
  /\ sessRow' = [sessRow EXCEPT ![s] = "CLOSED"]
  /\ closing' = closing \cup {s}
  /\ UNCHANGED <<conn, node, beats, goodbye, routing, create, jobRow, faults, lost>>

ReportArrives(s) ==
  /\ s \in reports
  /\ reports' = reports \ {s}
  /\ CloseSession(s)

UserCloses(s) ==
  /\ create[s] = "done"
  /\ CloseSession(s)
  /\ UNCHANGED reports

(* The request never arrives, or fails before its first write.             *)
ReportLost(s) ==
  /\ s \in reports
  /\ reports' = reports \ {s}
  /\ lost' = lost \cup {s}
  /\ Fault
  /\ UNCHANGED <<conn, node, beats, goodbye, routing, create, rows, closing>>

(* markClosed's first write is refused, which is swallowed.                *)
CloseSwallowed(s) ==
  /\ \/ s \in reports /\ reports' = reports \ {s}
     \/ create[s] = "done" /\ UNCHANGED reports
  /\ closing' = closing \cup {s}
  /\ lost' = lost \cup {s}
  /\ Fault
  /\ UNCHANGED <<conn, node, beats, goodbye, routing, create, rows>>

Finishes(s, from) ==
  /\ s \in closing
  /\ closing' = closing \ {s}
  /\ jobRow' = [jobRow EXCEPT ![s] = IF @ \in from THEN "SUCCEEDED" ELSE @]
  /\ UNCHANGED <<conn, node, sent, routing, create, sessRow, faults, lost>>

(* Faulty variant of FinishJob: only QUEUED jobs are finished.             *)
FinishQueuedJob(s) == Finishes(s, {"QUEUED"})

(* markClosed's second write: nothing else ends a DESKTOP job.             *)
FinishJob(s) == Finishes(s, {"QUEUED", "RUNNING"})

FinishSwallowed(s) ==
  /\ s \in closing
  /\ closing' = closing \ {s}
  /\ lost' = lost \cup {s}
  /\ Fault
  /\ UNCHANGED <<conn, node, sent, routing, create, rows>>

(* The API's process ends with the requests it was serving.                *)
ApiDies ==
  /\ Fault
  /\ create' = [s \in Session |->
                  IF create[s] \in {"job", "session"} THEN "failed" ELSE create[s]]
  /\ closing' = {}
  /\ lost' = lost \cup closing
  /\ UNCHANGED <<conn, node, sent, routing, rows>>

-----------------------------------------------------------------------------
Desktop ==
  \/ Boot \/ Heartbeat \/ Shutdown \/ CloseGateway \/ Exit \/ Die
  \/ \E c \in Conn :
       \/ Open(c) \/ ShellExits(c) \/ HangUp(c)
       \/ \E s \in Session : StartShell(c, s) \/ StartFails(c, s)

Api ==
  \/ \E url \in BOOLEAN : HeartbeatArrives(url) \/ HeartbeatLost(url)
  \/ OfflineArrives \/ OfflineLost \/ WindowExpires
  \/ \E s \in Session :
       \/ Route(s) \/ CreateJob(s) \/ OpenSession(s) \/ CreateThrows(s)
       \/ ReportArrives(s) \/ ReportLost(s) \/ CloseSwallowed(s)
       \/ UserCloses(s) \/ FinishJob(s) \/ FinishSwallowed(s)
  \/ ApiDies

Next == Desktop \/ Api

Spec == Init /\ [][Next]_dvars

(* A request arrives or fails in the end, and time passes.                 *)
FairSpec ==
  /\ Spec
  /\ WF_dvars(\E url \in BOOLEAN : HeartbeatArrives(url) \/ HeartbeatLost(url))
  /\ WF_dvars(OfflineArrives \/ OfflineLost)
  /\ WF_dvars(WindowExpires)

-----------------------------------------------------------------------------
(* Properties                                                              *)

(* desktop-agent index.ts:44-47, sessions.service.ts:67-69: once a shell   *)
(* of a session has ended, the close of its rows is on its way or done,    *)
(* whatever shells, shutdown and user do meanwhile; unless it was lost     *)
(* with a request, a process or a refused write, which nothing repeats.    *)
EndIsUnderWay ==
  \A c \in Conn :
    conn[c].exited /\ conn[c].sess # NoSession =>
      LET s == conn[c].sess IN
      \/ s \in reports \cup closing \cup lost
      \/ sessRow[s] = "CLOSED" /\ jobRow[s] = "SUCCEEDED"

(* sessions.service.ts:60-76: a DESKTOP job that is shown as finished      *)
(* belongs to a closed session, also while close requests of agent and     *)
(* user interleave; unless the write of the session row was refused.       *)
SucceededIsClosed ==
  \A s \in Session :
    jobRow[s] = "SUCCEEDED" => sessRow[s] = "CLOSED" \/ s \in lost

(* desktop.service.ts:37, jobs.service.ts:134: GET /desktop/status names   *)
(* the target the next job will get; except before any heartbeat with a    *)
(* URL has arrived, when it may say DESKTOP and jobs go to the cloud, and  *)
(* while the age of the last one lies between the two windows.             *)
StatusTellsTheRoute ==
  advertised /\ presence.fresh \in {{}, Reader} => status = resolveTarget

(* BUILD-PLAN.md:60, heartbeat drops -> fall back to the cloud: once the   *)
(* agent has been asked to stop, or is gone, jobs go to the cloud for good,*)
(* though a heartbeat may overtake or outlive the offline message.         *)
FallsBackToCloud == <>[](agent # "up") => <>[](resolveTarget = "CLOUD")

-----------------------------------------------------------------------------
(* What the safety properties rest on                                      *)

(* A connection knows its session once it has started, and not before.     *)
NamedOnceStarted ==
  \A c \in Conn :
    /\ conn[c].stage \in {"unused", "open"} =>
         conn[c].sess = NoSession /\ (conn[c].exited => conn[c].gone)
    /\ Reports(c) => conn[c].sess \in Session

(* Whatever may end or close has been created in full, its rows in order.  *)
Begun(s) ==
  \/ s \in reports \cup closing
  \/ jobRow[s] = "SUCCEEDED"
  \/ \E c \in Conn : conn[c].sess = s

CreatedInOrder ==
  \A s \in Session :
    /\ Begun(s) => create[s] = "done"
    /\ create[s] \in {"session", "done"} => jobRow[s] # "none"

ClosingIsClosed == \A s \in closing : sessRow[s] = "CLOSED" \/ s \in lost

EndInv ==
  NamedOnceStarted /\ CreatedInOrder /\ ClosingIsClosed
    /\ EndIsUnderWay /\ SucceededIsClosed

(* The row keeps the URL of the first heartbeat that brought one.          *)
UrlIsKept == advertised => presence.tunnelUrl

=============================================================================
