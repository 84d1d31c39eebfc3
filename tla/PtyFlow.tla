------------------------------ MODULE PtyFlow ------------------------------
(***************************************************************************)
(* One terminal from end to end: scripts/pty-client.mjs on one end of a    *)
(* socket, packages/pty-core on the other, its PTY behind it.  PtyGateway  *)
(* says how the connection lives; this module adds what passes over it:    *)
(* the frames, in order and held back by a slow reader, the PTY's output   *)
(* paused and resumed (applyBackpressure), and the exit code each end      *)
(* reports of the session.                                                 *)
(*                                                                         *)
(* A `data` frame is one unit of bufferedAmount, the others none.  What    *)
(* the network holds beyond the sender's buffer is not told apart from it. *)
(***************************************************************************)
EXTENDS PtyGateway, Naturals, Sequences

CONSTANTS
  c, s,        \* the connection, and the session it is for
  High, Low,   \* HIGH_WATER and LOW_WATER
  MaxOutput    \* bound: how often the PTY writes

ASSUME FlowAssumption ==
  c \in Conn /\ s \in Session /\ {High, Low, MaxOutput} \subseteq Nat /\ Low <= High

VARIABLES
  client,   \* what the script is about to do, see Client
  code,     \* the exit code it ended with
  inbox,    \* frames on their way to the gateway
  out,      \* frames on their way to the script, oldest first
  ws,       \* readyState of the gateway's end
  line,     \* FALSE once frames were lost with the connection
  paused, timer,   \* Conn.paused, Conn.drainTimer
  killed,   \* handle.kill() was called
  written,  \* how often the PTY has written
  (* history *)
  report,   \* the exit code onSessionExit was given
  late      \* the PTY was spawned for a socket that had closed

fvars == <<conn, client, code, inbox, out, ws, line, paused, timer, killed,
           written, report, late>>

None == "none"
Code == {"ok", "failed"}      \* zero, and any other

Client == {"login", "projects", "jobs", "connect", "open", "exited", "interrupted"}

Frame == {"ready", "data", "error"} \cup Code     \* an `exit` frame is its code

TypeOK ==
  /\ conn \in [Conn -> Conns]
  /\ client \in Client
  /\ code \in Code \cup {None}
  /\ inbox \in Seq({"start", "kill"}) /\ Len(inbox) <= 2
  /\ out \in Seq(Frame) /\ Len(out) <= MaxOutput + 2
  /\ ws \in {None, "open", "closing", "closed"}
  /\ {line, paused, timer, killed, late} \subseteq BOOLEAN
  /\ written \in 0..MaxOutput
  /\ report \in Code \cup {None}

Init ==
  /\ GatewayInit
  /\ client = "login" /\ code = None
  /\ inbox = <<>> /\ out = <<>>
  /\ ws = None /\ line = TRUE
  /\ paused = FALSE /\ timer = FALSE /\ killed = FALSE
  /\ written = 0
  /\ report = None /\ late = FALSE

wire   == <<inbox, out, line>>
script == <<client, code>>
flow   == <<paused, timer, killed, written>>
seen   == <<report, late>>

-----------------------------------------------------------------------------
(* scripts/pty-client.mjs                                                  *)

(* cleanup(k): ws.close() and process.exit(k).                             *)
Cleanup(k) == client' = "exited" /\ code' = k

(* Log in, list the projects, POST /jobs: one request after the other.     *)
Request ==
  /\ \/ client = "login" /\ client' = "projects"
     \/ client = "projects" /\ client' = "jobs"
     \/ client = "jobs" /\ client' = "connect"
  /\ UNCHANGED <<conn, code, wire, ws, flow, seen>>

(* A request fails, there is no project, or the socket does not open.      *)
RequestThrows ==
  /\ client \in {"login", "projects", "jobs", "connect"}
  /\ Cleanup("failed")
  /\ UNCHANGED <<conn, wire, ws, flow, seen>>

Connect ==
  /\ client = "connect"
  /\ Accept(c)
  /\ client' = "open"
  /\ ws' = "open"
  /\ inbox' = <<"start">>
  /\ UNCHANGED <<code, out, line, flow, seen>>

ClientReads ==
  /\ client = "open" /\ line /\ out # <<>>
  /\ out' = Tail(out)
  /\ CASE Head(out) \in {"ready", "data"} -> UNCHANGED script
       [] Head(out) = "error"             -> Cleanup("failed")
       [] Head(out) \in Code              -> Cleanup(Head(out))
  /\ UNCHANGED <<conn, inbox, line, ws, flow, seen>>

(* Faulty variant of Interrupt: the script stays and may be asked again.   *)
InterruptLingers ==
  /\ client = "open"
  /\ inbox' = Append(inbox, "kill")
  /\ UNCHANGED <<conn, script, out, line, ws, flow, seen>>

(* SIGINT: `kill` is sent, and the process exits without waiting for it to *)
(* arrive.  Before the socket is open send() throws (RequestThrows).       *)
Interrupt ==
  /\ client = "open"
  /\ inbox' = Append(inbox, "kill")
  /\ client' = "interrupted" /\ code' = "ok"
  /\ UNCHANGED <<conn, out, line, ws, flow, seen>>

(* The 'close' event of the script's end, or an 'error' before it.         *)
ClientSeesClose ==
  /\ client = "open"
  /\ ~line \/ (ws \in {"closing", "closed"} /\ out = <<>>)
  /\ Cleanup("ok") \/ (~line /\ Cleanup("failed"))
  /\ UNCHANGED <<conn, wire, ws, flow, seen>>

-----------------------------------------------------------------------------
(* packages/pty-core/src/gateway.ts                                        *)

Send(f) == out' = IF ws = "open" THEN Append(out, f) ELSE out

CloseSocket == ws' = IF ws = "open" THEN "closing" ELSE ws

(* What finish(k) does besides PtyGateway!Finish.                          *)
ClearTimer == timer' = FALSE
Report(k) == report' = IF Reports(c) THEN k ELSE report

Receive(m) ==
  /\ inbox # <<>> /\ Head(inbox) = m
  /\ ~conn[c].gone
  /\ inbox' = Tail(inbox)
  /\ UNCHANGED <<script, line, late>>

OnStart ==
  /\ Receive("start")
  /\ Start(c, s)
  /\ UNCHANGED <<out, ws, flow, report>>

(* The token has expired.                                                  *)
OnStartRejected ==
  /\ Receive("start")
  /\ Send("error")
  /\ CloseSocket
  /\ UNCHANGED <<conn, flow, report>>

(* Without a handle yet, `kill` is forgotten.                              *)
OnKill ==
  /\ Receive("kill")
  /\ killed' = (killed \/ conn[c].stage = "running")
  /\ UNCHANGED <<conn, out, ws, paused, timer, written, report>>

SpawnPty ==
  /\ Spawn(c)
  /\ Send("ready")
  /\ late' = conn[c].exited
  /\ UNCHANGED <<script, inbox, line, ws, flow, report>>

(* Faulty variant of SpawnThrows: close() without finish(1).               *)
SpawnThrowsUnfinished ==
  /\ conn[c].stage = "waiting"
  /\ conn' = [conn EXCEPT ![c].stage = "refused"]
  /\ Send("error")
  /\ CloseSocket
  /\ UNCHANGED <<script, inbox, line, flow, seen>>

SpawnThrows ==
  /\ SpawnFails(c, "refused")
  /\ Send("error")
  /\ ClearTimer
  /\ Report("failed")
  /\ CloseSocket
  /\ UNCHANGED <<script, inbox, line, paused, killed, written, late>>

bufferedAmount(frames) == Len(SelectSeq(frames, LAMBDA f : f = "data"))

(* Faulty variant of applyBackpressure: the interval is forgotten.         *)
applyBackpressureUntimed ==
  /\ paused' = (bufferedAmount(out') > High)
  /\ UNCHANGED timer

(* Called with the frame sent, when the PTY is not paused.                 *)
applyBackpressure ==
  IF bufferedAmount(out') > High
  THEN paused' = TRUE /\ timer' = TRUE
  ELSE UNCHANGED <<paused, timer>>

OnData ==
  /\ conn[c].stage = "running" /\ ~paused
  /\ written < MaxOutput
  /\ written' = written + 1
  /\ Send("data")
  /\ applyBackpressure
  /\ UNCHANGED <<conn, script, inbox, line, ws, killed, seen>>

Drain ==
  /\ timer
  /\ bufferedAmount(out) < Low \/ ws # "open"
  /\ paused' = FALSE
  /\ timer' = FALSE
  /\ UNCHANGED <<conn, script, wire, ws, killed, written, seen>>

(* Faulty variant of OnExit: only the service learns of it.                *)
OnExitUntold(k) ==
  /\ PtyExit(c)
  /\ ClearTimer
  /\ Report(k)
  /\ UNCHANGED <<script, wire, ws, paused, killed, written, late>>

OnExit(k) ==
  /\ PtyExit(c)
  /\ Send(k)
  /\ ClearTimer
  /\ Report(k)
  /\ CloseSocket
  /\ UNCHANGED <<script, inbox, line, paused, killed, written, late>>

(* Faulty variant of SocketCloses: finish() does not kill.                 *)
SocketClosesUnkilled ==
  /\ SocketClose(c)
  /\ ClearTimer
  /\ Report("ok")
  /\ ws' = "closed"
  /\ inbox' = <<>>
  /\ UNCHANGED <<script, paused, killed, written, late>>

(* The 'close' event of the gateway's end: finish(0), which kills.  The    *)
(* script is gone, or close() has done its handshake or given up on it, or *)
(* the connection was lost.                                                *)
SocketCloses ==
  /\ SocketClose(c)
  /\ ClearTimer
  /\ killed' = (killed \/ (~conn[c].exited /\ conn[c].stage = "running"))
  /\ Report("ok")
  /\ ws' = "closed"
  /\ inbox' = <<>>
  /\ UNCHANGED <<script, paused, written, late>>

Closes ==
  /\ SocketCloses
  /\ client \in {"exited", "interrupted"} \/ ~line \/ (ws = "closing" /\ out = <<>>)
  /\ UNCHANGED <<out, line>>

(* ws destroys the socket when the closing handshake takes 30 s: what a    *)
(* slow reader has not read by then is lost.                               *)
CloseGivesUp ==
  /\ SocketCloses
  /\ ws = "closing" /\ out # <<>>
  /\ line' = FALSE
  /\ UNCHANGED out

-----------------------------------------------------------------------------
(* The network drops the connection; neither end hears of it at once.      *)
Cut ==
  /\ ws \in {"open", "closing"} /\ line
  /\ line' = FALSE
  /\ UNCHANGED <<conn, script, inbox, out, ws, flow, seen>>

Gateway ==
  \/ OnStart \/ OnStartRejected \/ OnKill \/ SpawnPty \/ SpawnThrows
  \/ OnData \/ Drain \/ Closes \/ CloseGivesUp
  \/ \E k \in Code : OnExit(k)

Script ==
  Request \/ RequestThrows \/ Connect \/ ClientReads \/ Interrupt \/ ClientSeesClose

Next == Gateway \/ Script \/ Cut

Spec == Init /\ [][Next]_fvars

(* The script reads what comes; timers fire; a killed process exits; a     *)
(* closed socket raises its event, and a dead connection does when there   *)
(* is something to send on it.  An idle one may never be noticed: neither  *)
(* side sends pings.                                                       *)
FairSpec ==
  /\ Spec
  /\ WF_fvars(ClientReads)
  /\ WF_fvars(Drain)
  /\ WF_fvars(killed /\ \E k \in Code : OnExit(k))
  /\ WF_fvars(Closes /\ (line \/ out # <<>> \/ ws = "closing"))

-----------------------------------------------------------------------------
(* Properties                                                              *)

(* gateway.ts:93-95,180-184: a script that was told how its session ended  *)
(* exits with the code the service recorded, whether the process exited,   *)
(* was never spawned, or was paused in the middle of its output.  The two  *)
(* may differ if frames were lost, or the user interrupted the script.     *)
EndsAgree == client = "exited" /\ report # None /\ line => code = report

(* gateway.ts:207, session torn down on client disconnect: no PTY runs on  *)
(* without its socket unless it has been killed; except one spawned for a  *)
(* socket that closed while resolveSpawn waited.                           *)
PtyNeedsSocket ==
  ws = "closed" /\ conn[c].stage = "running" => killed \/ late

(* What makes the two and TypeOK inductive.  How far the script, the       *)
(* connection and the gateway's end of the socket are with each other:     *)
InboxOK == inbox \in {<<>>, <<"start">>, <<"kill">>, <<"start", "kill">>}

StartComes == inbox # <<>> /\ Head(inbox) = "start"

EndsInStep ==
  /\ client \in {"login", "projects", "jobs", "connect"} => ws = None
  /\ client \in {"open", "interrupted"} => ws # None
  /\ ws = None => inbox = <<>> /\ out = <<>> /\ report = None
  /\ ws = None <=> conn[c].stage = "unused"
  /\ ws \in {None, "open"} => ~conn[c].exited
  /\ ws = "closed" => conn[c].exited
  /\ InboxOK
  /\ client = "open" => inbox \in {<<>>, <<"start">>}
  /\ StartComes => ws = "open" /\ conn[c].stage = "open"

(* the gateway sends one `ready`, the output, and one frame that ends it;  *)
OutboxBound ==
  Len(out) <= written
                + (IF conn[c].stage \in {"running", "ended"} THEN 1 ELSE 0)
                + (IF ws \in {"closing", "closed"} THEN 1 ELSE 0)

(* that frame says what was reported, or nothing is ever reported; a       *)
(* script still waits while the frame is on its way, and has exited with   *)
(* what the frame said;                                                    *)
End == {"error"} \cup Code

NeverReported ==
  report = None /\ conn[c].stage \in {"unused", "open"} /\ ~StartComes

EndIsTold ==
  /\ report # None => conn[c].exited
  /\ \A i \in DOMAIN out :
       /\ out[i] \in Code => report = out[i]
       /\ out[i] = "error" => report = "failed" \/ NeverReported
  /\ client = "open" /\ ws = "closing" => out # <<>> /\ out[Len(out)] \in End
  /\ client = "open" /\ line => ws # "closed"
  /\ client = "exited" => code # None
  /\ client = "exited" /\ line => code = report \/ NeverReported

(* a PTY whose connection has finished was killed, or was spawned late.    *)
FinishKills ==
  conn[c].stage = "running" /\ conn[c].exited => killed \/ late

FlowInv == EndsInStep /\ OutboxBound /\ EndIsTold /\ FinishKills

(* gateway.ts:13-14: a PTY that was paused for a slow reader goes on when  *)
(* the reader catches up, or ends.                                         *)
PausedResumes == paused ~> (~paused \/ conn[c].stage # "running")

(* gateway.ts:180-184: the end of the process reaches the script past all  *)
(* the output in front of it, unless the connection is lost.               *)
EndReachesClient ==
  conn[c].stage = "ended" ~> (client # "open" \/ ~line)

=============================================================================
