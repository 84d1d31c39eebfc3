----------------------------- MODULE PtyGateway -----------------------------
(***************************************************************************)
(* packages/pty-core/src/gateway.ts: the PTY-over-WebSocket gateway that   *)
(* the execution worker and the desktop agent both embed.  Each phone      *)
(* socket gets a Conn; one `start` message resolves what to spawn (an      *)
(* await), then runs a PTY until it exits, the spawn fails or the socket   *)
(* closes.  The embedding service learns of the end through onSessionExit, *)
(* which finish() calls once, and only for a connection that has started.  *)
(*                                                                         *)
(* The actions change `conn` alone.  A service conjoins what its           *)
(* resolveSpawn and onSessionExit do to its own state: Reports(c), read in *)
(* the state before the action, says whether onSessionExit is called.      *)
(***************************************************************************)
EXTENDS Sessions

CONSTANTS
  Conn    \* sockets, each used once (a reconnecting phone is another Conn)

VARIABLE conn

(* unused:  the socket has not been accepted yet                           *)
(* open:    accepted, no valid `start` yet (a refused one leaves it here)  *)
(* waiting: started, in `await opts.resolveSpawn`                          *)
(* running: the PTY was spawned and its handle stored                      *)
(* ended:   the PTY exited, or could not be spawned for a resolved session *)
(* refused: resolveSpawn threw, or the gateway's process died              *)
Stage == {"unused", "open", "waiting", "running", "ended", "refused"}

Conns == [sess : Session \cup {NoSession},   \* none before the `start` message
          stage : Stage,
          gone : BOOLEAN,     \* the socket's 'close' event has fired
          exited : BOOLEAN]   \* finish() ran

GatewayInit ==
  conn = [c \in Conn |-> [sess |-> NoSession, stage |-> "unused",
                          gone |-> FALSE, exited |-> FALSE]]

-----------------------------------------------------------------------------
(* finish(): only the first call reports.  It also calls handle.kill(), as *)
(* the phone's `kill` message does; that only makes the PTY exit, and a    *)
(* PTY may exit at any time (PtyExit).                                     *)

Reports(c) ==
  /\ ~conn[c].exited
  /\ conn[c].stage \notin {"unused", "open"}

Finish(r) == [r EXCEPT !.exited = TRUE]

-----------------------------------------------------------------------------
Accept(c) ==
  /\ conn[c].stage = "unused"
  /\ conn' = [conn EXCEPT ![c].stage = "open"]

(* A `start` whose token is valid for s.  A rejected one sends an error and *)
(* closes the socket: until the close event the state is as before.        *)
Start(c, s) ==
  /\ conn[c].stage = "open"
  /\ ~conn[c].gone
  /\ conn' = [conn EXCEPT ![c].stage = "waiting", ![c].sess = s]

(* resolveSpawn and spawnPty succeeded.  Nothing here looks at `exited` or *)
(* at the socket again.                                                    *)
Spawn(c) ==
  /\ conn[c].stage = "waiting"
  /\ conn' = [conn EXCEPT ![c].stage = "running"]

(* The catch block: finish(1), then close.  `stage` tells a spawnPty that  *)
(* threw (ended) from a resolveSpawn that did (refused).                   *)
SpawnFails(c, stage) ==
  /\ conn[c].stage = "waiting"
  /\ conn' = [conn EXCEPT ![c] = [Finish(@) EXCEPT !.stage = stage]]

PtyExit(c) ==
  /\ conn[c].stage = "running"
  /\ conn' = [conn EXCEPT ![c] = [Finish(@) EXCEPT !.stage = "ended"]]

SocketClose(c) ==
  /\ conn[c].stage # "unused"
  /\ ~conn[c].gone
  /\ conn' = [conn EXCEPT ![c] = [Finish(@) EXCEPT !.gone = TRUE]]

(* The process that holds the gateway dies: every socket closes, no PTY    *)
(* survives its client, and no handler runs.                               *)
GatewayDies ==
  conn' = [c \in Conn |->
             IF conn[c].stage = "unused" THEN conn[c]
             ELSE [conn[c] EXCEPT !.stage = "refused", !.gone = TRUE,
                                  !.exited = TRUE]]

=============================================================================
