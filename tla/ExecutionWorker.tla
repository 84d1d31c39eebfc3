-------------------------- MODULE ExecutionWorker --------------------------
(***************************************************************************)
(* services/execution-worker: the BullMQ consumer that gives each CLOUD    *)
(* session a container and holds a concurrency slot until the session      *)
(* ends, the registry that joins it to the PTY gateway, and the Docker     *)
(* calls it makes, with the worker's boot, shutdown and death.             *)
(*                                                                         *)
(* A session's job handler is a process whose steps are separated by its   *)
(* awaits; `pc` is where it waits.  Everything the handler or a callback   *)
(* does up to the next await is one action, since Node runs it without     *)
(* interruption: a timer that fires, the promise it settles and the        *)
(* registry.delete that follows are one step.                              *)
(*                                                                         *)
(* The environment is open: the API enqueues sessions and sends kills when *)
(* it likes, phones connect, PTYs exit, Docker calls fail and the process  *)
(* dies, each up to a named bound.                                         *)
(***************************************************************************)
EXTENDS ExecEvents, PtyGateway, FiniteSets

CONSTANTS
  Paid,          \* the sessions enqueued at the PAID priority
  Slots,         \* config.concurrency
  MaxRestarts,   \* bound: how often the worker process stops
  MaxFaults      \* bound: how often a Docker call fails for no modelled reason

ASSUME WorkerAssumption ==
  /\ Paid \subseteq Session
  /\ Slots \in Nat \ {0}
  /\ MaxRestarts \in Nat
  /\ MaxFaults \in Nat

VARIABLES
  (* Redis: survives the worker *)
  queue,      \* the BullMQ state of each session's entry
  stalls,     \* how often BullMQ found the entry stalled
  events,     \* every lifecycle event that reached Redis
  kills,      \* kill signals published and not yet received
  (* the Docker daemon: survives the worker *)
  container,  \* the container named pocketdev-<session>
  (* the worker process *)
  life,       \* whether it runs
  reap,       \* where reapOrphans is
  doomed,     \* the containers reapOrphans listed and has still to remove
  pc,         \* where each job handler waits
  registry,   \* the sessions in SessionRegistry.map
  connectTimer, \* whether the handler's connect timeout is pending
  exitCode,   \* what the handler's promise resolved to
  (* history *)
  dropped,    \* sessions with an event that never reached Redis
  stuck,      \* sessions whose container Docker failed to remove or to list
  restarts, faults

wvars == <<queue, stalls, events, kills, container, life, reap, doomed, pc,
           registry, connectTimer, exitCode, dropped, stuck, restarts,
           faults, conn>>

(* none: not enqueued; wait, active, completed, failed: BullMQ's own.      *)
QueueState == {"none", "wait", "active", "completed", "failed"}

(* idle:      no handler                                                   *)
(* creating:  in docker.createContainer                                    *)
(* starting:  in container.start                                           *)
(* scrapping: start failed, in container.remove                            *)
(* blocked:   registered, awaiting the promise that ends the session       *)
(* removing:  settled and unregistered, in destroyContainer                *)
(* returned:  session-exited published, BullMQ is recording the result     *)
(* threw:     session-error published, BullMQ is recording the failure     *)
Pc == {"idle", "creating", "starting", "scrapping", "blocked", "removing",
       "returned", "threw"}

TypeOK ==
  /\ queue \in [Session -> QueueState]
  /\ stalls \in [Session -> Attempt]
  /\ events \subseteq Event
  /\ kills \subseteq Session
  /\ container \in [Session -> {"none", "created", "running"}]
  /\ life \in {"down", "up", "closing"}
  /\ reap \in {"list", "remove", "done"}
  /\ doomed \subseteq Session
  /\ pc \in [Session -> Pc]
  /\ registry \subseteq Session
  /\ connectTimer \in [Session -> BOOLEAN]
  /\ exitCode \in [Session -> ExitCode]
  /\ dropped \subseteq Session
  /\ stuck \subseteq Session
  /\ restarts \in 0..MaxRestarts
  /\ faults \in 0..MaxFaults
  /\ conn \in [Conn -> Conns]

(* The worker is up and has nothing to reap.                               *)
Init ==
  /\ queue = [s \in Session |-> "none"]
  /\ stalls = [s \in Session |-> 0]
  /\ events = {}
  /\ kills = {}
  /\ container = [s \in Session |-> "none"]
  /\ life = "up"
  /\ reap = "done"
  /\ doomed = {}
  /\ pc = [s \in Session |-> "idle"]
  /\ registry = {}
  /\ connectTimer = [s \in Session |-> FALSE]
  /\ exitCode = [s \in Session |-> 0]
  /\ dropped = {}
  /\ stuck = {}
  /\ restarts = 0
  /\ faults = 0
  /\ GatewayInit

-----------------------------------------------------------------------------
(* Helpers                                                                 *)

(* ExecEvents.publish.  During shutdown events.close() has already sent    *)
(* QUIT on the connection, so what the handlers still publish is lost.     *)
Publish(e) ==
  IF life = "closing"
  THEN dropped' = dropped \cup {e.sess} /\ UNCHANGED events
  ELSE events' = events \cup {e} /\ UNCHANGED dropped

(* entry.release(code): the first call settles the promise, and its        *)
(* continuation unregisters the session before anything else can run.      *)
Release(s, code) ==
  IF s \in registry
  THEN /\ registry' = registry \ {s}
       /\ pc' = [pc EXCEPT ![s] = "removing"]
       /\ connectTimer' = [connectTimer EXCEPT ![s] = FALSE]
       /\ exitCode' = [exitCode EXCEPT ![s] = code]
  ELSE UNCHANGED <<registry, pc, connectTimer, exitCode>>

(* onSessionExit, when finish() calls it for c.                            *)
OnSessionExit(c, code) ==
  IF Reports(c) THEN Release(conn[c].sess, code)
  ELSE UNCHANGED <<registry, pc, connectTimer, exitCode>>

Fault == faults < MaxFaults /\ faults' = faults + 1

(* The order BullMQ hands out waiting entries: a stalled entry goes back   *)
(* to the head of the wait list, the others wait by priority.              *)
Rank(s) == IF stalls[s] > 0 THEN 0 ELSE IF s \in Paid THEN 1 ELSE 10

redis     == <<queue, stalls, kills>>
channel   == <<events, dropped>>
docker    == <<container, doomed, stuck, faults>>
process   == <<life, reap, restarts>>
handlers  == <<pc, registry, connectTimer, exitCode>>

-----------------------------------------------------------------------------
(* The API's side of the queue and of the control channel                  *)

Enqueue(s) ==
  /\ queue[s] = "none"
  /\ queue' = [queue EXCEPT ![s] = "wait"]
  /\ UNCHANGED <<stalls, kills, channel, docker, process, handlers, conn>>

SendKill(s) ==
  /\ kills' = kills \cup {s}
  /\ UNCHANGED <<queue, stalls, channel, docker, process, handlers, conn>>

-----------------------------------------------------------------------------
(* The job handler                                                         *)

Take(s) ==
  /\ life = "up"
  /\ queue[s] = "wait"
  /\ \A t \in Session : queue[t] = "wait" => Rank(s) <= Rank(t)
  /\ Cardinality({t \in Session : pc[t] # "idle"}) < Slots
  /\ queue' = [queue EXCEPT ![s] = "active"]
  /\ pc' = [pc EXCEPT ![s] = "creating"]
  /\ UNCHANGED <<stalls, kills, channel, docker, process, registry,
                 connectTimer, exitCode, conn>>

CreateContainer(s) ==
  /\ pc[s] = "creating"
  /\ container[s] = "none"
  /\ container' = [container EXCEPT ![s] = "created"]
  /\ pc' = [pc EXCEPT ![s] = "starting"]
  /\ UNCHANGED <<redis, channel, doomed, stuck, faults, process, registry,
                 connectTimer, exitCode, conn>>

(* The name is taken by a container of an earlier run, or Docker refuses.  *)
CreateFails(s) ==
  /\ pc[s] = "creating"
  /\ \/ container[s] # "none" /\ UNCHANGED faults
     \/ Fault
  /\ Publish(Errored(s, stalls[s]))
  /\ pc' = [pc EXCEPT ![s] = "threw"]
  /\ UNCHANGED <<redis, container, doomed, stuck, process, registry,
                 connectTimer, exitCode, conn>>

(* container.start resolved: publish session-started, arm the two timers   *)
(* and register, in one step.                                              *)
StartContainer(s) ==
  /\ pc[s] = "starting"
  /\ container[s] = "created"
  /\ container' = [container EXCEPT ![s] = "running"]
  /\ Publish(Started(s, stalls[s]))
  /\ pc' = [pc EXCEPT ![s] = "blocked"]
  /\ registry' = registry \cup {s}
  /\ connectTimer' = [connectTimer EXCEPT ![s] = TRUE]
  /\ UNCHANGED <<redis, doomed, stuck, faults, process, exitCode, conn>>

(* Faulty variant of StartFails: no removal of what failed to start.       *)
StartFailsLeaking(s) ==
  /\ pc[s] = "starting"
  /\ \/ container[s] = "none" /\ UNCHANGED faults
     \/ Fault
  /\ Publish(Errored(s, stalls[s]))
  /\ pc' = [pc EXCEPT ![s] = "threw"]
  /\ UNCHANGED <<redis, container, doomed, stuck, process, registry,
                 connectTimer, exitCode, conn>>

(* The container was reaped under the handler, or Docker refuses.          *)
StartFails(s) ==
  /\ pc[s] = "starting"
  /\ \/ container[s] = "none" /\ UNCHANGED faults
     \/ Fault
  /\ pc' = [pc EXCEPT ![s] = "scrapping"]
  /\ UNCHANGED <<redis, channel, container, doomed, stuck, process, registry,
                 connectTimer, exitCode, conn>>

(* container.remove, whose own failure is swallowed: the container may     *)
(* stay.                                                                   *)
RemoveContainer(s) ==
  \/ /\ container' = [container EXCEPT ![s] = "none"]
     /\ stuck' = stuck \ {s}
     /\ UNCHANGED faults
  \/ /\ container[s] # "none"
     /\ Fault
     /\ stuck' = stuck \cup {s}
     /\ UNCHANGED container

(* The handler removes its own container: once that is gone, reapOrphans   *)
(* has nothing of it left to remove.                                       *)
DropContainer(s) ==
  /\ RemoveContainer(s)
  /\ doomed' = IF container'[s] = "none" THEN doomed \ {s} ELSE doomed

(* Faulty variant of Scrap: the error is thrown before it is published.    *)
ScrapUnreported(s) ==
  /\ pc[s] = "scrapping"
  /\ DropContainer(s)
  /\ pc' = [pc EXCEPT ![s] = "threw"]
  /\ UNCHANGED <<redis, channel, process, registry, connectTimer, exitCode, conn>>

Scrap(s) ==
  /\ pc[s] = "scrapping"
  /\ DropContainer(s)
  /\ Publish(Errored(s, stalls[s]))
  /\ pc' = [pc EXCEPT ![s] = "threw"]
  /\ UNCHANGED <<redis, process, registry, connectTimer, exitCode, conn>>

ConnectTimeout(s) ==
  /\ pc[s] = "blocked"
  /\ connectTimer[s]
  /\ Release(s, 0)
  /\ UNCHANGED <<redis, channel, docker, process, conn>>

(* Faulty variants of MaxDuration: done() neither clears the timer nor     *)
(* checks `settled`; attached() clears this timer too.                     *)
MaxDurationUnsettled(s) ==
  /\ pc[s] \in {"blocked", "removing", "returned"}
  /\ registry' = registry \ {s}
  /\ pc' = [pc EXCEPT ![s] = "removing"]
  /\ connectTimer' = [connectTimer EXCEPT ![s] = FALSE]
  /\ exitCode' = [exitCode EXCEPT ![s] = 124]
  /\ UNCHANGED <<redis, channel, docker, process, conn>>

MaxDurationCancelled(s) ==
  /\ pc[s] = "blocked"
  /\ connectTimer[s]
  /\ Release(s, 124)
  /\ UNCHANGED <<redis, channel, docker, process, conn>>

MaxDuration(s) ==
  /\ pc[s] = "blocked"
  /\ Release(s, 124)
  /\ UNCHANGED <<redis, channel, docker, process, conn>>

DestroyContainer(s) ==
  /\ pc[s] = "removing"
  /\ DropContainer(s)
  /\ Publish(Exited(s, stalls[s], exitCode[s]))
  /\ pc' = [pc EXCEPT ![s] = "returned"]
  /\ UNCHANGED <<redis, process, registry, connectTimer, exitCode, conn>>

(* BullMQ records the result of the handler.                               *)
Settle(s, from, to) ==
  /\ pc[s] = from
  /\ queue' = [queue EXCEPT ![s] = to]
  /\ pc' = [pc EXCEPT ![s] = "idle"]
  /\ exitCode' = [exitCode EXCEPT ![s] = 0]
  /\ UNCHANGED <<stalls, kills, channel, docker, process, registry,
                 connectTimer, conn>>

Complete(s) == Settle(s, "returned", "completed")
Fail(s)     == Settle(s, "threw", "failed")

(* The kill signal arrives; it is forgotten if the session is not          *)
(* registered at that moment.                                              *)
OnControl(s) ==
  /\ life = "up"
  /\ s \in kills
  /\ kills' = kills \ {s}
  /\ Release(s, 137)
  /\ UNCHANGED <<queue, stalls, channel, docker, process, conn>>

-----------------------------------------------------------------------------
(* The PTY gateway, with this service's resolveSpawn and onSessionExit     *)

Open(c) ==
  /\ life = "up"
  /\ Accept(c)
  /\ UNCHANGED <<redis, channel, docker, process, handlers>>

(* The phone has its token once the API answered, so once s is enqueued.   *)
StartMessage(c, s) ==
  /\ queue[s] # "none"
  /\ Start(c, s)
  /\ UNCHANGED <<redis, channel, docker, process, handlers>>

(* registry.waitFor finds the entry; attached() and the spawn follow in    *)
(* the same turn.                                                          *)
Attach(c) ==
  /\ conn[c].sess \in registry
  /\ Spawn(c)
  /\ connectTimer' = [connectTimer EXCEPT ![conn[c].sess] = FALSE]
  /\ UNCHANGED <<redis, channel, docker, process, pc, registry, exitCode>>

(* Faulty variant of AttachFails: the catch block does not call finish().  *)
AttachFailsUnfinished(c) ==
  /\ conn[c].sess \in registry
  /\ SpawnFails(c, "ended")
  /\ connectTimer' = [connectTimer EXCEPT ![conn[c].sess] = FALSE]
  /\ UNCHANGED <<redis, channel, docker, process, pc, registry, exitCode>>

(* As Attach, but spawnPty throws after attached() was called.             *)
AttachFails(c) ==
  /\ conn[c].sess \in registry
  /\ SpawnFails(c, "ended")
  /\ IF Reports(c) THEN Release(conn[c].sess, 1)
     ELSE /\ connectTimer' = [connectTimer EXCEPT ![conn[c].sess] = FALSE]
          /\ UNCHANGED <<pc, registry, exitCode>>
  /\ UNCHANGED <<redis, channel, docker, process>>

(* waitFor gives up: only when the last look found no entry.               *)
QueueWaitExpires(c) ==
  /\ conn[c].sess \notin registry
  /\ SpawnFails(c, "refused")
  /\ OnSessionExit(c, 1)
  /\ UNCHANGED <<redis, channel, docker, process>>

PtyEnds(c, code) ==
  /\ PtyExit(c)
  /\ OnSessionExit(c, code)
  /\ UNCHANGED <<redis, channel, docker, process>>

HangUp(c) ==
  /\ SocketClose(c)
  /\ OnSessionExit(c, 0)
  /\ UNCHANGED <<redis, channel, docker, process>>

-----------------------------------------------------------------------------
(* Boot, the removal of leftover containers, shutdown and death.  The      *)
(* BullMQ worker and the gateway take work from the moment the process is  *)
(* up, while main() is still reaping.                                      *)

Boot ==
  /\ life = "down"
  /\ life' = "up"
  /\ reap' = "list"
  /\ kills' = {}
  /\ UNCHANGED <<queue, stalls, channel, docker, restarts, handlers, conn>>

ReapList ==
  /\ life # "down"
  /\ reap = "list"
  /\ doomed' = {s \in Session : container[s] # "none"}
  /\ reap' = "remove"
  /\ UNCHANGED <<redis, channel, container, stuck, faults, life, restarts,
                 handlers, conn>>

(* Docker did not answer the ping or the listing.                          *)
ReapSkipped ==
  /\ life # "down"
  /\ reap = "list"
  /\ Fault
  /\ stuck' = stuck \cup {s \in Session : container[s] # "none"}
  /\ reap' = "remove"
  /\ UNCHANGED <<redis, channel, container, doomed, life, restarts, handlers,
                 conn>>

ReapRemove(s) ==
  /\ s \in doomed
  /\ RemoveContainer(s)
  /\ doomed' = doomed \ {s}
  /\ UNCHANGED <<redis, channel, process, handlers, conn>>

ReapDone ==
  /\ reap = "remove"
  /\ doomed = {}
  /\ reap' = "done"
  /\ UNCHANGED <<redis, channel, docker, life, restarts, handlers, conn>>

(* SIGTERM: stop taking work, quit Redis, reap everything, and wait.       *)
Shutdown ==
  /\ life = "up"
  /\ restarts < MaxRestarts
  /\ restarts' = restarts + 1
  /\ life' = "closing"
  /\ reap' = "list"
  /\ UNCHANGED <<redis, channel, docker, handlers, conn>>

Stop ==
  /\ life' = "down"
  /\ reap' = "done"
  /\ doomed' = {}
  /\ pc' = [s \in Session |-> "idle"]
  /\ registry' = {}
  /\ connectTimer' = [s \in Session |-> FALSE]
  /\ exitCode' = [s \in Session |-> 0]
  /\ GatewayDies
  /\ UNCHANGED <<redis, channel, container, stuck, faults>>

(* worker.close(), gateway.close() and reapOrphans() have resolved.        *)
ShutdownDone ==
  /\ life = "closing"
  /\ \A s \in Session : pc[s] = "idle"
  /\ \A c \in Conn : conn[c].stage = "unused" \/ conn[c].gone
  /\ reap = "done"
  /\ Stop
  /\ UNCHANGED restarts

(* The process dies, or systemd kills one that does not stop in time.      *)
Die ==
  /\ \/ life = "up" /\ restarts < MaxRestarts /\ restarts' = restarts + 1
     \/ life = "closing" /\ UNCHANGED restarts
  /\ Stop

(* Faulty variant of Stalled: one hand-out too many.                       *)
StalledOnceMore(s) ==
  /\ life = "up"
  /\ queue[s] = "active"
  /\ pc[s] = "idle"
  /\ stalls[s] <= MaxStalledCount
  /\ queue' = [queue EXCEPT ![s] = "wait"]
  /\ stalls' = [stalls EXCEPT ![s] = @ + 1]
  /\ UNCHANGED <<kills, channel, docker, process, handlers, conn>>

(* BullMQ's stalled check: an active entry that no live handler renews     *)
(* goes back to the wait list, MaxStalledCount times, then fails.          *)
Stalled(s) ==
  /\ life = "up"
  /\ queue[s] = "active"
  /\ pc[s] = "idle"
  /\ IF stalls[s] < MaxStalledCount
     THEN /\ queue' = [queue EXCEPT ![s] = "wait"]
          /\ stalls' = [stalls EXCEPT ![s] = @ + 1]
     ELSE /\ queue' = [queue EXCEPT ![s] = "failed"]
          /\ UNCHANGED stalls
  /\ UNCHANGED <<kills, channel, docker, process, handlers, conn>>

-----------------------------------------------------------------------------
Handler(s) ==
  \/ Take(s) \/ CreateContainer(s) \/ CreateFails(s) \/ StartContainer(s)
  \/ StartFails(s) \/ Scrap(s) \/ ConnectTimeout(s) \/ MaxDuration(s)
  \/ DestroyContainer(s) \/ Complete(s) \/ Fail(s) \/ OnControl(s)
  \/ Stalled(s)

Gateway(c) ==
  \/ Open(c)
  \/ \E s \in Session : StartMessage(c, s)
  \/ Attach(c) \/ AttachFails(c) \/ QueueWaitExpires(c)
  \/ \E code \in {0, 1} : PtyEnds(c, code)
  \/ HangUp(c)

Process ==
  \/ Boot \/ ReapList \/ ReapSkipped \/ ReapDone \/ Shutdown \/ ShutdownDone
  \/ Die
  \/ \E s \in Session : ReapRemove(s)

WorkerNext ==
  \/ \E s \in Session : Handler(s)
  \/ \E c \in Conn : Gateway(c)
  \/ Process

Next ==
  \/ WorkerNext
  \/ \E s \in Session : Enqueue(s) \/ SendKill(s)

Spec == Init /\ [][Next]_wvars

(* What Node, BullMQ, Docker and systemd grant: a timer fires, a call      *)
(* returns, a free slot is filled, a stalled entry is noticed, the process *)
(* is restarted, and one that is asked to stop is killed in the end.       *)
(* Nothing is asked of the phones, of the PTYs or of the API.              *)
Proceeds(s) ==
  \/ CreateContainer(s) \/ CreateFails(s) \/ StartContainer(s) \/ StartFails(s)
  \/ Scrap(s) \/ MaxDuration(s) \/ DestroyContainer(s) \/ Complete(s)
  \/ Fail(s) \/ Stalled(s)

Fairness ==
  /\ WF_wvars(Boot)
  /\ WF_wvars(life = "closing" /\ Die)
  /\ WF_wvars(\E s \in Session : Take(s))
  /\ \A s \in Session : WF_wvars(Proceeds(s))

FairSpec == Spec /\ Fairness

-----------------------------------------------------------------------------
(* Properties                                                              *)

(* c's phone is at the other end of a PTY of session s.                    *)
Attached(c, s) ==
  /\ conn[c].sess = s
  /\ conn[c].stage = "running"
  /\ ~conn[c].exited

(* c got as far as attached() for s and its socket is closed.              *)
AttachedAndGone(c, s) ==
  /\ conn[c].sess = s
  /\ conn[c].stage \in {"running", "ended"}
  /\ conn[c].gone

(* gateway.ts:167-169, session-registry.ts:16-19: a slot whose connect     *)
(* timeout was cancelled is not left to the duration cap.  While it is     *)
(* held there is a phone on a live PTY, whose end will release it, or the  *)
(* slot was claimed by a connection that has already closed: hanging up    *)
(* during resolveSpawn is the only way to strand one.                      *)
SlotHeldForSomeone ==
  \A s \in registry :
    ~connectTimer[s] => \E c \in Conn : Attached(c, s) \/ AttachedAndGone(c, s)

(* Only a closed socket finishes a connection that has not spawned yet.    *)
LateMeansGone ==
  \A c \in Conn :
    conn[c].stage \in {"unused", "open", "waiting"} /\ conn[c].exited
      => conn[c].gone

SlotInv == LateMeansGone /\ SlotHeldForSomeone

(* The same without the exception, as gateway.ts:207 (Tear a session down  *)
(* exactly once, from exit, kill, or client disconnect) and                *)
(* session-registry.ts:18 have it.  Violated: see the README.              *)
DisconnectFreesSlot ==
  \A s \in registry : ~connectTimer[s] => \E c \in Conn : Attached(c, s)

Owned(s) == pc[s] \in {"starting", "scrapping", "blocked", "removing"}

(* docker.ts:91,98,106: once reapOrphans has run, a container exists only  *)
(* for a handler that will still remove it, across crashes, failed starts  *)
(* and reaping under running jobs; unless Docker itself refused to remove  *)
(* or to list it.                                                          *)
NoOrphanContainer ==
  life # "down" /\ reap = "done" =>
    \A s \in Session : container[s] # "none" => Owned(s) \/ s \in stuck

(* The last run of s ended with the worker's death, not with a verdict.    *)
StalledOut(s) == stalls[s] = MaxStalledCount /\ restarts > MaxStalledCount

(* index.ts:48-55,100: an entry that left the queue was reported to the    *)
(* API by the run that ended it, whichever path it took; the exceptions    *)
(* are a worker that died on every run and one that was shutting down.     *)
EveryEndIsReported ==
  \A s \in Session \ dropped :
    /\ queue[s] = "completed" =>
         \E code \in ExitCode : Exited(s, stalls[s], code) \in events
    /\ queue[s] = "failed" =>
         Errored(s, stalls[s]) \in events \/ StalledOut(s)

(* index.ts:70-79 (settled): one run of a session reports one verdict,     *)
(* however its timers, the kill signal, the phones and the PTYs race.      *)
OneVerdictPerRun ==
  \A e, f \in events :
    Ending(e) /\ Ending(f) /\ e.sess = f.sess /\ e.attempt = f.attempt => e = f

(* What makes OneVerdictPerRun inductive: a handler works on an active     *)
(* entry, only a blocked one is registered, and the current run of a       *)
(* session has a verdict only once its handler is past publishing it.      *)
HandlerOwnsEntry ==
  \A s \in Session :
    /\ pc[s] # "idle" => queue[s] = "active"
    /\ s \in registry => pc[s] = "blocked"

VerdictIsLast ==
  \A e \in events :
    /\ e.attempt <= stalls[e.sess]
    /\ Ending(e) /\ e.attempt = stalls[e.sess] =>
         /\ queue[e.sess] \notin {"none", "wait"}
         /\ pc[e.sess] \in {"idle", "returned", "threw"}

VerdictInv == HandlerOwnsEntry /\ VerdictIsLast /\ OneVerdictPerRun

(* What makes EveryEndIsReported inductive: a handler that is through has  *)
(* reported, and no entry stalls more often than the worker has stopped.   *)
ThroughMeansReported ==
  \A s \in Session \ dropped :
    /\ pc[s] = "returned" =>
         \E code \in ExitCode : Exited(s, stalls[s], code) \in events
    /\ pc[s] = "threw" => Errored(s, stalls[s]) \in events

StallsFollowStops ==
  \A s \in Session :
    /\ stalls[s] <= restarts
    /\ life # "up" \/ (queue[s] = "active" /\ pc[s] = "idle") =>
         stalls[s] < restarts

ReportInv == ThroughMeansReported /\ StallsFollowStops /\ EveryEndIsReported

(* A run that failed has no other verdict, unless its entry stalled out:   *)
(* BullMQ and the events then say the same.                                *)
ErrorIsTheVerdict ==
  \A s \in Session :
    stalls[s] < MaxStalledCount /\ (pc[s] = "threw" \/ queue[s] = "failed") =>
      \A e \in events :
        e.sess = s /\ e.attempt = stalls[s] => e.type # "session-exited"

(* What makes NoOrphanContainer inductive: a container nobody owns is      *)
(* listed, about to be listed, or Docker refused to remove or list it.     *)
OrphansAreDoomed ==
  /\ reap = "done" => doomed = {}
  /\ \A s \in Session : container[s] # "none" =>
       \/ Owned(s)
       \/ s \in doomed \cup stuck
       \/ reap = "list"
       \/ life = "down"

(* index.ts:81-83: an enqueued session leaves the queue although no phone  *)
(* ever comes, hangs up or types exit.                                     *)
EnqueuedIsSettled ==
  \A s \in Session :
    queue[s] = "wait" ~> queue[s] \in {"completed", "failed"}

=============================================================================
