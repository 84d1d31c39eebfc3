----------------------- MODULE ExecutionWorkerProofs -----------------------
(***************************************************************************)
(* What TLAPS proves of ExecutionWorker, for any number of sessions,       *)
(* phones and slots, any bound on restarts, Docker failures and hand-outs  *)
(* of an entry, and an arbitrary API: its types, the slots it holds, the   *)
(* verdicts it reports, and the containers it leaves.                      *)
(***************************************************************************)
EXTENDS ExecutionWorker, TLAPS

(* The two assumptions on constants that arithmetic needs.                 *)
LEMMA Bounds ==
  /\ MaxStalledCount \in Nat
  /\ MaxRestarts \in Nat
  /\ MaxFaults \in Nat
BY StalledAssumption, WorkerAssumption

-----------------------------------------------------------------------------
(* Type correctness                                                        *)

LEMMA ReleaseType ==
  ASSUME TypeOK, NEW s, NEW code \in ExitCode, Release(s, code)
  PROVE  /\ registry' \subseteq Session
         /\ pc' \in [Session -> Pc]
         /\ connectTimer' \in [Session -> BOOLEAN]
         /\ exitCode' \in [Session -> ExitCode]
BY DEF TypeOK, Release, Pc

LEMMA OnSessionExitType ==
  ASSUME TypeOK, NEW c, NEW code \in ExitCode, OnSessionExit(c, code)
  PROVE  /\ registry' \subseteq Session
         /\ pc' \in [Session -> Pc]
         /\ connectTimer' \in [Session -> BOOLEAN]
         /\ exitCode' \in [Session -> ExitCode]
<1>1. CASE Reports(c)
  BY <1>1, ReleaseType DEF OnSessionExit
<1>2. CASE ~Reports(c)
  BY <1>2 DEF OnSessionExit, TypeOK
<1>3. QED
  BY <1>1, <1>2

LEMMA FinishType ==
  ASSUME NEW r \in Conns
  PROVE  Finish(r) \in Conns
BY DEF Finish, Conns

LEMMA FinishFields ==
  ASSUME NEW r \in Conns, NEW stage \in Stage
  PROVE  /\ [Finish(r) EXCEPT !.stage = stage].sess = r.sess
         /\ [Finish(r) EXCEPT !.stage = stage].stage = stage
         /\ [Finish(r) EXCEPT !.stage = stage].gone = r.gone
BY DEF Finish, Conns

LEMMA GatewayType ==
  ASSUME conn \in [Conn -> Conns], NEW c \in Conn,
         \/ SpawnFails(c, "ended") \/ SpawnFails(c, "refused")
         \/ PtyExit(c) \/ SocketClose(c)
  PROVE  conn' \in [Conn -> Conns]
<1>1. conn[c] \in Conns /\ Finish(conn[c]) \in Conns
  BY FinishType
<1>2. CASE SpawnFails(c, "ended") \/ SpawnFails(c, "refused")
  BY <1>1, <1>2 DEF SpawnFails, Conns, Stage
<1>3. CASE PtyExit(c)
  BY <1>1, <1>3 DEF PtyExit, Conns, Stage
<1>4. CASE SocketClose(c)
  BY <1>1, <1>4 DEF SocketClose, Conns
<1>5. QED
  BY <1>2, <1>3, <1>4

LEMMA GatewayDiesType ==
  ASSUME conn \in [Conn -> Conns], GatewayDies
  PROVE  conn' \in [Conn -> Conns]
<1>1. ASSUME NEW c \in Conn
      PROVE  [conn[c] EXCEPT !.stage = "refused", !.gone = TRUE, !.exited = TRUE]
               \in Conns
  BY DEF Conns, Stage
<1>2. QED
  BY <1>1 DEF GatewayDies

LEMMA StopType ==
  ASSUME TypeOK, Stop, restarts' \in 0..MaxRestarts
  PROVE  TypeOK'
<1>1. conn' \in [Conn -> Conns]
  BY GatewayDiesType DEF TypeOK, Stop
<1>2. /\ pc' \in [Session -> Pc]
      /\ exitCode' \in [Session -> ExitCode]
      /\ connectTimer' \in [Session -> BOOLEAN]
  BY DEF Stop, Pc, ExitCode
<1>3. QED
  BY <1>1, <1>2 DEF TypeOK, Stop, redis, channel

LEMMA TypeKept ==
  ASSUME TypeOK, [Next]_wvars
  PROVE  TypeOK'
<1> USE Bounds
<1>1. ASSUME NEW s \in Session, Take(s) PROVE TypeOK'
  BY <1>1 DEF TypeOK, Take, QueueState, Pc, channel, docker, process
<1>2. ASSUME NEW s \in Session, CreateContainer(s) PROVE TypeOK'
  BY <1>2 DEF TypeOK, CreateContainer, Pc, redis, channel, process
<1>3. ASSUME NEW s \in Session, CreateFails(s) PROVE TypeOK'
  BY <1>3 DEF TypeOK, CreateFails, Fault, Publish, Errored, Event, Pc, redis, process
<1>4. ASSUME NEW s \in Session, StartContainer(s) PROVE TypeOK'
  BY <1>4 DEF TypeOK, StartContainer, Publish, Started, Event, Pc, redis, process
<1>5. ASSUME NEW s \in Session, StartFails(s) PROVE TypeOK'
  BY <1>5 DEF TypeOK, StartFails, Fault, Pc, redis, channel, process
<1>6. ASSUME NEW s \in Session, Scrap(s) PROVE TypeOK'
  BY <1>6 DEF TypeOK, Scrap, DropContainer, RemoveContainer, Fault, Publish, Errored,
              Event, Pc, redis, process
<1>7. ASSUME NEW s \in Session, ConnectTimeout(s) PROVE TypeOK'
  BY <1>7, ReleaseType DEF TypeOK, ConnectTimeout, ExitCode, redis, channel, docker, process
<1>8. ASSUME NEW s \in Session, MaxDuration(s) PROVE TypeOK'
  BY <1>8, ReleaseType DEF TypeOK, MaxDuration, ExitCode, redis, channel, docker, process
<1>9. ASSUME NEW s \in Session, DestroyContainer(s) PROVE TypeOK'
  BY <1>9 DEF TypeOK, DestroyContainer, DropContainer, RemoveContainer, Fault, Publish,
              Exited, Event, Pc, redis, process
<1>10. ASSUME NEW s \in Session, Complete(s) \/ Fail(s) PROVE TypeOK'
  BY <1>10 DEF TypeOK, Complete, Fail, Settle, QueueState, ExitCode, Pc, channel, docker,
               process
<1>11. ASSUME NEW s \in Session, OnControl(s) PROVE TypeOK'
  BY <1>11, ReleaseType DEF TypeOK, OnControl, ExitCode, channel, docker, process
<1>12. ASSUME NEW s \in Session, Stalled(s) PROVE TypeOK'
  BY <1>12 DEF TypeOK, Stalled, QueueState, Attempt, channel, docker, process, handlers
<1>13. ASSUME NEW c \in Conn, Gateway(c) PROVE TypeOK'
  <2>1. CASE Open(c)
    BY <2>1 DEF TypeOK, Open, Accept, Conns, Stage, redis, channel, docker, process, handlers
  <2>2. ASSUME NEW s \in Session, StartMessage(c, s) PROVE TypeOK'
    BY <2>2 DEF TypeOK, StartMessage, Start, Conns, Stage, redis, channel, docker, process,
                handlers
  <2>3. CASE Attach(c)
    BY <2>3 DEF TypeOK, Attach, Spawn, Conns, Stage, redis, channel, docker, process
  <2>4. CASE AttachFails(c)
    <3>1. conn' \in [Conn -> Conns]
      BY <2>4, GatewayType DEF TypeOK, AttachFails
    <3>2. CASE Reports(c)
      BY <2>4, <3>1, <3>2, ReleaseType
      DEF TypeOK, AttachFails, ExitCode, redis, channel, docker, process
    <3>3. CASE ~Reports(c)
      BY <2>4, <3>1, <3>3 DEF TypeOK, AttachFails, redis, channel, docker, process
    <3>4. QED
      BY <3>2, <3>3
  <2>5. CASE QueueWaitExpires(c)
    BY <2>5, OnSessionExitType, GatewayType
    DEF TypeOK, QueueWaitExpires, ExitCode, redis, channel, docker, process
  <2>6. ASSUME NEW code \in {0, 1}, PtyEnds(c, code) PROVE TypeOK'
    BY <2>6, OnSessionExitType, GatewayType
    DEF TypeOK, PtyEnds, ExitCode, redis, channel, docker, process
  <2>7. CASE HangUp(c)
    BY <2>7, OnSessionExitType, GatewayType
    DEF TypeOK, HangUp, ExitCode, redis, channel, docker, process
  <2>8. QED
    BY <1>13, <2>1, <2>2, <2>3, <2>4, <2>5, <2>6, <2>7 DEF Gateway
<1>14. CASE Boot
  BY <1>14 DEF TypeOK, Boot, channel, docker, handlers
<1>15. CASE ReapList \/ ReapSkipped \/ ReapDone
  BY <1>15 DEF TypeOK, ReapList, ReapSkipped, ReapDone, Fault, redis, channel, docker, handlers
<1>16. CASE Shutdown
  BY <1>16 DEF TypeOK, Shutdown, redis, channel, docker, handlers
<1>17. CASE ShutdownDone \/ Die
  BY <1>17, StopType DEF TypeOK, ShutdownDone, Die
<1>18. ASSUME NEW s \in Session, ReapRemove(s) PROVE TypeOK'
  BY <1>18 DEF TypeOK, ReapRemove, RemoveContainer, Fault, redis, channel, process, handlers
<1>19. ASSUME NEW s \in Session, Enqueue(s) \/ SendKill(s) PROVE TypeOK'
  BY <1>19 DEF TypeOK, Enqueue, SendKill, QueueState, channel, docker, process, handlers
<1>20. CASE UNCHANGED wvars
  BY <1>20 DEF TypeOK, wvars
<1>21. QED
  BY <1>1, <1>2, <1>3, <1>4, <1>5, <1>6, <1>7, <1>8, <1>9, <1>10, <1>11, <1>12, <1>13,
     <1>14, <1>15, <1>16, <1>17, <1>18, <1>19, <1>20
  DEF Next, WorkerNext, Handler, Process

LEMMA TypeInit == Init => TypeOK
BY Bounds DEF Init, TypeOK, GatewayInit, QueueState, Attempt, Pc, ExitCode, Conns, Stage

THEOREM TypeInvariant == Spec => []TypeOK
BY TypeInit, TypeKept, PTL DEF Spec

-----------------------------------------------------------------------------
(* Slots.  SlotInv is inductive: SlotHeldForSomeone alone is not, since a  *)
(* connection that finished while waiting and attaches later must be known *)
(* to have closed.                                                         *)

LEMMA SlotStutter ==
  ASSUME SlotInv, UNCHANGED <<conn, registry, connectTimer>>
  PROVE  SlotInv'
BY DEF SlotInv, LateMeansGone, SlotHeldForSomeone, Attached, AttachedAndGone

LEMMA ReleaseKeepsSlots ==
  ASSUME TypeOK, SlotInv, NEW s, NEW code, Release(s, code), UNCHANGED conn
  PROVE  SlotInv'
<1>1. CASE s \notin registry
  BY <1>1, SlotStutter DEF Release
<1>2. CASE s \in registry
  <2>1. \A t \in registry' : t \in registry /\ connectTimer'[t] = connectTimer[t]
    BY <1>2 DEF Release, TypeOK
  <2>2. QED
    BY <2>1 DEF SlotInv, LateMeansGone, SlotHeldForSomeone, Attached, AttachedAndGone
<1>3. QED
  BY <1>1, <1>2

(* What OnSessionExit leaves registered had its timer before, and is not   *)
(* the session of a connection that reports.                               *)
LEMMA OnSessionExitRegistry ==
  ASSUME TypeOK, NEW c, NEW code, OnSessionExit(c, code)
  PROVE  \A t \in registry' :
           /\ t \in registry
           /\ connectTimer'[t] = connectTimer[t]
           /\ Reports(c) => t # conn[c].sess
BY DEF OnSessionExit, Release, TypeOK

LEMMA ConnectionEndKeepsSlots ==
  ASSUME TypeOK, SlotInv, NEW c \in Conn, NEW code, OnSessionExit(c, code),
         \/ SpawnFails(c, "ended") \/ SpawnFails(c, "refused")
         \/ PtyExit(c) \/ SocketClose(c)
  PROVE  SlotInv'
<1>1. /\ \A d \in Conn \ {c} : conn'[d] = conn[d]
      /\ conn'[c].sess = conn[c].sess
      /\ conn[c].gone => conn'[c].gone
      /\ conn'[c].stage \in {"unused", "open", "waiting"} => conn'[c].gone
      /\ conn[c].stage \in {"running", "ended"} =>
           conn'[c].stage \in {"running", "ended"}
  <2> DEFINE r == conn[c]
  <2>1. /\ r \in Conns
        /\ Finish(r) = [r EXCEPT !.exited = TRUE]
        /\ Finish(r) \in Conns
    BY FinishType DEF TypeOK, Finish
  <2>2. CASE SpawnFails(c, "ended") \/ SpawnFails(c, "refused")
    <3>1. \/ conn' = [conn EXCEPT ![c] = [Finish(r) EXCEPT !.stage = "ended"]]
          \/ conn' = [conn EXCEPT ![c] = [Finish(r) EXCEPT !.stage = "refused"]]
      BY <2>2 DEF SpawnFails
    <3>2. r.stage = "waiting"
      BY <2>2 DEF SpawnFails
    <3>3. PICK stage \in {"ended", "refused"} :
            conn' = [conn EXCEPT ![c] = [Finish(r) EXCEPT !.stage = stage]]
      BY <3>1
    <3>4. conn'[c] = [Finish(r) EXCEPT !.stage = stage]
          /\ \A d \in Conn \ {c} : conn'[d] = conn[d]
      BY <3>3 DEF TypeOK
    <3>5. /\ conn'[c].sess = r.sess
          /\ conn'[c].stage = stage
          /\ conn'[c].gone = r.gone
      BY <2>1, <3>4, FinishFields DEF Stage
    <3>6. QED
      BY <3>2, <3>4, <3>5
  <2>3. CASE PtyExit(c)
    <3>1. conn' = [conn EXCEPT ![c] = [Finish(r) EXCEPT !.stage = "ended"]]
      BY <2>3 DEF PtyExit
    <3>2. QED
      BY <2>1, <3>1 DEF TypeOK, Conns
  <2>4. CASE SocketClose(c)
    <3>1. conn' = [conn EXCEPT ![c] = [Finish(r) EXCEPT !.gone = TRUE]]
      BY <2>4 DEF SocketClose
    <3>2. QED
      BY <2>1, <3>1 DEF TypeOK, Conns
  <2>5. QED
    BY <2>2, <2>3, <2>4
<1>2. LateMeansGone'
  BY <1>1 DEF SlotInv, LateMeansGone
<1>3. SlotHeldForSomeone'
  <2> SUFFICES ASSUME NEW t \in registry', ~connectTimer'[t]
               PROVE  \E d \in Conn : Attached(d, t)' \/ AttachedAndGone(d, t)'
    BY DEF SlotHeldForSomeone
  <2>1. /\ t \in registry
        /\ ~connectTimer[t]
        /\ Reports(c) => t # conn[c].sess
    BY OnSessionExitRegistry
  <2>2. PICK d \in Conn : Attached(d, t) \/ AttachedAndGone(d, t)
    BY <2>1 DEF SlotInv, SlotHeldForSomeone
  <2>3. CASE d # c
    BY <1>1, <2>2, <2>3 DEF Attached, AttachedAndGone
  <2>4. CASE d = c
    <3>1. ~Attached(c, t)
      BY <2>1 DEF Attached, Reports
    <3>2. AttachedAndGone(c, t)
      BY <2>2, <2>4, <3>1
    <3>3. AttachedAndGone(c, t)'
      BY <1>1, <3>2 DEF AttachedAndGone
    <3>4. QED
      BY <3>3
  <2>5. QED
    BY <2>3, <2>4
<1>4. QED
  BY <1>2, <1>3 DEF SlotInv

(* One connection moves, no session is unregistered, no timer is           *)
(* cancelled but that of a session the connection is now attached to.      *)
LEMMA AttachKeepsSlots ==
  ASSUME TypeOK, SlotInv, NEW c \in Conn, Attach(c)
  PROVE  SlotInv'
<1> PICK s : s = conn[c].sess
  OBVIOUS
<1>1. /\ conn[c] \in Conns
      /\ conn[c].stage = "waiting"
      /\ conn' = [conn EXCEPT ![c].stage = "running"]
      /\ registry' = registry
      /\ \A t \in registry : t # s => connectTimer'[t] = connectTimer[t]
  BY DEF TypeOK, Attach, Spawn
<1>2. conn'[c] = [conn[c] EXCEPT !.stage = "running"]
      /\ \A d \in Conn \ {c} : conn'[d] = conn[d]
  BY <1>1 DEF TypeOK
<1>3. LateMeansGone'
  BY <1>1, <1>2 DEF SlotInv, LateMeansGone, Conns
<1>4. Attached(c, s)' \/ AttachedAndGone(c, s)'
  BY <1>1, <1>2 DEF SlotInv, LateMeansGone, Attached, AttachedAndGone, Conns
<1>5. SlotHeldForSomeone'
  <2> SUFFICES ASSUME NEW t \in registry', ~connectTimer'[t]
               PROVE  \E d \in Conn : Attached(d, t)' \/ AttachedAndGone(d, t)'
    BY DEF SlotHeldForSomeone
  <2>1. CASE t = s
    BY <1>4, <2>1 DEF Attached, AttachedAndGone
  <2>2. CASE t # s
    <3>1. PICK d \in Conn : Attached(d, t) \/ AttachedAndGone(d, t)
      BY <1>1, <2>2 DEF SlotInv, SlotHeldForSomeone
    <3>2. d # c
      BY <1>1, <3>1 DEF Attached, AttachedAndGone
    <3>3. QED
      BY <1>2, <3>1, <3>2 DEF Attached, AttachedAndGone
  <2>3. QED
    BY <2>1, <2>2
<1>6. QED
  BY <1>3, <1>5 DEF SlotInv

LEMMA AttachFailsKeepsSlots ==
  ASSUME TypeOK, SlotInv, NEW c \in Conn, AttachFails(c)
  PROVE  SlotInv'
<1>1. CASE Reports(c)
  <2>1. OnSessionExit(c, 1) /\ SpawnFails(c, "ended")
    BY <1>1 DEF AttachFails, OnSessionExit
  <2>2. QED
    BY <2>1, ConnectionEndKeepsSlots
<1>2. CASE ~Reports(c)
  <2> PICK s : s = conn[c].sess
    OBVIOUS
  <2>1. /\ conn[c] \in Conns
        /\ conn[c].stage = "waiting"
        /\ conn[c].exited
        /\ conn[c].gone
    BY <1>2 DEF AttachFails, SpawnFails, Reports, TypeOK, SlotInv, LateMeansGone
  <2>2. /\ Finish(conn[c]) = [conn[c] EXCEPT !.exited = TRUE]
        /\ conn' = [conn EXCEPT ![c] = [Finish(conn[c]) EXCEPT !.stage = "ended"]]
        /\ registry' = registry
        /\ \A t \in registry : t # s => connectTimer'[t] = connectTimer[t]
    BY <1>2 DEF AttachFails, SpawnFails, Finish, TypeOK
  <2>3. /\ conn'[c] = [Finish(conn[c]) EXCEPT !.stage = "ended"]
        /\ \A d \in Conn \ {c} : conn'[d] = conn[d]
        /\ conn'[c].sess = s
        /\ conn'[c].stage = "ended"
        /\ conn'[c].gone
    <3>1. /\ conn'[c] = [Finish(conn[c]) EXCEPT !.stage = "ended"]
          /\ \A d \in Conn \ {c} : conn'[d] = conn[d]
      BY <2>2 DEF TypeOK
    <3>2. QED
      BY <2>1, <3>1, FinishFields DEF Stage
  <2>4. AttachedAndGone(c, s)'
    BY <2>3 DEF AttachedAndGone
  <2>5. LateMeansGone'
    BY <2>3 DEF SlotInv, LateMeansGone
  <2>6. ASSUME NEW t \in registry', ~connectTimer'[t]
        PROVE  \E d \in Conn : Attached(d, t)' \/ AttachedAndGone(d, t)'
    <3>1. CASE t = s
      BY <2>4, <3>1 DEF AttachedAndGone
    <3>2. CASE t # s
      <4>1. PICK d \in Conn : Attached(d, t) \/ AttachedAndGone(d, t)
        BY <2>2, <2>6, <3>2 DEF SlotInv, SlotHeldForSomeone
      <4>2. d # c
        BY <2>1, <4>1 DEF Attached, AttachedAndGone
      <4>3. QED
        BY <2>3, <4>1, <4>2 DEF Attached, AttachedAndGone
    <3>3. QED
      BY <3>1, <3>2
  <2>7. QED
    BY <2>5, <2>6 DEF SlotInv, SlotHeldForSomeone
<1>3. QED
  BY <1>1, <1>2

LEMMA OpenStartKeepSlots ==
  ASSUME TypeOK, SlotInv, NEW c \in Conn,
         Open(c) \/ \E s \in Session : StartMessage(c, s)
  PROVE  SlotInv'
<1>1. /\ \A d \in Conn \ {c} : conn'[d] = conn[d]
      /\ conn[c].stage \in {"unused", "open", "waiting"}
      /\ conn'[c].stage \in {"open", "waiting"}
      /\ conn'[c].exited = conn[c].exited
      /\ conn'[c].gone = conn[c].gone
      /\ UNCHANGED <<registry, connectTimer>>
  BY DEF Open, Accept, StartMessage, Start, TypeOK, Conns, handlers
<1>2. SlotHeldForSomeone'
  BY <1>1 DEF SlotInv, SlotHeldForSomeone, Attached, AttachedAndGone
<1>3. QED
  BY <1>1, <1>2 DEF SlotInv, LateMeansGone

LEMMA StopKeepsSlots ==
  ASSUME TypeOK, SlotInv, Stop
  PROVE  SlotInv'
<1>1. registry' = {}
  BY DEF Stop
<1>2. \A c \in Conn : conn'[c] = conn[c] \/ conn'[c].stage = "refused"
  <2> SUFFICES ASSUME NEW c \in Conn
               PROVE  conn'[c] = conn[c] \/ conn'[c].stage = "refused"
    OBVIOUS
  <2>1. conn[c] \in Conns
    BY DEF TypeOK
  <2>2. [conn[c] EXCEPT !.stage = "refused", !.gone = TRUE, !.exited = TRUE].stage
          = "refused"
    BY <2>1 DEF Conns
  <2>3. conn'[c] =
          IF conn[c].stage = "unused" THEN conn[c]
          ELSE [conn[c] EXCEPT !.stage = "refused", !.gone = TRUE, !.exited = TRUE]
    BY DEF Stop, GatewayDies
  <2>4. QED
    BY <2>2, <2>3
<1>3. QED
  BY <1>1, <1>2 DEF SlotInv, LateMeansGone, SlotHeldForSomeone

THEOREM SlotHeld == Spec => []SlotHeldForSomeone
<1>1. Init => SlotInv
  BY DEF Init, GatewayInit, SlotInv, LateMeansGone, SlotHeldForSomeone
<1>2. TypeOK /\ SlotInv /\ [Next]_wvars => SlotInv'
  <2> SUFFICES ASSUME TypeOK, SlotInv, [Next]_wvars PROVE SlotInv'
    OBVIOUS
  <2>1. ASSUME NEW s \in Session, StartContainer(s) PROVE SlotInv'
    <3>1. \A t \in registry' : ~connectTimer'[t] => t \in registry /\ ~connectTimer[t]
      BY <2>1 DEF StartContainer, TypeOK
    <3>2. UNCHANGED conn
      BY <2>1 DEF StartContainer
    <3>3. QED
      BY <3>1, <3>2 DEF SlotInv, LateMeansGone, SlotHeldForSomeone, Attached, AttachedAndGone
  <2>2. ASSUME NEW s \in Session, ConnectTimeout(s) PROVE SlotInv'
    BY <2>2, ReleaseKeepsSlots DEF ConnectTimeout
  <2>3. ASSUME NEW s \in Session, MaxDuration(s) PROVE SlotInv'
    BY <2>3, ReleaseKeepsSlots DEF MaxDuration
  <2>4. ASSUME NEW s \in Session, OnControl(s) PROVE SlotInv'
    BY <2>4, ReleaseKeepsSlots DEF OnControl
  <2>5. ASSUME NEW c \in Conn, Gateway(c) PROVE SlotInv'
    <3>1. CASE Open(c) \/ \E s \in Session : StartMessage(c, s)
      BY <3>1, OpenStartKeepSlots
    <3>2. CASE Attach(c)
      BY <3>2, AttachKeepsSlots
    <3>3. CASE AttachFails(c)
      BY <3>3, AttachFailsKeepsSlots
    <3>4. CASE QueueWaitExpires(c)
      BY <3>4, ConnectionEndKeepsSlots DEF QueueWaitExpires
    <3>5. ASSUME NEW code \in {0, 1}, PtyEnds(c, code) PROVE SlotInv'
      BY <3>5, ConnectionEndKeepsSlots DEF PtyEnds
    <3>6. CASE HangUp(c)
      BY <3>6, ConnectionEndKeepsSlots DEF HangUp
    <3>7. QED
      BY <2>5, <3>1, <3>2, <3>3, <3>4, <3>5, <3>6 DEF Gateway
  <2>6. CASE ShutdownDone \/ Die
    BY <2>6, StopKeepsSlots DEF ShutdownDone, Die
  <2>7. ASSUME NEW s \in Session,
               \/ Take(s) \/ CreateContainer(s) \/ CreateFails(s) \/ StartFails(s)
               \/ Scrap(s) \/ DestroyContainer(s)
        PROVE  SlotInv'
    BY <2>7, SlotStutter
    DEF Take, CreateContainer, CreateFails, StartFails, Scrap, DestroyContainer
  <2>8. ASSUME NEW s \in Session, Complete(s) \/ Fail(s) \/ Stalled(s) PROVE SlotInv'
    BY <2>8, SlotStutter DEF Complete, Fail, Settle, Stalled, handlers
  <2>9. CASE Boot \/ ReapList \/ ReapSkipped \/ ReapDone \/ Shutdown
    BY <2>9, SlotStutter DEF Boot, ReapList, ReapSkipped, ReapDone, Shutdown, handlers
  <2>10. ASSUME NEW s \in Session, ReapRemove(s) \/ Enqueue(s) \/ SendKill(s)
         PROVE  SlotInv'
    BY <2>10, SlotStutter DEF ReapRemove, Enqueue, SendKill, handlers
  <2>11. CASE UNCHANGED wvars
    BY <2>11, SlotStutter DEF wvars
  <2>12. QED
    BY <2>1, <2>2, <2>3, <2>4, <2>5, <2>6, <2>7, <2>8, <2>9, <2>10, <2>11
    DEF Next, WorkerNext, Handler, Process
<1>3. QED
  BY <1>1, <1>2, TypeInvariant, PTL DEF Spec, SlotInv

-----------------------------------------------------------------------------
(* Events                                                                  *)

LEMMA StartedFacts ==
  ASSUME NEW s \in Session, NEW n \in Attempt
  PROVE  /\ Started(s, n) \in Event
         /\ Started(s, n).sess = s
         /\ Started(s, n).attempt = n
         /\ ~Ending(Started(s, n))
BY DEF Started, Event, Ending

LEMMA ErroredFacts ==
  ASSUME NEW s \in Session, NEW n \in Attempt
  PROVE  /\ Errored(s, n) \in Event
         /\ Errored(s, n).sess = s
         /\ Errored(s, n).attempt = n
BY DEF Errored, Event

LEMMA ExitedFacts ==
  ASSUME NEW s \in Session, NEW n \in Attempt, NEW code \in ExitCode
  PROVE  /\ Exited(s, n, code) \in Event
         /\ Exited(s, n, code).sess = s
         /\ Exited(s, n, code).attempt = n
BY DEF Exited, Event

LEMMA EventFacts ==
  ASSUME NEW e \in Event
  PROVE  e.sess \in Session /\ e.attempt \in Attempt
BY DEF Event

LEMMA PublishFacts ==
  ASSUME NEW e, Publish(e)
  PROVE  /\ events \subseteq events' /\ events' \subseteq events \cup {e}
         /\ dropped \subseteq dropped'
         /\ e \in events' \/ e.sess \in dropped'
BY DEF Publish

-----------------------------------------------------------------------------
(* A release moves a blocked handler, or nothing.                          *)

LEMMA ReleaseMoves ==
  ASSUME TypeOK, HandlerOwnsEntry, NEW s, NEW code, Release(s, code)
  PROVE  \/ UNCHANGED <<pc, registry>>
         \/ /\ s \in Session
            /\ pc[s] = "blocked"
            /\ pc' = [pc EXCEPT ![s] = "removing"]
            /\ registry' = registry \ {s}
BY DEF TypeOK, HandlerOwnsEntry, Release

LEMMA SessionExitMoves ==
  ASSUME TypeOK, HandlerOwnsEntry, NEW c, NEW code, OnSessionExit(c, code)
  PROVE  \/ UNCHANGED <<pc, registry>>
         \/ \E s \in Session :
              /\ pc[s] = "blocked"
              /\ pc' = [pc EXCEPT ![s] = "removing"]
              /\ registry' = registry \ {s}
<1>1. CASE Reports(c)
  BY <1>1, ReleaseMoves DEF OnSessionExit
<1>2. CASE ~Reports(c)
  BY <1>2 DEF OnSessionExit
<1>3. QED
  BY <1>1, <1>2

LEMMA GatewayMoves ==
  ASSUME TypeOK, HandlerOwnsEntry, NEW c \in Conn, Gateway(c)
  PROVE  /\ UNCHANGED <<redis, channel, docker, process>>
         /\ \/ UNCHANGED <<pc, registry>>
            \/ \E s \in Session :
                 /\ pc[s] = "blocked"
                 /\ pc' = [pc EXCEPT ![s] = "removing"]
                 /\ registry' = registry \ {s}
<1>1. CASE Open(c) \/ \E s \in Session : StartMessage(c, s)
  BY <1>1 DEF Open, StartMessage, handlers
<1>2. CASE Attach(c)
  BY <1>2 DEF Attach
<1>3. CASE AttachFails(c)
  <2>1. CASE Reports(c)
    BY <1>3, <2>1, ReleaseMoves DEF AttachFails
  <2>2. CASE ~Reports(c)
    BY <1>3, <2>2 DEF AttachFails
  <2>3. QED
    BY <1>3, <2>1, <2>2 DEF AttachFails
<1>4. CASE QueueWaitExpires(c)
  BY <1>4, SessionExitMoves DEF QueueWaitExpires
<1>5. ASSUME NEW code \in {0, 1}, PtyEnds(c, code)
      PROVE  /\ UNCHANGED <<redis, channel, docker, process>>
             /\ \/ UNCHANGED <<pc, registry>>
                \/ \E s \in Session :
                     /\ pc[s] = "blocked"
                     /\ pc' = [pc EXCEPT ![s] = "removing"]
                     /\ registry' = registry \ {s}
  BY <1>5, SessionExitMoves DEF PtyEnds
<1>6. CASE HangUp(c)
  BY <1>6, SessionExitMoves DEF HangUp
<1>7. QED
  BY <1>1, <1>2, <1>3, <1>4, <1>5, <1>6 DEF Gateway

-----------------------------------------------------------------------------
(* One verdict per run                                                     *)

LEMMA VerdictStutter ==
  ASSUME VerdictInv, UNCHANGED <<queue, stalls, events, pc, registry>>
  PROVE  VerdictInv'
BY DEF VerdictInv, HandlerOwnsEntry, VerdictIsLast, OneVerdictPerRun

(* The handler of s moves on and publishes at most e: it has not yet given *)
(* this run a verdict, so e is the first.                                  *)
LEMMA MoveKeepsVerdict ==
  ASSUME TypeOK, VerdictInv,
         NEW s \in Session, NEW p \in Pc, NEW e \in Event,
         pc[s] \notin {"idle", "returned", "threw"},
         pc' = [pc EXCEPT ![s] = p],
         registry' \subseteq registry \cup {s},
         s \in registry' => p = "blocked",
         e.sess = s,
         e.attempt = stalls[s],
         Ending(e) => p \in {"returned", "threw"},
         events' \subseteq events \cup {e},
         UNCHANGED <<queue, stalls>>
  PROVE  VerdictInv'
<1>1. /\ queue[s] = "active"
      /\ pc'[s] = p
      /\ \A t \in Session \ {s} : pc'[t] = pc[t]
  BY DEF VerdictInv, HandlerOwnsEntry, TypeOK
<1>2. \A f \in events : Ending(f) /\ f.sess = s => f.attempt < stalls[s]
  <2> SUFFICES ASSUME NEW f \in events, Ending(f), f.sess = s
               PROVE  f.attempt < stalls[s]
    OBVIOUS
  <2>1. f.attempt \in Nat /\ stalls[s] \in Nat
    BY Bounds, EventFacts DEF TypeOK, Attempt
  <2>2. f.attempt <= stalls[s] /\ f.attempt # stalls[s]
    BY DEF VerdictInv, VerdictIsLast
  <2>3. QED
    BY <2>1, <2>2
<1>3. HandlerOwnsEntry'
  BY <1>1 DEF VerdictInv, HandlerOwnsEntry
<1>4. VerdictIsLast'
  <2> SUFFICES ASSUME NEW f \in events'
               PROVE  /\ f.attempt <= stalls[f.sess]
                      /\ Ending(f) /\ f.attempt = stalls[f.sess] =>
                           /\ queue[f.sess] \notin {"none", "wait"}
                           /\ pc'[f.sess] \in {"idle", "returned", "threw"}
    BY DEF VerdictIsLast
  <2>1. CASE f = e
    <3>1. stalls[s] \in Nat
      BY Bounds DEF TypeOK, Attempt
    <3>2. QED
      BY <2>1, <3>1, <1>1
  <2>2. CASE f \in events /\ f.sess = s
    <3>1. f.attempt \in Nat /\ stalls[s] \in Nat
      BY <2>2, Bounds, EventFacts DEF TypeOK, Attempt
    <3>2. f.attempt <= stalls[f.sess]
      BY <2>2 DEF VerdictInv, VerdictIsLast
    <3>3. Ending(f) => f.attempt # stalls[f.sess]
      BY <2>2, <3>1, <1>2
    <3>4. QED
      BY <3>2, <3>3
  <2>3. CASE f \in events /\ f.sess # s
    BY <2>3, <1>1, EventFacts DEF VerdictInv, VerdictIsLast, TypeOK
  <2>4. QED
    BY <2>1, <2>2, <2>3
<1>5. OneVerdictPerRun'
  <2> SUFFICES ASSUME NEW f \in events', NEW g \in events', Ending(f), Ending(g),
                      f.sess = g.sess, f.attempt = g.attempt
               PROVE  f = g
    BY DEF OneVerdictPerRun
  <2>1. CASE f \in events /\ g \in events
    BY <2>1 DEF VerdictInv, OneVerdictPerRun
  <2>2. CASE f = e /\ g = e
    BY <2>2
  <2>3. ASSUME NEW h \in events, Ending(h), h.sess = e.sess, h.attempt = e.attempt
        PROVE  FALSE
    <3>1. h.attempt < stalls[s] /\ h.attempt = stalls[s]
      BY <2>3, <1>2
    <3>2. stalls[s] \in Nat
      BY Bounds DEF TypeOK, Attempt
    <3>3. QED
      BY <3>1, <3>2
  <2>4. QED
    BY <2>1, <2>2, <2>3
<1>6. QED
  BY <1>3, <1>4, <1>5 DEF VerdictInv

LEMMA SilentMoveKeepsVerdict ==
  ASSUME TypeOK, VerdictInv,
         NEW s \in Session, NEW p \in Pc,
         pc[s] \notin {"idle", "returned", "threw"},
         pc' = [pc EXCEPT ![s] = p],
         registry' \subseteq registry,
         s \notin registry',
         UNCHANGED <<queue, stalls, events>>
  PROVE  VerdictInv'
<1> PICK e : e = Started(s, stalls[s])
  OBVIOUS
<1>1. e \in Event /\ e.sess = s /\ e.attempt = stalls[s] /\ ~Ending(e)
  BY StartedFacts DEF TypeOK
<1>2. events' \subseteq events \cup {e} /\ registry' \subseteq registry \cup {s}
  OBVIOUS
<1>3. QED
  BY <1>1, <1>2, MoveKeepsVerdict

(* BullMQ records the result of s, whose handler is through.               *)
LEMMA SettleKeepsVerdict ==
  ASSUME TypeOK, VerdictInv, NEW s \in Session, Complete(s) \/ Fail(s)
  PROVE  VerdictInv'
<1>1. /\ pc[s] \in {"returned", "threw"}
      /\ queue'[s] \in {"completed", "failed"}
      /\ pc'[s] = "idle"
      /\ \A t \in Session \ {s} : pc'[t] = pc[t] /\ queue'[t] = queue[t]
      /\ UNCHANGED <<stalls, events, registry>>
  BY DEF Complete, Fail, Settle, TypeOK, channel
<1>2. HandlerOwnsEntry'
  BY <1>1 DEF VerdictInv, HandlerOwnsEntry
<1>3. VerdictIsLast'
  BY <1>1, EventFacts DEF VerdictInv, VerdictIsLast, TypeOK
<1>4. QED
  BY <1>1, <1>2, <1>3 DEF VerdictInv, OneVerdictPerRun

(* The entry is handed out again, as a new run, or given up.               *)
LEMMA StalledKeepsVerdict ==
  ASSUME TypeOK, VerdictInv, NEW s \in Session, Stalled(s)
  PROVE  VerdictInv'
<1>1. /\ queue[s] = "active" /\ pc[s] = "idle"
      /\ UNCHANGED <<events, pc, registry>>
      /\ \A t \in Session \ {s} : stalls'[t] = stalls[t] /\ queue'[t] = queue[t]
      /\ \/ stalls'[s] = stalls[s] + 1
         \/ stalls'[s] = stalls[s] /\ queue'[s] = "failed"
  BY DEF Stalled, TypeOK, channel, handlers
<1>2. HandlerOwnsEntry'
  BY <1>1 DEF VerdictInv, HandlerOwnsEntry
<1>3. VerdictIsLast'
  <2> SUFFICES ASSUME NEW f \in events
               PROVE  /\ f.attempt <= stalls'[f.sess]
                      /\ Ending(f) /\ f.attempt = stalls'[f.sess] =>
                           /\ queue'[f.sess] \notin {"none", "wait"}
                           /\ pc[f.sess] \in {"idle", "returned", "threw"}
    BY <1>1 DEF VerdictIsLast
  <2>1. /\ f.sess \in Session /\ f.attempt \in Nat /\ stalls[f.sess] \in Nat
        /\ f.attempt <= stalls[f.sess]
    BY Bounds, EventFacts DEF TypeOK, Attempt, VerdictInv, VerdictIsLast
  <2>2. CASE f.sess = s
    BY <1>1, <2>1, <2>2
  <2>3. CASE f.sess # s
    BY <1>1, <2>1, <2>3 DEF VerdictInv, VerdictIsLast
  <2>4. QED
    BY <2>2, <2>3
<1>4. QED
  BY <1>1, <1>2, <1>3 DEF VerdictInv, OneVerdictPerRun

LEMMA VerdictInvKept ==
  ASSUME TypeOK, VerdictInv, [Next]_wvars
  PROVE  VerdictInv'
<1>1. HandlerOwnsEntry
  BY DEF VerdictInv
<1>2. ASSUME NEW s \in Session, pc[s] = "blocked",
             pc' = [pc EXCEPT ![s] = "removing"], registry' = registry \ {s},
             UNCHANGED <<queue, stalls, events>>
      PROVE  VerdictInv'
  <2>1. "removing" \in Pc /\ registry' \subseteq registry /\ s \notin registry'
    BY <1>2 DEF Pc
  <2>2. QED
    BY <1>2, <2>1, SilentMoveKeepsVerdict
<1>3. ASSUME NEW s \in Session, Enqueue(s) PROVE VerdictInv'
  BY <1>3, EventFacts
  DEF VerdictInv, HandlerOwnsEntry, VerdictIsLast, OneVerdictPerRun, TypeOK, Enqueue,
      channel, handlers
<1>4. ASSUME NEW s \in Session, Take(s) PROVE VerdictInv'
  BY <1>4, EventFacts
  DEF VerdictInv, HandlerOwnsEntry, VerdictIsLast, OneVerdictPerRun, TypeOK, Take, channel
<1>5. ASSUME NEW s \in Session, CreateContainer(s) \/ StartFails(s) PROVE VerdictInv'
  <2>1. /\ pc[s] \in {"creating", "starting"}
        /\ s \notin registry
        /\ UNCHANGED <<queue, stalls, events, registry>>
    BY <1>5, <1>1 DEF CreateContainer, StartFails, HandlerOwnsEntry, redis, channel
  <2>2. PICK p \in Pc : pc' = [pc EXCEPT ![s] = p]
    BY <1>5 DEF CreateContainer, StartFails, Pc
  <2>3. QED
    BY <2>1, <2>2, SilentMoveKeepsVerdict
<1>6. ASSUME NEW s \in Session, CreateFails(s) \/ Scrap(s) PROVE VerdictInv'
  <2>1. /\ stalls[s] \in Attempt /\ "threw" \in Pc
        /\ pc[s] \in {"creating", "scrapping"}
        /\ pc' = [pc EXCEPT ![s] = "threw"]
        /\ Publish(Errored(s, stalls[s]))
        /\ UNCHANGED <<queue, stalls, registry>>
    BY <1>6 DEF TypeOK, Pc, CreateFails, Scrap, redis
  <2>2. s \notin registry'
    BY <2>1, <1>1 DEF HandlerOwnsEntry
  <2>3. QED
    BY <2>1, <2>2, MoveKeepsVerdict, ErroredFacts, PublishFacts
<1>7. ASSUME NEW s \in Session, StartContainer(s) PROVE VerdictInv'
  <2>1. /\ stalls[s] \in Attempt /\ "blocked" \in Pc
        /\ pc[s] = "starting"
        /\ pc' = [pc EXCEPT ![s] = "blocked"]
        /\ Publish(Started(s, stalls[s]))
        /\ registry' = registry \cup {s}
        /\ UNCHANGED <<queue, stalls>>
    BY <1>7 DEF TypeOK, Pc, StartContainer, redis
  <2>2. QED
    BY <2>1, MoveKeepsVerdict, StartedFacts, PublishFacts
<1>8. ASSUME NEW s \in Session, DestroyContainer(s) PROVE VerdictInv'
  <2>1. /\ stalls[s] \in Attempt /\ exitCode[s] \in ExitCode /\ "returned" \in Pc
        /\ pc[s] = "removing"
        /\ pc' = [pc EXCEPT ![s] = "returned"]
        /\ Publish(Exited(s, stalls[s], exitCode[s]))
        /\ UNCHANGED <<queue, stalls, registry>>
    BY <1>8 DEF TypeOK, Pc, DestroyContainer, redis
  <2>2. s \notin registry'
    BY <2>1, <1>1 DEF HandlerOwnsEntry
  <2>3. PICK e : e = Exited(s, stalls[s], exitCode[s])
    OBVIOUS
  <2>4. e \in Event /\ e.sess = s /\ e.attempt = stalls[s]
    BY <2>1, <2>3, ExitedFacts
  <2>5. events' \subseteq events \cup {e}
    BY <2>1, <2>3, PublishFacts
  <2>6. registry' \subseteq registry \cup {s}
    BY <2>1
  <2>7. QED
    BY <2>1, <2>2, <2>4, <2>5, <2>6, MoveKeepsVerdict
<1>9. ASSUME NEW s \in Session, ConnectTimeout(s) \/ MaxDuration(s) \/ OnControl(s)
      PROVE  VerdictInv'
  <2>1. Release(s, 0) \/ Release(s, 124) \/ Release(s, 137)
    BY <1>9 DEF ConnectTimeout, MaxDuration, OnControl
  <2>2. UNCHANGED <<queue, stalls, events>>
    BY <1>9 DEF ConnectTimeout, MaxDuration, OnControl, redis, channel
  <2>3. \/ UNCHANGED <<pc, registry>>
        \/ /\ pc[s] = "blocked"
           /\ pc' = [pc EXCEPT ![s] = "removing"]
           /\ registry' = registry \ {s}
    BY <2>1, <1>1, ReleaseMoves
  <2>4. CASE UNCHANGED <<pc, registry>>
    BY <2>2, <2>4, VerdictStutter
  <2>5. QED
    BY <2>2, <2>3, <2>4, <1>2
<1>10. ASSUME NEW s \in Session, Complete(s) \/ Fail(s) PROVE VerdictInv'
  BY <1>10, SettleKeepsVerdict
<1>11. ASSUME NEW s \in Session, Stalled(s) PROVE VerdictInv'
  BY <1>11, StalledKeepsVerdict
<1>12. ASSUME NEW c \in Conn, Gateway(c) PROVE VerdictInv'
  BY <1>12, <1>1, <1>2, GatewayMoves, VerdictStutter DEF redis, channel
<1>13. CASE ShutdownDone \/ Die
  BY <1>13, EventFacts
  DEF VerdictInv, HandlerOwnsEntry, VerdictIsLast, OneVerdictPerRun, ShutdownDone, Die,
      Stop, redis, channel, TypeOK
<1>14. CASE Boot \/ ReapList \/ ReapSkipped \/ ReapDone \/ Shutdown
  BY <1>14, VerdictStutter
  DEF Boot, ReapList, ReapSkipped, ReapDone, Shutdown, redis, channel, handlers
<1>15. ASSUME NEW s \in Session, ReapRemove(s) \/ SendKill(s) PROVE VerdictInv'
  BY <1>15, VerdictStutter DEF ReapRemove, SendKill, redis, channel, handlers
<1>16. CASE UNCHANGED wvars
  BY <1>16, VerdictStutter DEF wvars
<1>17. QED
  BY <1>3, <1>4, <1>5, <1>6, <1>7, <1>8, <1>9, <1>10, <1>11, <1>12, <1>13, <1>14, <1>15,
     <1>16
  DEF Next, WorkerNext, Handler, Process

LEMMA VerdictInit == Init => VerdictInv
BY DEF Init, VerdictInv, HandlerOwnsEntry, VerdictIsLast, OneVerdictPerRun

LEMMA VerdictInvariant == Spec => [](TypeOK /\ VerdictInv)
BY VerdictInit, TypeInvariant, VerdictInvKept, PTL DEF Spec

(* index.ts:70-79: one run of a session reports one verdict.               *)
THEOREM OneVerdict == Spec => []OneVerdictPerRun
BY VerdictInvariant, PTL DEF VerdictInv

-----------------------------------------------------------------------------
(* Every end is reported                                                   *)

LEMMA ReportStutter ==
  ASSUME ReportInv, UNCHANGED <<pc, queue, stalls, events, dropped, life, restarts>>
  PROVE  ReportInv'
BY DEF ReportInv, ThroughMeansReported, StallsFollowStops, EveryEndIsReported, StalledOut

(* The handler of s moves on to p, having reported what p says it has.     *)
LEMMA MoveKeepsReports ==
  ASSUME TypeOK, ReportInv, NEW s \in Session, NEW p \in Pc \ {"idle"},
         pc[s] # "idle",
         pc' = [pc EXCEPT ![s] = p],
         events \subseteq events',
         dropped \subseteq dropped',
         p = "returned" =>
           \/ s \in dropped'
           \/ \E code \in ExitCode : Exited(s, stalls[s], code) \in events',
         p = "threw" => s \in dropped' \/ Errored(s, stalls[s]) \in events',
         UNCHANGED <<queue, stalls, life, restarts>>
  PROVE  ReportInv'
<1>1. pc'[s] = p /\ \A t \in Session \ {s} : pc'[t] = pc[t]
  BY DEF TypeOK
<1>2. ThroughMeansReported'
  BY <1>1 DEF ReportInv, ThroughMeansReported
<1>3. StallsFollowStops'
  BY <1>1 DEF ReportInv, StallsFollowStops
<1>4. EveryEndIsReported'
  BY DEF ReportInv, EveryEndIsReported, StalledOut
<1>5. QED
  BY <1>2, <1>3, <1>4 DEF ReportInv

LEMMA SettleKeepsReports ==
  ASSUME TypeOK, ReportInv, NEW s \in Session, Complete(s) \/ Fail(s)
  PROVE  ReportInv'
<1>1. /\ \/ pc[s] = "returned" /\ queue'[s] = "completed"
         \/ pc[s] = "threw" /\ queue'[s] = "failed"
      /\ pc'[s] = "idle"
      /\ \A t \in Session \ {s} : pc'[t] = pc[t] /\ queue'[t] = queue[t]
      /\ UNCHANGED <<stalls, events, dropped, life, restarts>>
  BY DEF Complete, Fail, Settle, TypeOK, channel, process
<1>2. ThroughMeansReported'
  BY <1>1 DEF ReportInv, ThroughMeansReported
<1>3. StallsFollowStops'
  BY <1>1 DEF ReportInv, StallsFollowStops
<1>4. EveryEndIsReported'
  <2> SUFFICES ASSUME NEW t \in Session \ dropped
               PROVE  /\ queue'[t] = "completed" =>
                           \E code \in ExitCode : Exited(t, stalls[t], code) \in events
                      /\ queue'[t] = "failed" =>
                           Errored(t, stalls[t]) \in events \/ StalledOut(t)
    BY <1>1 DEF EveryEndIsReported, StalledOut
  <2>1. CASE t = s
    BY <1>1, <2>1 DEF ReportInv, ThroughMeansReported
  <2>2. CASE t # s
    BY <1>1, <2>2 DEF ReportInv, EveryEndIsReported
  <2>3. QED
    BY <2>1, <2>2
<1>5. QED
  BY <1>2, <1>3, <1>4 DEF ReportInv

(* An entry is given up only when the worker has stopped more often than   *)
(* BullMQ hands an entry out again.                                        *)
LEMMA StalledKeepsReports ==
  ASSUME TypeOK, ReportInv, NEW s \in Session, Stalled(s)
  PROVE  ReportInv'
<1>1. /\ queue[s] = "active" /\ pc[s] = "idle" /\ life = "up"
      /\ UNCHANGED <<pc, events, dropped, life, restarts>>
      /\ \A t \in Session \ {s} : stalls'[t] = stalls[t] /\ queue'[t] = queue[t]
      /\ \/ /\ stalls'[s] = stalls[s] + 1
            /\ queue'[s] = "wait"
         \/ /\ ~(stalls[s] < MaxStalledCount)
            /\ stalls'[s] = stalls[s]
            /\ queue'[s] = "failed"
  BY DEF Stalled, TypeOK, channel, process, handlers
<1>2. /\ stalls[s] \in Nat /\ stalls[s] <= MaxStalledCount /\ restarts \in Nat
      /\ stalls[s] < restarts
  BY <1>1, Bounds DEF TypeOK, Attempt, ReportInv, StallsFollowStops
<1>3. ThroughMeansReported'
  BY <1>1 DEF ReportInv, ThroughMeansReported
<1>4. StallsFollowStops'
  <2> SUFFICES ASSUME NEW t \in Session
               PROVE  /\ stalls'[t] <= restarts
                      /\ queue'[t] = "active" /\ pc[t] = "idle" => stalls'[t] < restarts
    BY <1>1 DEF StallsFollowStops
  <2>1. CASE t = s
    BY <1>1, <1>2, <2>1
  <2>2. CASE t # s
    BY <1>1, <2>2 DEF ReportInv, StallsFollowStops
  <2>3. QED
    BY <2>1, <2>2
<1>5. EveryEndIsReported'
  <2> SUFFICES ASSUME NEW t \in Session \ dropped
               PROVE  /\ queue'[t] = "completed" =>
                           \E code \in ExitCode : Exited(t, stalls'[t], code) \in events
                      /\ queue'[t] = "failed" =>
                           Errored(t, stalls'[t]) \in events \/ StalledOut(t)'
    BY <1>1 DEF EveryEndIsReported
  <2>1. CASE t = s
    <3>1. queue'[s] = "failed" => stalls'[s] = MaxStalledCount /\ restarts > MaxStalledCount
      BY <1>1, <1>2, Bounds
    <3>2. QED
      BY <1>1, <2>1, <3>1 DEF StalledOut
  <2>2. CASE t # s
    BY <1>1, <2>2 DEF ReportInv, EveryEndIsReported, StalledOut
  <2>3. QED
    BY <2>1, <2>2
<1>6. QED
  BY <1>3, <1>4, <1>5 DEF ReportInv

(* The worker stops: every active entry may now stall once more.           *)
LEMMA StopKeepsReports ==
  ASSUME TypeOK, ReportInv, ShutdownDone \/ Die
  PROVE  ReportInv'
<1>1. /\ life' = "down"
      /\ \A s \in Session : pc'[s] = "idle"
      /\ UNCHANGED <<queue, stalls, events, dropped>>
      /\ \/ life = "up" /\ restarts' = restarts + 1
         \/ life = "closing" /\ restarts' = restarts
  BY DEF ShutdownDone, Die, Stop, redis, channel
<1>2. restarts \in Nat /\ \A s \in Session : stalls[s] \in Nat
  BY Bounds DEF TypeOK, Attempt
<1>3. ThroughMeansReported'
  BY <1>1 DEF ThroughMeansReported
<1>4. StallsFollowStops'
  BY <1>1, <1>2 DEF ReportInv, StallsFollowStops
<1>5. EveryEndIsReported'
  <2>1. \A s \in Session : StalledOut(s) => StalledOut(s)'
    BY <1>1, <1>2, Bounds DEF StalledOut
  <2>2. QED
    BY <1>1, <2>1 DEF ReportInv, EveryEndIsReported
<1>6. QED
  BY <1>3, <1>4, <1>5 DEF ReportInv

LEMMA ShutdownKeepsReports ==
  ASSUME TypeOK, ReportInv, Shutdown
  PROVE  ReportInv'
<1>1. /\ life' = "closing" /\ restarts' = restarts + 1
      /\ UNCHANGED <<pc, queue, stalls, events, dropped>>
  BY DEF Shutdown, redis, channel, handlers
<1>2. restarts \in Nat /\ \A s \in Session : stalls[s] \in Nat
  BY Bounds DEF TypeOK, Attempt
<1>3. ThroughMeansReported'
  BY <1>1 DEF ReportInv, ThroughMeansReported
<1>4. StallsFollowStops'
  BY <1>1, <1>2 DEF ReportInv, StallsFollowStops
<1>5. EveryEndIsReported'
  <2>1. \A s \in Session : StalledOut(s) => StalledOut(s)'
    BY <1>1, <1>2, Bounds DEF StalledOut
  <2>2. QED
    BY <1>1, <2>1 DEF ReportInv, EveryEndIsReported
<1>6. QED
  BY <1>3, <1>4, <1>5 DEF ReportInv

LEMMA BlockedMoveKeepsReports ==
  ASSUME TypeOK, ReportInv, NEW s \in Session, pc[s] = "blocked",
         pc' = [pc EXCEPT ![s] = "removing"],
         UNCHANGED <<queue, stalls, events, dropped, life, restarts>>
  PROVE  ReportInv'
<1>1. "removing" \in Pc \ {"idle"}
  BY DEF Pc
<1>2. QED
  BY <1>1, MoveKeepsReports

LEMMA ReportInvKept ==
  ASSUME TypeOK, VerdictInv, ReportInv, [Next]_wvars
  PROVE  ReportInv'
<1>1. HandlerOwnsEntry
  BY DEF VerdictInv
<1>2. ASSUME NEW s \in Session, Enqueue(s) PROVE ReportInv'
  BY <1>2
  DEF ReportInv, ThroughMeansReported, StallsFollowStops, EveryEndIsReported, StalledOut,
      TypeOK, Enqueue, channel, process, handlers
<1>3. ASSUME NEW s \in Session, Take(s) PROVE ReportInv'
  BY <1>3
  DEF ReportInv, ThroughMeansReported, StallsFollowStops, EveryEndIsReported, StalledOut,
      TypeOK, Take, channel, process
<1>4. ASSUME NEW s \in Session, CreateContainer(s) \/ StartFails(s) PROVE ReportInv'
  <2>1. /\ pc[s] # "idle"
        /\ UNCHANGED <<queue, stalls, events, dropped, life, restarts>>
    BY <1>4 DEF CreateContainer, StartFails, redis, channel, process
  <2>2. PICK p \in {"starting", "scrapping"} : pc' = [pc EXCEPT ![s] = p]
    BY <1>4 DEF CreateContainer, StartFails
  <2>3. p \in Pc \ {"idle"}
    BY DEF Pc
  <2>4. QED
    BY <2>1, <2>2, <2>3, MoveKeepsReports
<1>5. ASSUME NEW s \in Session, CreateFails(s) \/ Scrap(s) PROVE ReportInv'
  <2>1. /\ stalls[s] \in Attempt /\ "threw" \in Pc \ {"idle"}
        /\ pc[s] # "idle"
        /\ pc' = [pc EXCEPT ![s] = "threw"]
        /\ Publish(Errored(s, stalls[s]))
        /\ UNCHANGED <<queue, stalls, life, restarts>>
    BY <1>5 DEF TypeOK, Pc, CreateFails, Scrap, redis, process
  <2>2. /\ events \subseteq events' /\ dropped \subseteq dropped'
        /\ s \in dropped' \/ Errored(s, stalls[s]) \in events'
    BY <2>1, PublishFacts, ErroredFacts
  <2>3. QED
    BY <2>1, <2>2, MoveKeepsReports
<1>6. ASSUME NEW s \in Session, StartContainer(s) PROVE ReportInv'
  <2>1. /\ "blocked" \in Pc \ {"idle"}
        /\ pc[s] # "idle"
        /\ pc' = [pc EXCEPT ![s] = "blocked"]
        /\ UNCHANGED <<queue, stalls, life, restarts>>
    BY <1>6 DEF Pc, StartContainer, redis, process
  <2>2. events \subseteq events' /\ dropped \subseteq dropped'
    BY <1>6, PublishFacts DEF StartContainer
  <2>3. QED
    BY <2>1, <2>2, MoveKeepsReports
<1>7. ASSUME NEW s \in Session, DestroyContainer(s) PROVE ReportInv'
  <2>1. /\ stalls[s] \in Attempt /\ exitCode[s] \in ExitCode
        /\ "returned" \in Pc \ {"idle"}
        /\ pc[s] # "idle"
        /\ pc' = [pc EXCEPT ![s] = "returned"]
        /\ Publish(Exited(s, stalls[s], exitCode[s]))
        /\ UNCHANGED <<queue, stalls, life, restarts>>
    BY <1>7 DEF TypeOK, Pc, DestroyContainer, redis, process
  <2>2. PICK e : e = Exited(s, stalls[s], exitCode[s])
    OBVIOUS
  <2>3. e.sess = s
    BY <2>1, <2>2, ExitedFacts
  <2>4. /\ events \subseteq events' /\ dropped \subseteq dropped'
        /\ s \in dropped' \/ e \in events'
    BY <2>1, <2>2, <2>3, PublishFacts
  <2>5. s \in dropped' \/ \E code \in ExitCode : Exited(s, stalls[s], code) \in events'
    BY <2>1, <2>2, <2>4
  <2>6. QED
    BY <2>1, <2>4, <2>5, MoveKeepsReports
<1>8. ASSUME NEW s \in Session, ConnectTimeout(s) \/ MaxDuration(s) \/ OnControl(s)
      PROVE  ReportInv'
  <2>1. Release(s, 0) \/ Release(s, 124) \/ Release(s, 137)
    BY <1>8 DEF ConnectTimeout, MaxDuration, OnControl
  <2>2. UNCHANGED <<queue, stalls, events, dropped, life, restarts>>
    BY <1>8 DEF ConnectTimeout, MaxDuration, OnControl, redis, channel, process
  <2>3. \/ UNCHANGED pc
        \/ pc[s] = "blocked" /\ pc' = [pc EXCEPT ![s] = "removing"]
    BY <2>1, <1>1, ReleaseMoves
  <2>4. CASE UNCHANGED pc
    BY <2>2, <2>4, ReportStutter
  <2>5. QED
    BY <2>2, <2>3, <2>4, BlockedMoveKeepsReports
<1>9. ASSUME NEW c \in Conn, Gateway(c) PROVE ReportInv'
  <2>1. UNCHANGED <<queue, stalls, events, dropped, life, restarts>>
    BY <1>9, <1>1, GatewayMoves DEF redis, channel, process
  <2>2. CASE UNCHANGED pc
    BY <2>1, <2>2, ReportStutter
  <2>3. CASE \E s \in Session : pc[s] = "blocked" /\ pc' = [pc EXCEPT ![s] = "removing"]
    BY <2>1, <2>3, BlockedMoveKeepsReports
  <2>4. QED
    BY <1>9, <1>1, <2>2, <2>3, GatewayMoves
<1>10. ASSUME NEW s \in Session, Complete(s) \/ Fail(s) PROVE ReportInv'
  BY <1>10, SettleKeepsReports
<1>11. ASSUME NEW s \in Session, Stalled(s) PROVE ReportInv'
  BY <1>11, StalledKeepsReports
<1>12. CASE ShutdownDone \/ Die
  BY <1>12, StopKeepsReports
<1>13. CASE Shutdown
  BY <1>13, ShutdownKeepsReports
<1>14. CASE Boot
  BY <1>14
  DEF ReportInv, ThroughMeansReported, StallsFollowStops, EveryEndIsReported, StalledOut,
      Boot, channel, handlers
<1>15. CASE ReapList \/ ReapSkipped \/ ReapDone
  BY <1>15, ReportStutter DEF ReapList, ReapSkipped, ReapDone, redis, channel, handlers
<1>16. ASSUME NEW s \in Session, ReapRemove(s) \/ SendKill(s) PROVE ReportInv'
  BY <1>16, ReportStutter DEF ReapRemove, SendKill, redis, channel, process, handlers
<1>17. CASE UNCHANGED wvars
  BY <1>17, ReportStutter DEF wvars
<1>18. QED
  BY <1>2, <1>3, <1>4, <1>5, <1>6, <1>7, <1>8, <1>9, <1>10, <1>11, <1>12, <1>13, <1>14,
     <1>15, <1>16, <1>17
  DEF Next, WorkerNext, Handler, Process

(* index.ts:48-55,100: what left the queue was reported by the run that    *)
(* ended it.                                                               *)
THEOREM EndsAreReported == Spec => []EveryEndIsReported
<1>1. Init => ReportInv
  <2>1. Init => ThroughMeansReported /\ EveryEndIsReported
    BY DEF Init, ThroughMeansReported, EveryEndIsReported
  <2>2. Init => StallsFollowStops
    <3>1. SUFFICES ASSUME Init, NEW s \in Session
                   PROVE  /\ stalls[s] <= restarts
                          /\ life = "up"
                          /\ queue[s] # "active"
      BY DEF StallsFollowStops
    <3>2. stalls = [x \in Session |-> 0] /\ restarts = 0 /\ life = "up"
          /\ queue = [x \in Session |-> "none"]
      BY <3>1 DEF Init
    <3>3. stalls[s] = 0 /\ queue[s] = "none"
      BY <3>2
    <3>4. QED
      BY <3>2, <3>3
  <2>3. QED
    BY <2>1, <2>2 DEF ReportInv
<1>2. QED
  BY <1>1, VerdictInvariant, ReportInvKept, PTL DEF Spec, ReportInv

-----------------------------------------------------------------------------
(* Containers.  OrphansAreDoomed is inductive with HandlerOwnsEntry: a     *)
(* handler that starts owns no container yet, so only the steps that leave *)
(* a handler's care or finish reaping matter.                              *)

LEMMA OrphanStutter ==
  ASSUME OrphansAreDoomed, UNCHANGED <<container, doomed, stuck, pc, life, reap>>
  PROVE  OrphansAreDoomed'
BY DEF OrphansAreDoomed, Owned

(* A handler moves to a step in which it still owns its container.         *)
LEMMA OwnedMoveKeepsOrphans ==
  ASSUME TypeOK, OrphansAreDoomed, NEW s \in Session,
         NEW p \in {"starting", "scrapping", "blocked", "removing"},
         pc' = [pc EXCEPT ![s] = p],
         \A t \in Session \ {s} : container'[t] = container[t],
         UNCHANGED <<doomed, stuck, life, reap>>
  PROVE  OrphansAreDoomed'
<1>1. \A t \in Session : Owned(t) => Owned(t)'
  BY DEF TypeOK, Owned
<1>2. Owned(s)'
  BY DEF TypeOK, Owned
<1>3. QED
  BY <1>1, <1>2 DEF OrphansAreDoomed

(* A handler that owned no container moves, and no container changes.      *)
LEMMA OwnerlessMoveKeepsOrphans ==
  ASSUME TypeOK, OrphansAreDoomed, NEW s \in Session, NEW p, ~Owned(s),
         pc' = [pc EXCEPT ![s] = p],
         UNCHANGED <<container, doomed, stuck, life, reap>>
  PROVE  OrphansAreDoomed'
<1>1. \A t \in Session : Owned(t) => Owned(t)'
  BY DEF TypeOK, Owned
<1>2. QED
  BY <1>1 DEF OrphansAreDoomed

(* What removal leaves behind is what Docker refused to remove.            *)
LEMMA RemoveContainerFacts ==
  ASSUME TypeOK, NEW s \in Session, RemoveContainer(s)
  PROVE  /\ \A t \in Session \ {s} : /\ container'[t] = container[t]
                                     /\ t \in stuck <=> t \in stuck'
         /\ container'[s] = "none" \/ s \in stuck'
<1>1. CASE /\ container' = [container EXCEPT ![s] = "none"]
           /\ stuck' = stuck \ {s}
  BY <1>1 DEF TypeOK
<1>2. CASE stuck' = stuck \cup {s} /\ UNCHANGED container
  BY <1>2
<1>3. QED
  BY <1>1, <1>2 DEF RemoveContainer

LEMMA DropKeepsOrphans ==
  ASSUME TypeOK, OrphansAreDoomed, NEW s \in Session, NEW p,
         DropContainer(s), pc' = [pc EXCEPT ![s] = p], UNCHANGED <<life, reap>>
  PROVE  OrphansAreDoomed'
<1>1. /\ \A t \in Session \ {s} : /\ container'[t] = container[t]
                                  /\ t \in stuck <=> t \in stuck'
      /\ container'[s] = "none" \/ s \in stuck'
  BY RemoveContainerFacts DEF DropContainer
<1>2. doomed' \subseteq doomed /\ \A t \in Session \ {s} : t \in doomed => t \in doomed'
  BY DEF DropContainer
<1>3. \A t \in Session \ {s} : Owned(t) => Owned(t)'
  BY DEF TypeOK, Owned
<1>4. reap' = "done" => doomed' = {}
  BY <1>2 DEF OrphansAreDoomed
<1>5. ASSUME NEW t \in Session, container'[t] # "none"
      PROVE  \/ Owned(t)'
             \/ t \in doomed' \cup stuck'
             \/ reap' = "list"
             \/ life' = "down"
  <2>1. CASE t = s
    BY <1>1, <1>5, <2>1
  <2>2. CASE t # s
    BY <1>1, <1>2, <1>3, <1>5, <2>2 DEF OrphansAreDoomed
  <2>3. QED
    BY <2>1, <2>2
<1>6. QED
  BY <1>4, <1>5 DEF OrphansAreDoomed

LEMMA ReapKeepsOrphans ==
  ASSUME TypeOK, OrphansAreDoomed,
         ReapList \/ ReapSkipped \/ ReapDone \/ \E s \in Session : ReapRemove(s)
  PROVE  OrphansAreDoomed'
<1>1. CASE ReapList \/ ReapSkipped
  BY <1>1 DEF OrphansAreDoomed, Owned, ReapList, ReapSkipped, handlers
<1>2. CASE ReapDone
  BY <1>2 DEF OrphansAreDoomed, Owned, ReapDone, docker, handlers
<1>3. ASSUME NEW s \in Session, ReapRemove(s) PROVE OrphansAreDoomed'
  <2>1. /\ \A t \in Session \ {s} : /\ container'[t] = container[t]
                                    /\ t \in stuck <=> t \in stuck'
        /\ container'[s] = "none" \/ s \in stuck'
    BY <1>3, RemoveContainerFacts DEF ReapRemove
  <2>2. doomed' = doomed \ {s} /\ UNCHANGED <<pc, life, reap>>
    BY <1>3 DEF ReapRemove, process, handlers
  <2>3. QED
    BY <2>1, <2>2 DEF OrphansAreDoomed, Owned
<1>4. QED
  BY <1>1, <1>2, <1>3

LEMMA OrphansKept ==
  ASSUME TypeOK, HandlerOwnsEntry, OrphansAreDoomed, [Next]_wvars
  PROVE  OrphansAreDoomed'
<1>1. ASSUME NEW s \in Session, Take(s) PROVE OrphansAreDoomed'
  <2>1. ~Owned(s)
    BY <1>1 DEF Take, HandlerOwnsEntry, Owned
  <2>2. QED
    BY <1>1, <2>1, OwnerlessMoveKeepsOrphans DEF Take, docker, process
<1>2. ASSUME NEW s \in Session, CreateContainer(s) \/ StartContainer(s)
      PROVE  OrphansAreDoomed'
  BY <1>2, OwnedMoveKeepsOrphans DEF TypeOK, CreateContainer, StartContainer, process
<1>3. ASSUME NEW s \in Session, StartFails(s) PROVE OrphansAreDoomed'
  BY <1>3, OwnedMoveKeepsOrphans DEF StartFails, process
<1>4. ASSUME NEW s \in Session, CreateFails(s) \/ Complete(s) \/ Fail(s)
      PROVE  OrphansAreDoomed'
  <2>1. ~Owned(s)
    BY <1>4 DEF CreateFails, Complete, Fail, Settle, Owned
  <2>2. UNCHANGED <<container, doomed, stuck, life, reap>>
    BY <1>4 DEF CreateFails, Complete, Fail, Settle, docker, process
  <2>3. \E p \in Pc : pc' = [pc EXCEPT ![s] = p]
    BY <1>4 DEF CreateFails, Complete, Fail, Settle, Pc
  <2>4. QED
    BY <2>1, <2>2, <2>3, OwnerlessMoveKeepsOrphans
<1>5. ASSUME NEW s \in Session, Scrap(s) \/ DestroyContainer(s) PROVE OrphansAreDoomed'
  BY <1>5, DropKeepsOrphans DEF Scrap, DestroyContainer, process
<1>6. ASSUME \/ UNCHANGED <<pc, registry>>
             \/ \E s \in Session : /\ pc[s] = "blocked"
                                   /\ pc' = [pc EXCEPT ![s] = "removing"]
                                   /\ registry' = registry \ {s},
             UNCHANGED <<container, doomed, stuck, life, reap>>
      PROVE  OrphansAreDoomed'
  BY <1>6, OrphanStutter, OwnedMoveKeepsOrphans
<1>7. ASSUME NEW s \in Session, ConnectTimeout(s) \/ MaxDuration(s) \/ OnControl(s)
      PROVE  OrphansAreDoomed'
  <2>1. Release(s, 0) \/ Release(s, 124) \/ Release(s, 137)
    BY <1>7 DEF ConnectTimeout, MaxDuration, OnControl
  <2>2. UNCHANGED <<container, doomed, stuck, life, reap>>
    BY <1>7 DEF ConnectTimeout, MaxDuration, OnControl, docker, process
  <2>3. \/ UNCHANGED <<pc, registry>>
        \/ /\ pc[s] = "blocked"
           /\ pc' = [pc EXCEPT ![s] = "removing"]
           /\ registry' = registry \ {s}
    BY <2>1, ReleaseMoves
  <2>4. QED
    BY <2>2, <2>3, <1>6
<1>8. ASSUME NEW c \in Conn, Gateway(c) PROVE OrphansAreDoomed'
  BY <1>8, <1>6, GatewayMoves DEF docker, process
<1>9. ASSUME NEW s \in Session, Stalled(s) \/ Enqueue(s) \/ SendKill(s)
      PROVE  OrphansAreDoomed'
  BY <1>9, OrphanStutter DEF Stalled, Enqueue, SendKill, docker, process, handlers
<1>10. CASE ReapList \/ ReapSkipped \/ ReapDone \/ \E s \in Session : ReapRemove(s)
  BY <1>10, ReapKeepsOrphans
<1>11. CASE Boot \/ Shutdown
  BY <1>11 DEF OrphansAreDoomed, Owned, Boot, Shutdown, docker, handlers
<1>12. CASE ShutdownDone \/ Die
  BY <1>12 DEF OrphansAreDoomed, ShutdownDone, Die, Stop
<1>13. CASE UNCHANGED wvars
  BY <1>13, OrphanStutter DEF wvars
<1>14. QED
  BY <1>1, <1>2, <1>3, <1>4, <1>5, <1>7, <1>8, <1>9, <1>10, <1>11, <1>12, <1>13
  DEF Next, WorkerNext, Handler, Process

(* docker.ts:91,98,106: after reapOrphans only a handler that will remove  *)
(* it, or Docker's own refusal, keeps a container.                         *)
THEOREM NoOrphan == Spec => []NoOrphanContainer
<1>1. Init => OrphansAreDoomed
  BY DEF Init, OrphansAreDoomed
<1>2. OrphansAreDoomed => NoOrphanContainer
  BY DEF OrphansAreDoomed, NoOrphanContainer
<1>3. VerdictInv => HandlerOwnsEntry
  BY DEF VerdictInv
<1>4. QED
  BY <1>1, <1>2, <1>3, VerdictInvariant, OrphansKept, PTL DEF Spec

-----------------------------------------------------------------------------
(* For whoever composes this module: the verdict of a failed run, and what *)
(* the worker does to Redis                                                *)

(* What a step of the worker does to Redis: it takes kills, publishes      *)
(* about an entry it works on, or moves an entry that has not failed.      *)
RedisStep ==
  \/ UNCHANGED <<queue, events, stalls>> /\ kills' \in SUBSET kills
  \/ \E e \in Event :
       /\ queue[e.sess] # "none" /\ queue[e.sess] # "failed"
       /\ events' = events \cup {e}
       /\ UNCHANGED <<queue, kills, stalls>>
  \/ \E s \in Session, q \in QueueState \ {"none"} :
       /\ queue[s] # "none" /\ queue[s] # "failed"
       /\ queue' = [queue EXCEPT ![s] = q]
       /\ stalls' = stalls \/ stalls' = [stalls EXCEPT ![s] = @ + 1]
       /\ UNCHANGED <<events, kills>>

LEMMA RedisSteps ==
  ASSUME TypeOK, HandlerOwnsEntry, WorkerNext
  PROVE  RedisStep
<1>1. ASSUME NEW e \in Event, queue[e.sess] = "active", Publish(e),
             UNCHANGED <<queue, stalls, kills>>
      PROVE  RedisStep
  BY <1>1 DEF RedisStep, Publish
<1>2. ASSUME NEW s \in Session, CreateFails(s) \/ Scrap(s) PROVE RedisStep
  <2>1. /\ stalls[s] \in Attempt
        /\ queue[s] = "active"
        /\ Publish(Errored(s, stalls[s]))
        /\ UNCHANGED <<queue, stalls, kills>>
    BY <1>2 DEF TypeOK, HandlerOwnsEntry, CreateFails, Scrap, redis
  <2>2. QED
    BY <2>1, <1>1, ErroredFacts
<1>3. ASSUME NEW s \in Session, StartContainer(s) PROVE RedisStep
  <2>1. /\ stalls[s] \in Attempt
        /\ queue[s] = "active"
        /\ Publish(Started(s, stalls[s]))
        /\ UNCHANGED <<queue, stalls, kills>>
    BY <1>3 DEF TypeOK, HandlerOwnsEntry, StartContainer, redis
  <2>2. QED
    BY <2>1, <1>1, StartedFacts
<1>4. ASSUME NEW s \in Session, DestroyContainer(s) PROVE RedisStep
  <2>1. /\ stalls[s] \in Attempt /\ exitCode[s] \in ExitCode
        /\ queue[s] = "active"
        /\ Publish(Exited(s, stalls[s], exitCode[s]))
        /\ UNCHANGED <<queue, stalls, kills>>
    BY <1>4 DEF TypeOK, HandlerOwnsEntry, DestroyContainer, redis
  <2>2. QED
    BY <2>1, <1>1, ExitedFacts
<1>5. ASSUME NEW s \in Session, Take(s) \/ Complete(s) \/ Fail(s) \/ Stalled(s)
      PROVE  RedisStep
  BY <1>5
  DEF RedisStep, HandlerOwnsEntry, QueueState, Take, Complete, Fail, Settle, Stalled, channel
<1>6. ASSUME NEW c \in Conn, Gateway(c) PROVE RedisStep
  BY <1>6, GatewayMoves DEF RedisStep, redis, channel
<1>7. CASE UNCHANGED <<queue, events, stalls>> /\ kills' \in SUBSET kills
  BY <1>7 DEF RedisStep
<1>8. QED
  BY <1>2, <1>3, <1>4, <1>5, <1>6, <1>7
  DEF WorkerNext, Handler, Process, redis, channel, CreateContainer, StartFails,
      ConnectTimeout, MaxDuration, OnControl, Boot, ReapList, ReapSkipped, ReapDone,
      ReapRemove, Shutdown, ShutdownDone, Die, Stop

LEMMA ErrorStutter ==
  ASSUME ErrorIsTheVerdict, UNCHANGED <<queue, stalls, events>>,
         \A s \in Session : pc'[s] = "threw" => pc[s] = "threw"
  PROVE  ErrorIsTheVerdict'
BY DEF ErrorIsTheVerdict

(* A handler moves on and publishes at most e, an exit only if it          *)
(* returned.                                                               *)
LEMMA MoveKeepsError ==
  ASSUME TypeOK, VerdictInv, ErrorIsTheVerdict,
         NEW s \in Session, NEW p \in Pc, NEW e \in Event,
         pc[s] \notin {"idle", "returned", "threw"},
         pc' = [pc EXCEPT ![s] = p],
         e.sess = s,
         e.type = "session-exited" => p # "threw",
         events' \subseteq events \cup {e},
         UNCHANGED <<queue, stalls>>
  PROVE  ErrorIsTheVerdict'
<1> SUFFICES ASSUME NEW t \in Session, stalls[t] < MaxStalledCount,
                    pc'[t] = "threw" \/ queue[t] = "failed",
                    NEW f \in events', f.sess = t, f.attempt = stalls[t],
                    f.type = "session-exited"
             PROVE  FALSE
  BY DEF ErrorIsTheVerdict
<1>1. CASE t # s
  <2>1. pc'[t] = pc[t] /\ f \in events
    BY <1>1 DEF TypeOK
  <2>2. QED
    BY <2>1 DEF ErrorIsTheVerdict
<1>2. CASE t = s
  <2>1. queue[s] = "active" /\ pc'[s] = p
    BY DEF TypeOK, VerdictInv, HandlerOwnsEntry
  <2>2. f \in events
    BY <1>2, <2>1
  <2>3. Ending(f)
    BY DEF Ending
  <2>4. pc[s] \in {"idle", "returned", "threw"}
    BY <1>2, <2>2, <2>3 DEF VerdictInv, VerdictIsLast
  <2>5. QED
    BY <2>4
<1>3. QED
  BY <1>1, <1>2

LEMMA ErrorKept ==
  ASSUME TypeOK, VerdictInv, ErrorIsTheVerdict, [Next]_wvars
  PROVE  ErrorIsTheVerdict'
<1>1. HandlerOwnsEntry
  BY DEF VerdictInv
<1>2. ASSUME NEW s \in Session, CreateFails(s) \/ Scrap(s) PROVE ErrorIsTheVerdict'
  <2>1. /\ stalls[s] \in Attempt /\ "threw" \in Pc
        /\ pc[s] \notin {"idle", "returned", "threw"}
        /\ pc' = [pc EXCEPT ![s] = "threw"]
        /\ Publish(Errored(s, stalls[s]))
        /\ UNCHANGED <<queue, stalls>>
    BY <1>2 DEF TypeOK, Pc, CreateFails, Scrap, redis
  <2>2. PICK e : e = Errored(s, stalls[s])
    OBVIOUS
  <2>3. e \in Event /\ e.sess = s /\ e.type # "session-exited"
    BY <2>1, <2>2, ErroredFacts DEF Errored
  <2>4. events' \subseteq events \cup {e}
    BY <2>1, <2>2, PublishFacts
  <2>5. QED
    BY <2>1, <2>3, <2>4, MoveKeepsError
<1>3. ASSUME NEW s \in Session, StartContainer(s) PROVE ErrorIsTheVerdict'
  <2>1. /\ stalls[s] \in Attempt /\ "blocked" \in Pc
        /\ pc[s] \notin {"idle", "returned", "threw"}
        /\ pc' = [pc EXCEPT ![s] = "blocked"]
        /\ Publish(Started(s, stalls[s]))
        /\ UNCHANGED <<queue, stalls>>
    BY <1>3 DEF TypeOK, Pc, StartContainer, redis
  <2>2. PICK e : e = Started(s, stalls[s])
    OBVIOUS
  <2>3. e \in Event /\ e.sess = s
    BY <2>1, <2>2, StartedFacts
  <2>4. events' \subseteq events \cup {e}
    BY <2>1, <2>2, PublishFacts
  <2>5. QED
    BY <2>1, <2>3, <2>4, MoveKeepsError
<1>4. ASSUME NEW s \in Session, DestroyContainer(s) PROVE ErrorIsTheVerdict'
  <2>1. /\ stalls[s] \in Attempt /\ exitCode[s] \in ExitCode /\ "returned" \in Pc
        /\ pc[s] \notin {"idle", "returned", "threw"}
        /\ pc' = [pc EXCEPT ![s] = "returned"]
        /\ Publish(Exited(s, stalls[s], exitCode[s]))
        /\ UNCHANGED <<queue, stalls>>
    BY <1>4 DEF TypeOK, Pc, DestroyContainer, redis
  <2>2. PICK e : e = Exited(s, stalls[s], exitCode[s])
    OBVIOUS
  <2>3. e \in Event /\ e.sess = s
    BY <2>1, <2>2, ExitedFacts
  <2>4. events' \subseteq events \cup {e}
    BY <2>1, <2>2, PublishFacts
  <2>5. QED
    BY <2>1, <2>3, <2>4, MoveKeepsError
<1>5. ASSUME NEW s \in Session, Complete(s) \/ Fail(s) PROVE ErrorIsTheVerdict'
  BY <1>5, EventFacts DEF ErrorIsTheVerdict, TypeOK, Complete, Fail, Settle, channel
<1>6. ASSUME NEW s \in Session, Stalled(s) PROVE ErrorIsTheVerdict'
  <2>1. /\ queue[s] = "active" /\ pc[s] = "idle"
        /\ UNCHANGED <<events, pc>>
        /\ \A t \in Session \ {s} : stalls'[t] = stalls[t] /\ queue'[t] = queue[t]
        /\ \/ queue'[s] = "wait"
           \/ stalls'[s] = stalls[s] /\ ~(stalls[s] < MaxStalledCount)
    BY <1>6 DEF Stalled, TypeOK, channel, handlers
  <2>2. QED
    BY <2>1 DEF ErrorIsTheVerdict
<1>7. ASSUME NEW s \in Session, Take(s) \/ Enqueue(s) PROVE ErrorIsTheVerdict'
  BY <1>7 DEF ErrorIsTheVerdict, TypeOK, Take, Enqueue, channel, handlers
<1>8. ASSUME NEW s \in Session, CreateContainer(s) \/ StartFails(s)
      PROVE  ErrorIsTheVerdict'
  BY <1>8, ErrorStutter DEF TypeOK, CreateContainer, StartFails, redis, channel
<1>9. ASSUME \/ UNCHANGED <<pc, registry>>
             \/ \E s \in Session : /\ pc[s] = "blocked"
                                   /\ pc' = [pc EXCEPT ![s] = "removing"]
                                   /\ registry' = registry \ {s},
             UNCHANGED <<queue, stalls, events>>
      PROVE  ErrorIsTheVerdict'
  BY <1>9, ErrorStutter DEF TypeOK
<1>10. ASSUME NEW s \in Session, ConnectTimeout(s) \/ MaxDuration(s) \/ OnControl(s)
       PROVE  ErrorIsTheVerdict'
  <2>1. Release(s, 0) \/ Release(s, 124) \/ Release(s, 137)
    BY <1>10 DEF ConnectTimeout, MaxDuration, OnControl
  <2>2. UNCHANGED <<queue, stalls, events>>
    BY <1>10 DEF ConnectTimeout, MaxDuration, OnControl, redis, channel
  <2>3. \/ UNCHANGED <<pc, registry>>
        \/ /\ pc[s] = "blocked"
           /\ pc' = [pc EXCEPT ![s] = "removing"]
           /\ registry' = registry \ {s}
    BY <2>1, <1>1, ReleaseMoves
  <2>4. QED
    BY <2>2, <2>3, <1>9
<1>11. ASSUME NEW c \in Conn, Gateway(c) PROVE ErrorIsTheVerdict'
  BY <1>11, <1>1, <1>9, GatewayMoves DEF redis, channel
<1>12. CASE ShutdownDone \/ Die
  BY <1>12, ErrorStutter DEF ShutdownDone, Die, Stop, redis, channel
<1>13. CASE Boot \/ Shutdown \/ ReapList \/ ReapSkipped \/ ReapDone
  BY <1>13, ErrorStutter
  DEF Boot, Shutdown, ReapList, ReapSkipped, ReapDone, redis, channel, handlers
<1>14. ASSUME NEW s \in Session, ReapRemove(s) \/ SendKill(s) PROVE ErrorIsTheVerdict'
  BY <1>14, ErrorStutter DEF ReapRemove, SendKill, redis, channel, handlers
<1>15. CASE UNCHANGED wvars
  BY <1>15, ErrorStutter DEF wvars
<1>16. QED
  BY <1>2, <1>3, <1>4, <1>5, <1>6, <1>7, <1>8, <1>10, <1>11, <1>12, <1>13, <1>14, <1>15
  DEF Next, WorkerNext, Handler, Process

LEMMA ErrorInvariant == Spec => []ErrorIsTheVerdict
<1>1. Init => ErrorIsTheVerdict
  BY DEF Init, ErrorIsTheVerdict
<1>2. QED
  BY <1>1, VerdictInvariant, ErrorKept, PTL DEF Spec

=============================================================================
